------------------------ MODULE MCGraphCommands_proofs ------------------------
(***************************************************************************)
(* Proofs about GraphCommands, for any ids, roles, kinds and rules: types, *)
(* that the stored graph stays well formed and within the rules, that      *)
(* removals and moves are always accepted, and that a tab's queue replays  *)
(* to its canvas. About ErdRepairs, for any diagrams: that the two ways in *)
(* which a foreign key names its entities stay in step.                    *)
(***************************************************************************)
EXTENDS MCGraphCommands, TLAPS, WellFoundedInduction, SequenceTheorems, FiniteSetTheorems

USE DEF HasNode, HasEdge

\* The commands by their type.
LEMMA CommandFields ==
    ASSUME NEW c \in Commands
    PROVE  \/ c.type = "addNode" /\ c.id \in NodeIds /\ c.node \in Nodes
           \/ c.type = "updateNode" /\ c.id \in NodeIds /\ c.role \in Roles
           \/ c.type = "moveNode" /\ c.id \in NodeIds /\ c.place \in Places
           \/ c.type = "removeNode" /\ c.id \in NodeIds
           \/ c.type = "addEdge" /\ c.id \in EdgeIds /\ c.edge \in Edges
           \/ c.type = "updateEdge" /\ c.id \in EdgeIds /\ c.kind \in EdgeKinds
           \/ c.type = "removeEdge" /\ c.id \in EdgeIds
BY DEF Commands

\* What replacing a node leaves and changes.
LEMMA SetNodeFields ==
    ASSUME NEW g \in Graphs, NEW n \in NodeIds, NEW x \in Nodes \cup {Absent}
    PROVE  /\ SetNode(g, n, x) \in Graphs
           /\ SetNode(g, n, x).edges = g.edges
           /\ \A m \in NodeIds :
                SetNode(g, n, x).nodes[m] = IF m = n THEN x ELSE g.nodes[m]
BY DEF SetNode, Graphs

\* What replacing an edge leaves and changes.
LEMMA SetEdgeFields ==
    ASSUME NEW g \in Graphs, NEW e \in EdgeIds, NEW x \in Edges \cup {Absent}
    PROVE  /\ SetEdge(g, e, x) \in Graphs
           /\ SetEdge(g, e, x).nodes = g.nodes
           /\ \A f \in EdgeIds :
                SetEdge(g, e, x).edges[f] = IF f = e THEN x ELSE g.edges[f]
BY DEF SetEdge, Graphs

\* A node or edge that is there is one.
LEMMA Present ==
    ASSUME NEW g \in Graphs
    PROVE  /\ \A n \in NodeIds : HasNode(g, n) => g.nodes[n] \in Nodes
           /\ \A e \in EdgeIds : HasEdge(g, e) => g.edges[e] \in Edges
BY DEF Graphs

\* What removing a node leaves and changes.
LEMMA RemoveNodeFields ==
    ASSUME NEW g \in Graphs, NEW c, c.id \in NodeIds
    PROVE  /\ RemoveNode(g, c) \in Graphs
           /\ \A n \in NodeIds :
                RemoveNode(g, c).nodes[n] = IF n = c.id THEN Absent ELSE g.nodes[n]
           /\ \A e \in EdgeIds :
                RemoveNode(g, c).edges[e] =
                  IF Incident(g, e, c.id) THEN Absent ELSE g.edges[e]
<1> DEFINE h == SetNode(g, c.id, Absent)
           es == [e \in EdgeIds |-> IF Incident(g, e, c.id) THEN Absent ELSE g.edges[e]]
<1>1. /\ h \in Graphs
      /\ \A n \in NodeIds : h.nodes[n] = IF n = c.id THEN Absent ELSE g.nodes[n]
  BY SetNodeFields
<1>2. es \in [EdgeIds -> Edges \cup {Absent}]
  BY Present
<1>3. RemoveNode(g, c) = [h EXCEPT !.edges = es]
  BY DEF RemoveNode
<1> HIDE DEF h, es
<1>4. [h EXCEPT !.edges = es] \in Graphs /\ [h EXCEPT !.edges = es].nodes = h.nodes
        /\ [h EXCEPT !.edges = es].edges = es
  BY <1>1, <1>2 DEF Graphs
<1> QED
  BY <1>1, <1>3, <1>4 DEF es

\* What moving a node, changing its role and changing an edge's kind leave and change.
LEMMA UpdateFields ==
    ASSUME NEW g \in Graphs, NEW c
    PROVE  /\ c.id \in NodeIds /\ HasNode(g, c.id) /\ c.place \in Places =>
                /\ MoveNode(g, c) \in Graphs
                /\ MoveNode(g, c).edges = g.edges
                /\ \A n \in NodeIds : HasNode(MoveNode(g, c), n) <=> HasNode(g, n)
                /\ \A n \in NodeIds : HasNode(g, n) =>
                     MoveNode(g, c).nodes[n].role = g.nodes[n].role
           /\ c.id \in NodeIds /\ HasNode(g, c.id) /\ c.role \in Roles =>
                /\ UpdateNode(g, c) \in Graphs
                /\ UpdateNode(g, c).edges = g.edges
                /\ \A n \in NodeIds : HasNode(UpdateNode(g, c), n) <=> HasNode(g, n)
                /\ \A n \in NodeIds \ {c.id} : UpdateNode(g, c).nodes[n] = g.nodes[n]
           /\ c.id \in EdgeIds /\ HasEdge(g, c.id) /\ c.kind \in EdgeKinds =>
                /\ UpdateEdge(g, c) \in Graphs
                /\ UpdateEdge(g, c).nodes = g.nodes
                /\ \A e \in EdgeIds :
                     UpdateEdge(g, c).edges[e] =
                       IF e = c.id THEN [g.edges[e] EXCEPT !.kind = c.kind]
                                   ELSE g.edges[e]
<1>1. ASSUME c.id \in NodeIds, HasNode(g, c.id), c.place \in Places
      PROVE  /\ MoveNode(g, c) \in Graphs
             /\ MoveNode(g, c).edges = g.edges
             /\ \A n \in NodeIds : HasNode(MoveNode(g, c), n) <=> HasNode(g, n)
             /\ \A n \in NodeIds : HasNode(g, n) =>
                  MoveNode(g, c).nodes[n].role = g.nodes[n].role
  <2> DEFINE x == [g.nodes[c.id] EXCEPT !.place = c.place]
  <2>1. g.nodes[c.id] \in Nodes
    BY <1>1, Present
  <2>2. x \in Nodes /\ x.role = g.nodes[c.id].role /\ x # Absent
    BY <1>1, <2>1, AbsentAssumption DEF Nodes
  <2>3. MoveNode(g, c) = SetNode(g, c.id, x)
    BY DEF MoveNode
  <2> HIDE DEF x
  <2>4. /\ MoveNode(g, c) \in Graphs
        /\ MoveNode(g, c).edges = g.edges
        /\ \A n \in NodeIds :
             MoveNode(g, c).nodes[n] = IF n = c.id THEN x ELSE g.nodes[n]
    BY <1>1, <2>2, <2>3, SetNodeFields
  <2> QED
    BY <1>1, <2>2, <2>4
<1>2. ASSUME c.id \in NodeIds, HasNode(g, c.id), c.role \in Roles
      PROVE  /\ UpdateNode(g, c) \in Graphs
             /\ UpdateNode(g, c).edges = g.edges
             /\ \A n \in NodeIds : HasNode(UpdateNode(g, c), n) <=> HasNode(g, n)
             /\ \A n \in NodeIds \ {c.id} : UpdateNode(g, c).nodes[n] = g.nodes[n]
  <2> DEFINE x == [g.nodes[c.id] EXCEPT !.role = c.role]
  <2>1. g.nodes[c.id] \in Nodes
    BY <1>2, Present
  <2>2. x \in Nodes /\ x # Absent
    BY <1>2, <2>1, AbsentAssumption DEF Nodes
  <2>3. UpdateNode(g, c) = SetNode(g, c.id, x)
    BY DEF UpdateNode
  <2> HIDE DEF x
  <2>4. /\ UpdateNode(g, c) \in Graphs
        /\ UpdateNode(g, c).edges = g.edges
        /\ \A n \in NodeIds :
             UpdateNode(g, c).nodes[n] = IF n = c.id THEN x ELSE g.nodes[n]
    BY <1>2, <2>2, <2>3, SetNodeFields
  <2> QED
    BY <1>2, <2>2, <2>4
<1>3. ASSUME c.id \in EdgeIds, HasEdge(g, c.id), c.kind \in EdgeKinds
      PROVE  /\ UpdateEdge(g, c) \in Graphs
             /\ UpdateEdge(g, c).nodes = g.nodes
             /\ \A e \in EdgeIds :
                  UpdateEdge(g, c).edges[e] =
                    IF e = c.id THEN [g.edges[e] EXCEPT !.kind = c.kind]
                                ELSE g.edges[e]
  <2>1. g.edges[c.id] \in Edges
    BY <1>3, Present
  <2>2. [g.edges[c.id] EXCEPT !.kind = c.kind] \in Edges
    BY <1>3, <2>1 DEF Edges
  <2> QED
    BY <1>3, <2>2, SetEdgeFields DEF UpdateEdge
<1> QED
  BY <1>1, <1>2, <1>3

\* Applying a command whose element is found gives a graph.
LEMMA ApplyTyped ==
    ASSUME NEW g \in Graphs, NEW c \in Commands, Finds(g, c)
    PROVE  Apply(g, c) \in Graphs
<1>1. CASE c.type = "addNode"
  BY <1>1, CommandFields, SetNodeFields DEF Apply
<1>2. CASE c.type = "updateNode"
  BY <1>2, CommandFields, UpdateFields DEF Apply, Finds
<1>3. CASE c.type = "moveNode"
  BY <1>3, CommandFields, UpdateFields DEF Apply, Finds
<1>4. CASE c.type = "removeNode"
  BY <1>4, CommandFields, RemoveNodeFields DEF Apply
<1>5. CASE c.type = "addEdge"
  BY <1>5, CommandFields, SetEdgeFields DEF Apply
<1>6. CASE c.type = "updateEdge"
  BY <1>6, CommandFields, UpdateFields DEF Apply, Finds
<1>7. CASE c.type = "removeEdge"
  BY <1>7, CommandFields, SetEdgeFields DEF Apply
<1> QED
  BY <1>1, <1>2, <1>3, <1>4, <1>5, <1>6, <1>7, CommandFields

-----------------------------------------------------------------------------

\* A rule judges the kind of an edge and the roles of its ends, nothing else.
LEMMA AllowedFrame ==
    ASSUME NEW g, NEW h, NEW edge, AllowedIn(g, edge),
           HasNode(h, edge.source), HasNode(h, edge.target),
           h.nodes[edge.source].role = g.nodes[edge.source].role,
           h.nodes[edge.target].role = g.nodes[edge.target].role
    PROVE  AllowedIn(h, edge)
BY DEF AllowedIn

\* enforceCommandSemantics() checks every edge a command could make break the rules.
LEMMA EnforcedConforms ==
    ASSUME NEW g \in Graphs, NEW c \in Commands,
           Conforms(g), Valid(g), ServerAccepts(g, c)
    PROVE  Conforms(Apply(g, c))
<1> DEFINE h == Apply(g, c)
<1>1. Enforces(g, c) /\ Finds(g, c)
  BY DEF ServerAccepts, Accepts
<1>2. \A e \in EdgeIds : HasEdge(g, e) =>
        /\ g.edges[e] \in Edges
        /\ AllowedIn(g, g.edges[e])
        /\ g.edges[e].source \in NodeIds /\ HasNode(g, g.edges[e].source)
        /\ g.edges[e].target \in NodeIds /\ HasNode(g, g.edges[e].target)
  BY Present DEF Conforms, Valid, Edges
<1>3. g.nodes \in [NodeIds -> Nodes \cup {Absent}] /\
      g.edges \in [EdgeIds -> Edges \cup {Absent}]
  BY DEF Graphs
<1> SUFFICES ASSUME NEW e \in EdgeIds, HasEdge(h, e)
             PROVE  AllowedIn(h, h.edges[e])
  BY DEF Conforms
<1> HIDE DEF h
<1>a. CASE c.type = "addNode"
  <2>1. c.id \in NodeIds /\ c.node \in Nodes /\ ~HasNode(g, c.id) /\
        h = SetNode(g, c.id, c.node)
    BY <1>a, <1>1, CommandFields DEF h, Apply, Finds
  <2>2. h.edges = g.edges /\ \A n \in NodeIds :
        h.nodes[n] = IF n = c.id THEN c.node ELSE g.nodes[n]
    BY <2>1, SetNodeFields
  <2> QED
    <3>1. c.id # g.edges[e].source /\ c.id # g.edges[e].target /\ h.edges[e] = g.edges[e]
      BY <2>1, <2>2, <1>2
    <3> QED
      BY <3>1, <2>2, <1>2, AllowedFrame
<1>b. CASE c.type = "updateNode"
  <2>1. c.id \in NodeIds /\ c.role \in Roles /\ HasNode(g, c.id) /\ h = UpdateNode(g, c)
    BY <1>b, <1>1, CommandFields DEF h, Apply, Finds
  <2>2. /\ h.edges = g.edges
        /\ \A n \in NodeIds : HasNode(h, n) <=> HasNode(g, n)
        /\ \A n \in NodeIds \ {c.id} : h.nodes[n] = g.nodes[n]
    BY <2>1, UpdateFields
  <2>3. CASE Incident(g, e, c.id)
    BY <2>1, <2>2, <2>3, <1>b, <1>1 DEF Enforces
  <2>4. CASE ~Incident(g, e, c.id)
    <3>1. g.edges[e].source # c.id /\ g.edges[e].target # c.id
      BY <2>2, <2>4 DEF Incident
    <3> QED
      BY <3>1, <2>2, <1>2, AllowedFrame
  <2> QED
    BY <2>3, <2>4
<1>c. CASE c.type = "moveNode"
  <2>1. c.id \in NodeIds /\ c.place \in Places /\ HasNode(g, c.id) /\ h = MoveNode(g, c)
    BY <1>c, <1>1, CommandFields DEF h, Apply, Finds
  <2>2. /\ h.edges = g.edges
        /\ \A n \in NodeIds : HasNode(h, n) <=> HasNode(g, n)
        /\ \A n \in NodeIds : HasNode(g, n) => h.nodes[n].role = g.nodes[n].role
    BY <2>1, UpdateFields
  <2> QED
    BY <2>2, <1>2, AllowedFrame
<1>d. CASE c.type = "removeNode"
  <2>1. c.id \in NodeIds /\ h = RemoveNode(g, c)
    BY <1>d, CommandFields DEF h, Apply
  <2>2. /\ \A n \in NodeIds : h.nodes[n] = IF n = c.id THEN Absent ELSE g.nodes[n]
        /\ h.edges[e] = IF Incident(g, e, c.id) THEN Absent ELSE g.edges[e]
    BY <2>1, RemoveNodeFields
  <2>3. h.edges[e] = g.edges[e] /\ HasEdge(g, e) /\ ~Incident(g, e, c.id)
    BY <2>2
  <2>4. g.edges[e].source # c.id /\ g.edges[e].target # c.id
    BY <2>3 DEF Incident
  <2> QED
    BY <2>2, <2>3, <2>4, <1>2, AllowedFrame
<1>e. CASE c.type = "addEdge"
  <2>1. c.id \in EdgeIds /\ c.edge \in Edges /\ h = SetEdge(g, c.id, c.edge) /\
        AllowedIn(g, c.edge)
    BY <1>e, <1>1, CommandFields DEF h, Apply, Enforces
  <2>2. h.nodes = g.nodes /\ h.edges[e] = IF e = c.id THEN c.edge ELSE g.edges[e]
    BY <2>1, <1>3, SetEdgeFields
  <2> QED
    BY <2>1, <2>2, <1>2 DEF AllowedIn
<1>f. CASE c.type = "updateEdge"
  <2>1. c.id \in EdgeIds /\ c.kind \in EdgeKinds /\ HasEdge(g, c.id) /\ h = UpdateEdge(g, c)
    BY <1>f, <1>1, CommandFields DEF h, Apply, Finds
  <2>2. AllowedIn(g, [g.edges[c.id] EXCEPT !.kind = c.kind])
    BY <2>1, <1>f, <1>1 DEF Enforces
  <2>3. /\ h.nodes = g.nodes
        /\ h.edges[e] = IF e = c.id THEN [g.edges[e] EXCEPT !.kind = c.kind] ELSE g.edges[e]
    BY <2>1, UpdateFields
  <2>4. AllowedIn(g, h.edges[e])
    BY <2>2, <2>3, <1>2
  <2> QED
    BY <2>3, <2>4 DEF AllowedIn
<1>g. CASE c.type = "removeEdge"
  <2>1. c.id \in EdgeIds /\ h = SetEdge(g, c.id, Absent)
    BY <1>g, CommandFields DEF h, Apply
  <2>2. h.nodes = g.nodes /\ h.edges[e] = IF e = c.id THEN Absent ELSE g.edges[e]
    BY <2>1, <1>3, SetEdgeFields
  <2> QED
    BY <2>2, <1>2 DEF AllowedIn
<1> QED
  BY <1>a, <1>b, <1>c, <1>d, <1>e, <1>f, <1>g, CommandFields

-----------------------------------------------------------------------------

\* RemovalsAccepted of one graph.
Removable(g) ==
    /\ \A n \in NodeIds : HasNode(g, n) =>
         /\ Accepts(g, [type |-> "removeNode", id |-> n])
         /\ \A p \in Places : Accepts(g, [type |-> "moveNode", id |-> n, place |-> p])
    /\ \A e \in EdgeIds :
         HasEdge(g, e) => Accepts(g, [type |-> "removeEdge", id |-> e])

\* A graph whose edges are among a valid graph's, with their ends still there, is valid.
LEMMA FewerEdgesValid ==
    ASSUME NEW g \in Graphs, NEW h \in Graphs, Valid(g),
           \A e \in EdgeIds : HasEdge(h, e) =>
             /\ h.edges[e] = g.edges[e]
             /\ HasNode(h, g.edges[e].source)
             /\ HasNode(h, g.edges[e].target)
    PROVE  Valid(h)
BY DEF Valid

\* The whole-graph validation never refuses a removal or a move in a valid graph.
LEMMA ValidRemovable ==
    ASSUME NEW g \in Graphs, Valid(g)
    PROVE  Removable(g)
<1>0. \A e \in EdgeIds : HasEdge(g, e) =>
        /\ g.edges[e].source \in NodeIds /\ HasNode(g, g.edges[e].source)
        /\ g.edges[e].target \in NodeIds /\ HasNode(g, g.edges[e].target)
  BY Present DEF Valid, Edges
<1>1. ASSUME NEW n \in NodeIds, HasNode(g, n)
      PROVE  Accepts(g, [type |-> "removeNode", id |-> n])
  <2> DEFINE c == [type |-> "removeNode", id |-> n]
             h == RemoveNode(g, c)
  <2>1. c.id = n /\ Finds(g, c) /\ Apply(g, c) = h
    BY <1>1 DEF Finds, Apply
  <2>2. /\ h \in Graphs
        /\ \A m \in NodeIds : h.nodes[m] = IF m = n THEN Absent ELSE g.nodes[m]
        /\ \A e \in EdgeIds : h.edges[e] = IF Incident(g, e, n) THEN Absent ELSE g.edges[e]
    BY <2>1, RemoveNodeFields
  <2> HIDE DEF c, h
  <2>3. \A e \in EdgeIds : HasEdge(h, e) =>
          /\ h.edges[e] = g.edges[e]
          /\ HasNode(h, g.edges[e].source)
          /\ HasNode(h, g.edges[e].target)
    BY <2>2, <1>0 DEF Incident
  <2> QED
    BY <2>1, <2>2, <2>3, FewerEdgesValid DEF Accepts, c
<1>2. ASSUME NEW n \in NodeIds, HasNode(g, n), NEW p \in Places
      PROVE  Accepts(g, [type |-> "moveNode", id |-> n, place |-> p])
  <2> DEFINE c == [type |-> "moveNode", id |-> n, place |-> p]
             h == MoveNode(g, c)
  <2>1. c.id = n /\ c.place = p /\ Finds(g, c) /\ Apply(g, c) = h
    BY <1>2 DEF Finds, Apply
  <2>2. /\ h \in Graphs
        /\ \A m \in NodeIds : HasNode(h, m) <=> HasNode(g, m)
        /\ h.edges = g.edges
    BY <1>2, <2>1, UpdateFields
  <2> HIDE DEF c, h
  <2>3. \A e \in EdgeIds : HasEdge(h, e) =>
          /\ h.edges[e] = g.edges[e]
          /\ HasNode(h, g.edges[e].source)
          /\ HasNode(h, g.edges[e].target)
    BY <2>2, <1>0
  <2> QED
    BY <2>1, <2>2, <2>3, FewerEdgesValid DEF Accepts, c
<1>3. ASSUME NEW e \in EdgeIds, HasEdge(g, e)
      PROVE  Accepts(g, [type |-> "removeEdge", id |-> e])
  <2> DEFINE c == [type |-> "removeEdge", id |-> e]
             h == SetEdge(g, e, Absent)
  <2>1. Finds(g, c) /\ Apply(g, c) = h
    BY <1>3 DEF Finds, Apply
  <2>2. /\ h \in Graphs
        /\ h.nodes = g.nodes
        /\ \A f \in EdgeIds : h.edges[f] = IF f = e THEN Absent ELSE g.edges[f]
    BY SetEdgeFields
  <2> HIDE DEF c, h
  <2>3. \A f \in EdgeIds : HasEdge(h, f) =>
          /\ h.edges[f] = g.edges[f]
          /\ HasNode(h, g.edges[f].source)
          /\ HasNode(h, g.edges[f].target)
    BY <2>2, <1>0
  <2> QED
    BY <2>1, <2>2, <2>3, FewerEdgesValid DEF Accepts, c
<1> QED
  BY <1>1, <1>2, <1>3 DEF Removable

-----------------------------------------------------------------------------

\* A command touches ids only.
LEMMA FootprintTyped ==
    ASSUME NEW g \in Graphs, NEW c \in Commands, Finds(g, c)
    PROVE  Footprint(g, c) \subseteq NodeIds \cup EdgeIds
<1>1. \A h \in Graphs, e \in EdgeIds : Ends(h.edges[e]) \subseteq NodeIds
  BY DEF Graphs, Edges, Ends
<1>2. Apply(g, c) \in Graphs
  BY ApplyTyped
<1> QED
  BY <1>1, <1>2 DEF Footprint

\* The inductive invariant: the rules can only be kept step by step together with the
\* well-formedness that makes edges end at nodes.
IInv == TypeOK /\ ServerConforms /\ Valid(canvas)

\* A tab opens on a stored graph that is valid and within the rules.
LEMMA Initially == Init => IInv
<1> SUFFICES ASSUME Init PROVE IInv
  OBVIOUS
<1>1. server \in Graphs /\ Valid(server) /\ Conforms(server) /\ canvas = server
  BY StartsAssumption DEF Init
<1>2. queue = <<>> /\ touched = {} /\ writes = 0
  BY DEF Init
<1>3. 0 \in 0 .. MaxWrites
  BY BoundAssumption
<1> QED
  BY <1>1, <1>2, <1>3 DEF IInv, TypeOK, ServerConforms

\* A stored command keeps the stored graph typed, well formed and conforming.
LEMMA StoreKeeps ==
    ASSUME NEW c \in Commands, IInv, ServerAccepts(server, c)
    PROVE  /\ Apply(server, c) \in Graphs
           /\ Valid(Apply(server, c))
           /\ Conforms(Apply(server, c))
<1>1. server \in Graphs /\ Valid(server) /\ Conforms(server)
  BY DEF IInv, TypeOK, ServerConforms
<1>2. Finds(server, c) /\ Valid(Apply(server, c))
  BY DEF ServerAccepts, Accepts
<1> QED
  BY <1>1, <1>2, ApplyTyped, EnforcedConforms

\* One step per action: what the tab shows stays valid, what is stored stays within the rules.
LEMMA GraphStep == IInv /\ [Next]_vars => IInv'
<1> SUFFICES ASSUME IInv, [Next]_vars PROVE IInv'
  OBVIOUS
<1>0. /\ server \in Graphs /\ canvas \in Graphs /\ queue \in Seq(Commands)
      /\ touched \in SUBSET (NodeIds \cup EdgeIds) /\ writes \in 0 .. MaxWrites
      /\ Valid(server) /\ Conforms(server) /\ Valid(canvas)
  BY DEF IInv, TypeOK, ServerConforms
<1>1. CountWrite => writes' \in 0 .. MaxWrites
  BY <1>0, BoundAssumption DEF CountWrite
<1>2. ASSUME NEW c \in Commands, Edit(c) PROVE IInv'
  <2>1. Finds(canvas, c) /\ Valid(canvas') /\ canvas' = Apply(canvas, c)
    BY <1>2 DEF Edit, Accepts
  <2>2. canvas' \in Graphs
    BY <1>0, <2>1, ApplyTyped
  <2>3. queue' \in Seq(Commands) /\ writes' \in 0 .. MaxWrites
    BY <1>0, <1>1, <1>2 DEF Edit
  <2> QED
    BY <1>0, <1>2, <2>1, <2>2, <2>3 DEF IInv, TypeOK, ServerConforms, Edit
<1>3. ASSUME NEW c \in Commands, PeerWrites(c) PROVE IInv'
  <2>1. server' \in Graphs /\ Valid(server') /\ Conforms(server')
    BY <1>3, StoreKeeps DEF PeerWrites
  <2>2. Footprint(server, c) \subseteq NodeIds \cup EdgeIds
    BY <1>0, <1>3, FootprintTyped DEF PeerWrites, ServerAccepts, Accepts
  <2>3. touched' \in SUBSET (NodeIds \cup EdgeIds) /\ writes' \in 0 .. MaxWrites
    BY <1>0, <1>1, <1>3, <2>2 DEF PeerWrites
  <2> QED
    BY <1>0, <1>3, <2>1, <2>3 DEF IInv, TypeOK, ServerConforms, PeerWrites
<1>4. ASSUME NEW c \in Commands, DirectWrite(c) PROVE IInv'
  <2>1. server' \in Graphs /\ Valid(server') /\ Conforms(server')
    BY <1>4, StoreKeeps DEF DirectWrite
  <2>2. canvas' = server' /\ touched' = {} /\ queue' = queue /\ writes' \in 0 .. MaxWrites
    BY <1>1, <1>4 DEF DirectWrite
  <2> QED
    BY <1>0, <2>1, <2>2 DEF IInv, TypeOK, ServerConforms
<1>5. CASE Sync
  <2>1. Head(queue) \in Commands /\ Tail(queue) \in Seq(Commands)
    BY <1>0, <1>5 DEF Sync
  <2>2. server' \in Graphs /\ Valid(server') /\ Conforms(server')
    BY <1>5, <2>1, StoreKeeps DEF Sync
  <2> QED
    BY <1>0, <1>5, <2>1, <2>2 DEF IInv, TypeOK, ServerConforms, Sync
<1>6. CASE UNCHANGED vars
  BY <1>0, <1>6 DEF IInv, TypeOK, ServerConforms, vars
<1> QED
  BY <1>2, <1>3, <1>4, <1>5, <1>6 DEF Next

\* The inductive invariant holds in every reachable state.
THEOREM Invariant == Spec => []IInv
BY Initially, GraphStep, PTL DEF Spec

\* Types: both graphs, the queue and the history keep theirs.
THEOREM TypeCorrect == Spec => []TypeOK
<1>1. IInv => TypeOK
  BY DEF IInv
<1> QED
  BY <1>1, Invariant, PTL

\* Whatever tabs send, the graph the server stores is well formed and within the rules.
THEOREM StoredGraphConforms == Spec => []ServerConforms
<1>1. IInv => ServerConforms
  BY DEF IInv
<1> QED
  BY <1>1, Invariant, PTL

\* No command elsewhere in the graph can make a removal or a move fail.
THEOREM RemovalsAlwaysAccepted == Spec => []RemovalsAccepted
<1>1. IInv => RemovalsAccepted
  <2> SUFFICES ASSUME IInv PROVE RemovalsAccepted
    OBVIOUS
  <2>1. Removable(server) /\ Removable(canvas)
    BY ValidRemovable DEF IInv, TypeOK, ServerConforms
  <2> QED
    BY <2>1 DEF Removable, RemovalsAccepted
<1> QED
  BY <1>1, Invariant, PTL

-----------------------------------------------------------------------------
(* The queue.  The commands of the queue were accepted, one after the      *)
(* other, from a graph that differs from the stored one only in what other *)
(* tabs touched.                                                           *)

\* A set of numbers has a least element.
LEMMA LeastElement ==
    ASSUME NEW S \in SUBSET Nat, S # {}
    PROVE  \E m \in S : \A n \in S : m <= n
<1> DEFINE R == OpToRel(<, Nat)
<1>1. IsWellFoundedOn(R, Nat)
  BY NatLessThanWellFounded, Zenon
<1>2. PICK m \in S : \A n \in S : ~ (<<n, m>> \in R)
  BY <1>1, WFMin, Zenon
<1>3. \A n \in S : ~ (n < m)
  BY <1>2 DEF OpToRel
<1> QED
  BY <1>3

\* trail is the graphs from g to h on the way through the commands of s.
Trail(g, s, h, trail) ==
    /\ trail \in [0 .. Len(s) -> Graphs]
    /\ trail[0] = g /\ trail[Len(s)] = h
    /\ \A k \in 1 .. Len(s) :
         Accepts(trail[k - 1], s[k]) /\ trail[k] = Apply(trail[k - 1], s[k])

\* Accepting the commands of s one after the other takes g to h.
RunsTo(g, s, h) == \E trail : Trail(g, s, h, trail)

\* The recursive function of Replay.
Unfolds(g, s, f) ==
    f = [k \in 0 .. Len(s) |->
           IF k = 0 THEN g
           ELSE IF f[k - 1] # Absent /\ Accepts(f[k - 1], s[k])
                  THEN Apply(f[k - 1], s[k]) ELSE Absent]

\* Replaying commands that were accepted gives what they gave.
LEMMA ReplayRuns ==
    ASSUME NEW s \in Seq(Commands), NEW g, NEW h, RunsTo(g, s, h)
    PROVE  Replay(g, s) = h
<1>1. PICK t : Trail(g, s, h, t)
  BY DEF RunsTo
<1>2. PICK n \in Nat : n = Len(s)
  OBVIOUS
<1>3. /\ t \in [0 .. n -> Graphs] /\ t[0] = g /\ t[n] = h
      /\ \A k \in 1 .. n : Accepts(t[k - 1], s[k]) /\ t[k] = Apply(t[k - 1], s[k])
  BY <1>1, <1>2 DEF Trail
<1>4. ASSUME NEW k \in 0 .. n, k # 0
      PROVE  k \in 1 .. n /\ k - 1 \in 0 .. n
  BY <1>4
<1>5. \A k \in 0 .. n : t[k] # Absent
  BY <1>3, AbsentAssumption
<1>6. Unfolds(g, s, t)
  <2>1. ASSUME NEW k \in 0 .. n
        PROVE  t[k] = IF k = 0 THEN g
                      ELSE IF t[k - 1] # Absent /\ Accepts(t[k - 1], s[k])
                             THEN Apply(t[k - 1], s[k]) ELSE Absent
    BY <1>3, <1>4, <1>5
  <2>2. t = [k \in 0 .. n |-> t[k]]
    BY <1>3
  <2> QED
    BY <1>2, <2>1, <2>2 DEF Unfolds
<1>7. PICK f : Unfolds(g, s, f) /\ Replay(g, s) = f[n]
  <2>1. PICK f : f = CHOOSE any : Unfolds(g, s, any)
    OBVIOUS
  <2>2. Unfolds(g, s, f)
    BY <1>6, <2>1
  <2>3. Replay(g, s) = f[n]
    BY <1>2, <2>1 DEF Replay, Unfolds
  <2> QED
    BY <2>2, <2>3
<1>8. \A k \in 0 .. n :
        f[k] = IF k = 0 THEN g
               ELSE IF f[k - 1] # Absent /\ Accepts(f[k - 1], s[k])
                      THEN Apply(f[k - 1], s[k]) ELSE Absent
  BY <1>2, <1>7 DEF Unfolds
<1> DEFINE Wrong == {k \in 0 .. n : f[k] # t[k]}
<1>9. Wrong = {}
  <2>1. SUFFICES ASSUME Wrong # {} PROVE FALSE
    OBVIOUS
  <2>2. PICK m \in Wrong : \A k \in Wrong : m <= k
    <3>1. Wrong \in SUBSET Nat
      OBVIOUS
    <3> HIDE DEF Wrong
    <3> QED
      BY <2>1, <3>1, LeastElement
  <2>3. m \in 0 .. n /\ f[m] # t[m]
    BY <2>2
  <2>4. m # 0
    BY <1>3, <1>8, <2>3
  <2>5. m - 1 \in 0 .. n /\ m \in 1 .. n
    BY <1>4, <2>3, <2>4
  <2>6. f[m - 1] = t[m - 1]
    BY <2>2, <2>3, <2>5
  <2> QED
    BY <1>3, <1>5, <1>8, <2>3, <2>4, <2>5, <2>6
<1>10. f[n] = t[n]
  BY <1>9
<1> QED
  BY <1>3, <1>7, <1>10

\* A command the last graph accepts can follow.
LEMMA RunsAppend ==
    ASSUME NEW s \in Seq(Commands), NEW g, NEW h, NEW c \in Commands,
           RunsTo(g, s, h), Accepts(h, c), Apply(h, c) \in Graphs
    PROVE  RunsTo(g, Append(s, c), Apply(h, c))
<1>1. PICK t : Trail(g, s, h, t)
  BY DEF RunsTo
<1>2. PICK n \in Nat : n = Len(s)
  OBVIOUS
<1>3. /\ t \in [0 .. n -> Graphs] /\ t[0] = g /\ t[n] = h
      /\ \A k \in 1 .. n : Accepts(t[k - 1], s[k]) /\ t[k] = Apply(t[k - 1], s[k])
  BY <1>1, <1>2 DEF Trail
<1>4. PICK x \in Graphs : x = Apply(h, c)
  OBVIOUS
<1>5. PICK u : u = [k \in 0 .. n + 1 |-> IF k = n + 1 THEN x ELSE t[k]]
  OBVIOUS
<1>6. PICK r \in Seq(Commands) : r = Append(s, c)
  BY AppendProperties
<1>7. /\ Len(r) = n + 1 /\ r[n + 1] = c
      /\ \A k \in 1 .. n : r[k] = s[k]
  BY <1>2, <1>6
<1>8. u \in [0 .. n + 1 -> Graphs] /\ u[0] = g /\ u[n + 1] = x
  BY <1>3, <1>5
<1>9. ASSUME NEW k \in 1 .. n + 1
      PROVE  Accepts(u[k - 1], r[k]) /\ u[k] = Apply(u[k - 1], r[k])
  <2>1. CASE k = n + 1
    <3>1. u[k - 1] = h /\ u[k] = x /\ r[k] = c
      BY <1>3, <1>5, <1>7, <2>1
    <3> QED
      BY <1>4, <3>1
  <2>2. CASE k # n + 1
    <3>1. k \in 1 .. n /\ k - 1 \in 0 .. n
      BY <2>2
    <3>2. u[k - 1] = t[k - 1] /\ u[k] = t[k] /\ r[k] = s[k]
      BY <1>5, <1>7, <3>1
    <3> QED
      BY <1>3, <3>1, <3>2
  <2> QED
    BY <2>1, <2>2
<1>10. Trail(g, r, x, u)
  BY <1>7, <1>8, <1>9 DEF Trail
<1> QED
  BY <1>4, <1>6, <1>10 DEF RunsTo

\* The first command was accepted, and the others from what it made.
LEMMA RunsTail ==
    ASSUME NEW s \in Seq(Commands), NEW g, NEW h, RunsTo(g, s, h), s # <<>>
    PROVE  /\ Accepts(g, Head(s)) /\ Apply(g, Head(s)) \in Graphs
           /\ RunsTo(Apply(g, Head(s)), Tail(s), h)
<1>1. PICK t : Trail(g, s, h, t)
  BY DEF RunsTo
<1>2. PICK n \in Nat : n + 1 = Len(s)
  <2>1. Len(s) \in Nat /\ Len(s) # 0
    OBVIOUS
  <2> QED
    BY <2>1
<1>3. /\ t \in [0 .. n + 1 -> Graphs] /\ t[0] = g /\ t[n + 1] = h
      /\ \A k \in 1 .. n + 1 : Accepts(t[k - 1], s[k]) /\ t[k] = Apply(t[k - 1], s[k])
  BY <1>1, <1>2 DEF Trail
<1>4. PICK c \in Commands : c = Head(s) /\ c = s[1]
  BY <1>2
<1>5. Accepts(g, c) /\ t[1] = Apply(g, c) /\ t[1] \in Graphs
  <2>1. 1 \in 1 .. n + 1 /\ 1 \in 0 .. n + 1 /\ 1 - 1 = 0
    OBVIOUS
  <2>2. Accepts(t[1 - 1], s[1]) /\ t[1] = Apply(t[1 - 1], s[1])
    BY <1>3, <2>1
  <2> QED
    BY <1>3, <1>4, <2>1, <2>2
<1>6. PICK r \in Seq(Commands) : r = Tail(s)
  BY HeadTailProperties
<1>7. Len(r) = n /\ \A k \in 1 .. n : r[k] = s[k + 1]
  BY <1>2, <1>6
<1>8. PICK u : u = [k \in 0 .. n |-> t[k + 1]]
  OBVIOUS
<1>9. u \in [0 .. n -> Graphs] /\ u[0] = t[1] /\ u[n] = h
  BY <1>3, <1>8
<1>10. ASSUME NEW k \in 1 .. n
       PROVE  Accepts(u[k - 1], r[k]) /\ u[k] = Apply(u[k - 1], r[k])
  <2>1. k + 1 \in 1 .. n + 1 /\ k - 1 \in 0 .. n /\ (k + 1) - 1 = k /\ (k - 1) + 1 = k
    OBVIOUS
  <2>2. Accepts(t[(k + 1) - 1], s[k + 1]) /\ t[k + 1] = Apply(t[(k + 1) - 1], s[k + 1])
    BY <1>3, <2>1
  <2>3. u[k - 1] = t[k] /\ u[k] = t[k + 1] /\ r[k] = s[k + 1]
    BY <1>7, <1>8, <2>1
  <2> QED
    BY <2>1, <2>2, <2>3
<1>11. Trail(t[1], r, h, u)
  BY <1>7, <1>9, <1>10 DEF Trail
<1> QED
  BY <1>4, <1>5, <1>6, <1>11 DEF RunsTo

-----------------------------------------------------------------------------

\* Two graphs differ in touched ids only, and a difference of edges touches their ends.
Apart(g, h, ids) ==
    /\ \A n \in NodeIds : g.nodes[n] # h.nodes[n] => n \in ids
    /\ \A e \in EdgeIds : g.edges[e] # h.edges[e] =>
         {e} \cup Ends(g.edges[e]) \cup Ends(h.edges[e]) \subseteq ids

\* Graphs that differ nowhere are the same.
LEMMA NotApart ==
    ASSUME NEW g \in Graphs, NEW h \in Graphs, Apart(g, h, {})
    PROVE  g = h
<1>1. g.nodes = h.nodes
  BY DEF Graphs, Apart
<1>2. g.edges = h.edges
  BY DEF Graphs, Apart
<1> QED
  BY <1>1, <1>2 DEF Graphs

\* What a command of another tab changes is touched.
LEMMA FootprintApart ==
    ASSUME NEW g \in Graphs, NEW h \in Graphs, NEW c, NEW ids, Apart(g, h, ids)
    PROVE  Apart(g, Apply(h, c), ids \cup Footprint(h, c))
<1>1. PICK x : x = Apply(h, c)
  OBVIOUS
<1>2. PICK changed : changed = {e \in EdgeIds : h.edges[e] # x.edges[e]}
  OBVIOUS
<1>3. PICK foot : foot = Footprint(h, c)
  OBVIOUS
<1>4. foot = {n \in NodeIds : h.nodes[n] # x.nodes[n]} \cup changed
             \cup UNION {Ends(h.edges[e]) \cup Ends(x.edges[e]) : e \in changed}
  BY <1>1, <1>2, <1>3 DEF Footprint
<1>5. ASSUME NEW n \in NodeIds, g.nodes[n] # x.nodes[n] PROVE n \in ids \cup foot
  BY <1>4, <1>5 DEF Apart
<1>6. ASSUME NEW e \in EdgeIds, g.edges[e] # x.edges[e]
      PROVE  {e} \cup Ends(g.edges[e]) \cup Ends(x.edges[e]) \subseteq ids \cup foot
  <2>1. CASE e \in changed
    <3>1. {e} \cup Ends(h.edges[e]) \cup Ends(x.edges[e]) \subseteq foot
      BY <1>4, <2>1
    <3>2. g.edges[e] = h.edges[e] \/ Ends(g.edges[e]) \subseteq ids
      BY DEF Apart
    <3> QED
      BY <3>1, <3>2
  <2>2. CASE e \notin changed
    <3>1. h.edges[e] = x.edges[e]
      BY <1>2, <2>2
    <3> QED
      BY <1>6, <3>1 DEF Apart
  <2> QED
    BY <2>1, <2>2
<1>7. Apart(g, x, ids \cup foot)
  BY <1>5, <1>6 DEF Apart
<1> QED
  BY <1>1, <1>3, <1>7

\* A node that is replaced, and the others.
LEMMA SetAt ==
    ASSUME NEW g \in Graphs, NEW n \in NodeIds, NEW x
    PROVE  /\ SetNode(g, n, x).nodes[n] = x
           /\ \A m \in NodeIds \ {n} : SetNode(g, n, x).nodes[m] = g.nodes[m]
BY DEF SetNode, Graphs

\* An edge of another kind has the same ends.
LEMMA KindKeepsEnds ==
    ASSUME NEW edge \in Edges, NEW kind \in EdgeKinds
    PROVE  /\ [edge EXCEPT !.kind = kind] \in Edges
           /\ Ends([edge EXCEPT !.kind = kind]) = Ends(edge)
           /\ Ends(edge) = {edge.source, edge.target}
<1>1. PICK new : new = [edge EXCEPT !.kind = kind]
  OBVIOUS
<1>2. new \in Edges /\ new.source = edge.source /\ new.target = edge.target
  BY <1>1 DEF Edges
<1>3. new # Absent /\ edge # Absent
  BY <1>2, AbsentAssumption
<1> QED
  BY <1>1, <1>2, <1>3 DEF Ends

\* What replacing an element of two graphs, or removing a node from both, leaves apart.
LEMMA ApplyApart ==
    ASSUME NEW g \in Graphs, NEW h \in Graphs, NEW c \in Commands, NEW ids,
           Apart(g, h, ids), Finds(g, c), Finds(h, c)
    PROVE  Apart(Apply(g, c), Apply(h, c), ids)
<1>1. PICK x : x = Apply(g, c)
  OBVIOUS
<1>2. PICK y : y = Apply(h, c)
  OBVIOUS
<1>3. /\ \A n \in NodeIds : g.nodes[n] # h.nodes[n] => n \in ids
      /\ \A e \in EdgeIds : g.edges[e] # h.edges[e] =>
            {e} \cup Ends(g.edges[e]) \cup Ends(h.edges[e]) \subseteq ids
  BY DEF Apart
<1>4. \A p \in Graphs, e \in EdgeIds : HasEdge(p, e) => p.edges[e] \in Edges
  BY Present
<1>5. Ends(Absent) = {}
  BY DEF Ends
<1>a. CASE c.type = "addNode"
  <2>1. c.id \in NodeIds /\ x = SetNode(g, c.id, c.node) /\ y = SetNode(h, c.id, c.node)
        /\ c.node \in Nodes
    BY <1>1, <1>2, <1>a, CommandFields DEF Apply
  <2>2. /\ x.edges = g.edges /\ y.edges = h.edges
        /\ \A n \in NodeIds : /\ x.nodes[n] = IF n = c.id THEN c.node ELSE g.nodes[n]
                              /\ y.nodes[n] = IF n = c.id THEN c.node ELSE h.nodes[n]
    BY <2>1, SetNodeFields
  <2> QED
    BY <1>1, <1>2, <1>3, <2>2 DEF Apart
<1>b. CASE c.type = "updateNode"
  <2>1. /\ c.id \in NodeIds /\ c.role \in Roles /\ HasNode(g, c.id) /\ HasNode(h, c.id)
        /\ x = UpdateNode(g, c) /\ y = UpdateNode(h, c)
    BY <1>1, <1>2, <1>b, CommandFields DEF Apply, Finds
  <2>2. /\ x.edges = g.edges /\ y.edges = h.edges
        /\ \A n \in NodeIds \ {c.id} : x.nodes[n] = g.nodes[n] /\ y.nodes[n] = h.nodes[n]
    BY <2>1, UpdateFields
  <2>3. g.nodes[c.id] = h.nodes[c.id] => x.nodes[c.id] = y.nodes[c.id]
    BY <2>1, SetAt DEF UpdateNode
  <2> QED
    BY <1>1, <1>2, <1>3, <2>2, <2>3 DEF Apart
<1>c. CASE c.type = "moveNode"
  <2>1. /\ c.id \in NodeIds /\ c.place \in Places /\ HasNode(g, c.id) /\ HasNode(h, c.id)
        /\ x = MoveNode(g, c) /\ y = MoveNode(h, c)
    BY <1>1, <1>2, <1>c, CommandFields DEF Apply, Finds
  <2>2. /\ x.edges = g.edges /\ y.edges = h.edges
    BY <2>1, UpdateFields
  <2>3. /\ \A n \in NodeIds \ {c.id} : x.nodes[n] = g.nodes[n] /\ y.nodes[n] = h.nodes[n]
        /\ g.nodes[c.id] = h.nodes[c.id] => x.nodes[c.id] = y.nodes[c.id]
    BY <2>1, SetAt DEF MoveNode
  <2> QED
    BY <1>1, <1>2, <1>3, <2>2, <2>3 DEF Apart
<1>d. CASE c.type = "removeNode"
  <2>1. c.id \in NodeIds /\ x = RemoveNode(g, c) /\ y = RemoveNode(h, c)
    BY <1>1, <1>2, <1>d, CommandFields DEF Apply
  <2>2. /\ \A n \in NodeIds : /\ x.nodes[n] = IF n = c.id THEN Absent ELSE g.nodes[n]
                              /\ y.nodes[n] = IF n = c.id THEN Absent ELSE h.nodes[n]
        /\ \A e \in EdgeIds :
              /\ x.edges[e] = IF Incident(g, e, c.id) THEN Absent ELSE g.edges[e]
              /\ y.edges[e] = IF Incident(h, e, c.id) THEN Absent ELSE h.edges[e]
    BY <2>1, RemoveNodeFields
  <2>3. ASSUME NEW e \in EdgeIds, x.edges[e] # y.edges[e]
        PROVE  {e} \cup Ends(x.edges[e]) \cup Ends(y.edges[e]) \subseteq ids
    <3>1. g.edges[e] # h.edges[e]
      <4>1. SUFFICES ASSUME g.edges[e] = h.edges[e] PROVE FALSE
        OBVIOUS
      <4>2. Incident(g, e, c.id) <=> Incident(h, e, c.id)
        BY <4>1 DEF Incident
      <4> QED
        BY <2>2, <2>3, <4>1, <4>2
    <3>2. /\ Ends(x.edges[e]) \subseteq Ends(g.edges[e])
          /\ Ends(y.edges[e]) \subseteq Ends(h.edges[e])
      BY <1>5, <2>2
    <3> QED
      BY <1>3, <3>1, <3>2
  <2>4. ASSUME NEW n \in NodeIds, x.nodes[n] # y.nodes[n] PROVE n \in ids
    BY <1>3, <2>2, <2>4
  <2> QED
    BY <1>1, <1>2, <2>3, <2>4 DEF Apart
<1>e. CASE c.type = "addEdge"
  <2>1. /\ c.id \in EdgeIds /\ x = SetEdge(g, c.id, c.edge) /\ y = SetEdge(h, c.id, c.edge)
        /\ c.edge \in Edges
    BY <1>1, <1>2, <1>e, CommandFields DEF Apply
  <2>2. /\ x.nodes = g.nodes /\ y.nodes = h.nodes
        /\ \A e \in EdgeIds : /\ x.edges[e] = IF e = c.id THEN c.edge ELSE g.edges[e]
                              /\ y.edges[e] = IF e = c.id THEN c.edge ELSE h.edges[e]
    BY <2>1, SetEdgeFields
  <2> QED
    BY <1>1, <1>2, <1>3, <2>2 DEF Apart
<1>f. CASE c.type = "updateEdge"
  <2>1. /\ c.id \in EdgeIds /\ c.kind \in EdgeKinds /\ HasEdge(g, c.id) /\ HasEdge(h, c.id)
        /\ x = UpdateEdge(g, c) /\ y = UpdateEdge(h, c)
    BY <1>1, <1>2, <1>f, CommandFields DEF Apply, Finds
  <2>2. /\ x.nodes = g.nodes /\ y.nodes = h.nodes
        /\ \A e \in EdgeIds :
              /\ x.edges[e] = IF e = c.id THEN [g.edges[e] EXCEPT !.kind = c.kind]
                                          ELSE g.edges[e]
              /\ y.edges[e] = IF e = c.id THEN [h.edges[e] EXCEPT !.kind = c.kind]
                                          ELSE h.edges[e]
    BY <2>1, UpdateFields
  <2>3. g.edges[c.id] \in Edges /\ h.edges[c.id] \in Edges
    BY <1>4, <2>1
  <2>4. /\ Ends([g.edges[c.id] EXCEPT !.kind = c.kind]) = Ends(g.edges[c.id])
        /\ Ends([h.edges[c.id] EXCEPT !.kind = c.kind]) = Ends(h.edges[c.id])
    BY <2>1, <2>3, KindKeepsEnds
  <2>5. ASSUME NEW e \in EdgeIds, x.edges[e] # y.edges[e]
        PROVE  {e} \cup Ends(x.edges[e]) \cup Ends(y.edges[e]) \subseteq ids
    <3>1. g.edges[e] # h.edges[e]
      <4>1. SUFFICES ASSUME g.edges[e] = h.edges[e] PROVE FALSE
        OBVIOUS
      <4>2. PICK edge : edge = g.edges[e]
        OBVIOUS
      <4>3. x.edges[e] = IF e = c.id THEN [edge EXCEPT !.kind = c.kind] ELSE edge
        BY <2>2, <4>2
      <4>4. y.edges[e] = IF e = c.id THEN [edge EXCEPT !.kind = c.kind] ELSE edge
        BY <2>2, <4>1, <4>2
      <4> QED
        BY <2>5, <4>3, <4>4
    <3>2. Ends(x.edges[e]) = Ends(g.edges[e]) /\ Ends(y.edges[e]) = Ends(h.edges[e])
      BY <2>2, <2>4
    <3> QED
      BY <1>3, <3>1, <3>2
  <2> QED
    BY <1>1, <1>2, <1>3, <2>2, <2>5 DEF Apart
<1>g. CASE c.type = "removeEdge"
  <2>1. c.id \in EdgeIds /\ x = SetEdge(g, c.id, Absent) /\ y = SetEdge(h, c.id, Absent)
    BY <1>1, <1>2, <1>g, CommandFields DEF Apply
  <2>2. /\ x.nodes = g.nodes /\ y.nodes = h.nodes
        /\ \A e \in EdgeIds : /\ x.edges[e] = IF e = c.id THEN Absent ELSE g.edges[e]
                              /\ y.edges[e] = IF e = c.id THEN Absent ELSE h.edges[e]
    BY <2>1, SetEdgeFields
  <2> QED
    BY <1>1, <1>2, <1>3, <2>2 DEF Apart
<1> QED
  BY <1>a, <1>b, <1>c, <1>d, <1>e, <1>f, <1>g, CommandFields

\* An edge whose ends were not touched is as valid in one graph as in the other.
LEMMA OneEdgeValid ==
    ASSUME NEW g \in Graphs, NEW h \in Graphs, NEW ids, Apart(g, h, ids), Valid(h),
           NEW e \in EdgeIds, NEW edge \in Edges, edge # Absent,
           Ends(edge) = {edge.source, edge.target}, Ends(edge) \cap ids = {},
           Valid(SetEdge(g, e, edge))
    PROVE  Valid(SetEdge(h, e, edge))
<1>1. PICK x \in Graphs : x = SetEdge(g, e, edge)
  BY SetEdgeFields
<1>2. PICK y \in Graphs : y = SetEdge(h, e, edge)
  BY SetEdgeFields
<1>3. /\ x.nodes = g.nodes /\ y.nodes = h.nodes
      /\ \A f \in EdgeIds : /\ x.edges[f] = IF f = e THEN edge ELSE g.edges[f]
                            /\ y.edges[f] = IF f = e THEN edge ELSE h.edges[f]
  BY <1>1, <1>2, SetEdgeFields
<1>4. edge.source \in NodeIds /\ edge.target \in NodeIds
  BY DEF Edges
<1>5. HasNode(h, edge.source) /\ HasNode(h, edge.target)
  <2>1. HasNode(x, edge.source) /\ HasNode(x, edge.target)
    BY <1>1, <1>3 DEF Valid
  <2>2. edge.source \notin ids /\ edge.target \notin ids
    OBVIOUS
  <2> QED
    BY <1>3, <1>4, <2>1, <2>2 DEF Apart
<1>6. ASSUME NEW f \in EdgeIds, f # e PROVE h.edges[f] # edge
  <2>1. SUFFICES ASSUME h.edges[f] = edge PROVE FALSE
    OBVIOUS
  <2>2. CASE g.edges[f] = edge
    BY <1>1, <1>3, <1>6, <2>2 DEF Valid
  <2>3. CASE g.edges[f] # edge
    <3>1. Ends(edge) \subseteq ids
      BY <2>1, <2>3 DEF Apart
    <3> QED
      BY <3>1
  <2> QED
    BY <2>2, <2>3
<1>7. ASSUME NEW f \in EdgeIds, HasEdge(y, f)
      PROVE  HasNode(y, y.edges[f].source) /\ HasNode(y, y.edges[f].target)
  BY <1>3, <1>5, <1>7 DEF Valid
<1>8. ASSUME NEW f \in EdgeIds, NEW d \in EdgeIds, HasEdge(y, f), y.edges[f] = y.edges[d]
      PROVE  f = d
  BY <1>3, <1>6, <1>8 DEF Valid
<1> QED
  BY <1>2, <1>7, <1>8 DEF Valid

\* A command that was accepted elsewhere is refused only over what was touched.
LEMMA RefusalTouches ==
    ASSUME NEW g \in Graphs, NEW h \in Graphs, NEW c \in Commands, NEW ids,
           Apart(g, h, ids), Accepts(g, c), Valid(h), ~Accepts(h, c)
    PROVE  Mentions(h, c) \cap ids # {}
<1> SUFFICES ASSUME Mentions(h, c) \cap ids = {} PROVE Accepts(h, c)
  OBVIOUS
<1>1. /\ \A n \in NodeIds : n \notin ids => g.nodes[n] = h.nodes[n]
      /\ \A e \in EdgeIds : g.edges[e] # h.edges[e] =>
            e \in ids /\ Ends(g.edges[e]) \subseteq ids /\ Ends(h.edges[e]) \subseteq ids
  BY DEF Apart
<1>2. c.id \notin ids
  BY DEF Mentions
<1>3. Finds(g, c) /\ Valid(Apply(g, c))
  BY DEF Accepts
<1>4. Finds(h, c)
  <2>1. c.id \in NodeIds => (HasNode(g, c.id) <=> HasNode(h, c.id))
    BY <1>1, <1>2
  <2>2. c.id \in EdgeIds => (HasEdge(g, c.id) <=> HasEdge(h, c.id))
    BY <1>1, <1>2
  <2> QED
    BY <1>3, <2>1, <2>2, CommandFields DEF Finds
<1>5. PICK y \in Graphs : y = Apply(h, c)
  BY <1>4, ApplyTyped
<1>6. PICK x \in Graphs : x = Apply(g, c)
  BY <1>3, ApplyTyped
<1>7. \A e \in EdgeIds : HasEdge(h, e) =>
        /\ h.edges[e] \in Edges
        /\ h.edges[e].source \in NodeIds /\ HasNode(h, h.edges[e].source)
        /\ h.edges[e].target \in NodeIds /\ HasNode(h, h.edges[e].target)
  BY Present DEF Valid, Edges
<1>a. CASE c.type = "addNode"
  <2>1. c.id \in NodeIds /\ c.node \in Nodes /\ y = SetNode(h, c.id, c.node)
    BY <1>5, <1>a, CommandFields DEF Apply
  <2>2. y.edges = h.edges /\ \A n \in NodeIds : HasNode(h, n) => HasNode(y, n)
    BY <2>1, SetNodeFields, AbsentAssumption
  <2>3. Valid(y)
    BY <1>7, <2>2, FewerEdgesValid
  <2> QED
    BY <1>4, <1>5, <2>3 DEF Accepts
<1>b. CASE c.type = "updateNode"
  <2>1. c.id \in NodeIds /\ c.role \in Roles /\ HasNode(h, c.id) /\ y = UpdateNode(h, c)
    BY <1>4, <1>5, <1>b, CommandFields DEF Apply, Finds
  <2>2. y.edges = h.edges /\ \A n \in NodeIds : HasNode(y, n) <=> HasNode(h, n)
    BY <2>1, UpdateFields
  <2>3. Valid(y)
    BY <1>7, <2>2, FewerEdgesValid
  <2> QED
    BY <1>4, <1>5, <2>3 DEF Accepts
<1>c. CASE c.type = "moveNode"
  <2>1. c.id \in NodeIds /\ c.place \in Places /\ HasNode(h, c.id) /\ y = MoveNode(h, c)
    BY <1>4, <1>5, <1>c, CommandFields DEF Apply, Finds
  <2>2. y.edges = h.edges /\ \A n \in NodeIds : HasNode(y, n) <=> HasNode(h, n)
    BY <2>1, UpdateFields
  <2>3. Valid(y)
    BY <1>7, <2>2, FewerEdgesValid
  <2> QED
    BY <1>4, <1>5, <2>3 DEF Accepts
<1>d. CASE c.type = "removeNode"
  <2>1. c.id \in NodeIds /\ y = RemoveNode(h, c)
    BY <1>5, <1>d, CommandFields DEF Apply
  <2>2. /\ \A n \in NodeIds : y.nodes[n] = IF n = c.id THEN Absent ELSE h.nodes[n]
        /\ \A e \in EdgeIds :
              y.edges[e] = IF Incident(h, e, c.id) THEN Absent ELSE h.edges[e]
    BY <2>1, RemoveNodeFields
  <2>3. ASSUME NEW e \in EdgeIds, HasEdge(y, e)
        PROVE  /\ y.edges[e] = h.edges[e] /\ HasNode(y, h.edges[e].source)
               /\ HasNode(y, h.edges[e].target)
    <3>1. y.edges[e] = h.edges[e] /\ HasEdge(h, e) /\ ~Incident(h, e, c.id)
      BY <2>2, <2>3
    <3>2. h.edges[e].source # c.id /\ h.edges[e].target # c.id
      BY <3>1 DEF Incident
    <3> QED
      BY <1>7, <2>2, <3>1, <3>2
  <2>4. Valid(y)
    BY <2>3, FewerEdgesValid
  <2> QED
    BY <1>4, <1>5, <2>4 DEF Accepts
<1>e. CASE c.type = "addEdge"
  <2>1. /\ c.id \in EdgeIds /\ c.edge \in Edges /\ c.edge # Absent
        /\ x = SetEdge(g, c.id, c.edge) /\ y = SetEdge(h, c.id, c.edge)
    BY <1>5, <1>6, <1>e, CommandFields, AbsentAssumption DEF Apply
  <2>2. Ends(c.edge) \cap ids = {} /\ Ends(c.edge) = {c.edge.source, c.edge.target}
    BY <1>e, <2>1 DEF Mentions, Ends
  <2> QED
    BY <1>3, <1>4, <1>5, <1>6, <2>1, <2>2, OneEdgeValid DEF Accepts
<1>f. CASE c.type = "updateEdge"
  <2>1. /\ c.id \in EdgeIds /\ c.kind \in EdgeKinds /\ HasEdge(g, c.id) /\ HasEdge(h, c.id)
        /\ x = UpdateEdge(g, c) /\ y = UpdateEdge(h, c)
    BY <1>3, <1>4, <1>5, <1>6, <1>f, CommandFields DEF Apply, Finds
  <2>2. h.edges[c.id] = g.edges[c.id] /\ h.edges[c.id] \in Edges
    BY <1>1, <1>2, <1>7, <2>1
  <2>3. PICK edge : edge = [h.edges[c.id] EXCEPT !.kind = c.kind]
    OBVIOUS
  <2>4. /\ edge \in Edges /\ Ends(edge) = {edge.source, edge.target}
        /\ Ends(edge) = Ends(h.edges[c.id]) /\ edge # Absent
    <3>1. edge \in Edges /\ Ends(edge) = Ends(h.edges[c.id])
      BY <2>1, <2>2, <2>3, KindKeepsEnds
    <3>2. edge # Absent
      BY <3>1, AbsentAssumption
    <3> QED
      BY <3>1, <3>2 DEF Ends
  <2>5. x = SetEdge(g, c.id, edge) /\ y = SetEdge(h, c.id, edge)
    BY <2>1, <2>2, <2>3 DEF UpdateEdge
  <2>6. Ends(edge) \cap ids = {}
    BY <1>f, <2>4 DEF Mentions
  <2> QED
    BY <1>3, <1>4, <1>5, <1>6, <2>1, <2>4, <2>5, <2>6, OneEdgeValid DEF Accepts
<1>g. CASE c.type = "removeEdge"
  <2>1. c.id \in EdgeIds /\ y = SetEdge(h, c.id, Absent)
    BY <1>5, <1>g, CommandFields DEF Apply
  <2>2. /\ y.nodes = h.nodes
        /\ \A e \in EdgeIds : y.edges[e] = IF e = c.id THEN Absent ELSE h.edges[e]
    BY <2>1, SetEdgeFields
  <2>3. Valid(y)
    BY <1>7, <2>2, FewerEdgesValid
  <2> QED
    BY <1>4, <1>5, <2>3 DEF Accepts
<1> QED
  BY <1>a, <1>b, <1>c, <1>d, <1>e, <1>f, <1>g, CommandFields

\* What the queue was accepted on differs from the stored graph in touched ids only.
QueueInv ==
    \E g \in Graphs : Apart(g, server, touched) /\ RunsTo(g, queue, canvas)

\* Nothing is queued when the tab opens.
LEMMA QueueInitially == Init => QueueInv
<1> SUFFICES ASSUME Init PROVE QueueInv
  OBVIOUS
<1>1. server \in Graphs /\ canvas = server /\ queue = <<>>
  BY StartsAssumption DEF Init
<1>2. PICK t : t = [k \in 0 .. 0 |-> server]
  OBVIOUS
<1>3. Len(<<>>) = 0
  OBVIOUS
<1>4. Trail(server, <<>>, server, t)
  BY <1>1, <1>2, <1>3 DEF Trail
<1>5. Apart(server, server, touched)
  BY DEF Apart
<1> QED
  BY <1>1, <1>4, <1>5 DEF QueueInv, RunsTo

\* Every step of the tab or of a peer keeps the queue acceptable from its base.
LEMMA QueueStep == IInv /\ QueueInv /\ [Next]_vars => QueueInv'
<1> SUFFICES ASSUME IInv, QueueInv, [Next]_vars PROVE QueueInv'
  OBVIOUS
<1>1. /\ server \in Graphs /\ canvas \in Graphs /\ queue \in Seq(Commands)
      /\ Valid(server) /\ Conforms(server)
  BY DEF IInv, TypeOK, ServerConforms
<1>2. PICK g \in Graphs : Apart(g, server, touched) /\ RunsTo(g, queue, canvas)
  BY DEF QueueInv
<1>3. ASSUME NEW c \in Commands, Edit(c) PROVE QueueInv'
  <2>1. /\ Accepts(canvas, c) /\ canvas' = Apply(canvas, c) /\ queue' = Append(queue, c)
        /\ server' = server /\ touched' = touched
    BY <1>3 DEF Edit
  <2>2. Apply(canvas, c) \in Graphs
    BY <1>1, <2>1, ApplyTyped DEF Accepts
  <2>3. RunsTo(g, Append(queue, c), Apply(canvas, c))
    BY <1>1, <1>2, <2>1, <2>2, RunsAppend
  <2> QED
    BY <1>2, <2>1, <2>3 DEF QueueInv
<1>4. ASSUME NEW c \in Commands, PeerWrites(c) PROVE QueueInv'
  <2>1. /\ server' = Apply(server, c) /\ touched' = touched \cup Footprint(server, c)
        /\ canvas' = canvas /\ queue' = queue
    BY <1>4 DEF PeerWrites
  <2>2. Apart(g, Apply(server, c), touched \cup Footprint(server, c))
    BY <1>1, <1>2, FootprintApart
  <2> QED
    BY <1>2, <2>1, <2>2 DEF QueueInv
<1>5. ASSUME NEW c \in Commands, DirectWrite(c) PROVE QueueInv'
  <2>1. queue = <<>> /\ queue' = <<>> /\ canvas' = server' /\ server' = Apply(server, c)
    BY <1>5 DEF DirectWrite
  <2>2. PICK h \in Graphs : h = Apply(server, c)
    BY <1>1, <1>5, ApplyTyped DEF DirectWrite, ServerAccepts, Accepts
  <2>3. PICK t : t = [k \in 0 .. 0 |-> h]
    OBVIOUS
  <2>4. Len(<<>>) = 0
    OBVIOUS
  <2>5. Trail(h, <<>>, h, t)
    BY <2>3, <2>4 DEF Trail
  <2>6. Apart(h, h, touched')
    BY DEF Apart
  <2> QED
    BY <2>1, <2>2, <2>5, <2>6 DEF QueueInv, RunsTo
<1>6. CASE Sync
  <2>1. PICK c \in Commands : c = Head(queue)
    BY <1>1, <1>6 DEF Sync
  <2>2. /\ queue # <<>> /\ queue' = Tail(queue) /\ server' = Apply(server, c)
        /\ canvas' = canvas /\ touched' = touched /\ Accepts(server, c)
    BY <1>6, <2>1 DEF Sync, ServerAccepts
  <2>3. /\ Accepts(g, c) /\ Apply(g, c) \in Graphs
        /\ RunsTo(Apply(g, c), Tail(queue), canvas)
    BY <1>1, <1>2, <2>1, <2>2, RunsTail
  <2>4. Apart(Apply(g, c), Apply(server, c), touched)
    BY <1>1, <1>2, <2>2, <2>3, ApplyApart DEF Accepts
  <2> QED
    BY <2>2, <2>3, <2>4 DEF QueueInv
<1>7. CASE UNCHANGED vars
  BY <1>2, <1>7 DEF QueueInv, vars
<1> QED
  BY <1>3, <1>4, <1>5, <1>6, <1>7 DEF Next

\* Until another tab writes, the queue makes the canvas of the stored graph; and the command
\* processor refuses its head only over what another tab touched (applyLocalCommandAndQueue,
\* flushPendingCommands, applyEditorCommandToSnapshot).
THEOREM QueueFaithful == Spec => []QueueIsFaithful
<1>1. IInv /\ QueueInv => QueueIsFaithful
  <2> SUFFICES ASSUME IInv, QueueInv PROVE QueueIsFaithful
    OBVIOUS
  <2>1. /\ server \in Graphs /\ queue \in Seq(Commands) /\ Valid(server)
    BY DEF IInv, TypeOK, ServerConforms
  <2>2. PICK g \in Graphs : Apart(g, server, touched) /\ RunsTo(g, queue, canvas)
    BY DEF QueueInv
  <2>3. CanvasIsReplay
    <3>1. touched = {} => g = server
      BY <2>1, <2>2, NotApart
    <3>2. Replay(g, queue) = canvas
      BY <2>1, <2>2, ReplayRuns
    <3> QED
      BY <3>1, <3>2 DEF CanvasIsReplay
  <2>4. RefusalsNeedConflict
    <3>1. SUFFICES ASSUME queue # <<>>, ~Accepts(server, Head(queue))
                   PROVE  Mentions(server, Head(queue)) \cap touched # {}
      BY DEF RefusalsNeedConflict
    <3>2. PICK c \in Commands : c = Head(queue)
      BY <2>1, <3>1
    <3>3. Accepts(g, c)
      BY <2>1, <2>2, <3>1, <3>2, RunsTail
    <3> QED
      BY <2>1, <2>2, <3>1, <3>2, <3>3, RefusalTouches
  <2> QED
    BY <2>3, <2>4 DEF QueueIsFaithful
<1>2. Spec => []QueueInv
  <2>1. Spec => []IInv
    BY Invariant
  <2> QED
    BY <2>1, QueueInitially, QueueStep, PTL DEF Spec
<1> QED
  BY <1>1, <1>2, Invariant, PTL

-----------------------------------------------------------------------------
(* Sequences, step by step.                                                *)

\* A recursive definition over 0 .. n by a function.
Follows(f, n, first, F) == \A k \in 0 .. n : f[k] = IF k = 0 THEN first ELSE F[<<f[k - 1], k>>]

\* A recursive definition over 0 .. n by a function has a solution.
LEMMA Iterates ==
    ASSUME NEW U, NEW n \in Nat, NEW first \in U, NEW F \in [U \X (1 .. n) -> U]
    PROVE  \E f \in [0 .. n -> U] : Follows(f, n, first, F)
<1> DEFINE Solves(f, m) ==
             /\ f \in [0 .. m -> U]
             /\ \A k \in 0 .. m : f[k] = IF k = 0 THEN first ELSE F[<<f[k - 1], k>>]
<1> DEFINE Bad == {m \in 0 .. n : ~\E f : Solves(f, m)}
<1>1. SUFFICES ASSUME Bad # {} PROVE FALSE
  <2>1. CASE Bad = {}
    <3>1. n \in 0 .. n /\ n \notin Bad
      BY <2>1
    <3>2. PICK f : Solves(f, n)
      BY <3>1
    <3> QED
      BY <3>2 DEF Follows
  <2> QED
    BY <1>1, <2>1
<1>2. PICK m \in Bad : \A k \in Bad : m <= k
  <2>1. Bad \in SUBSET Nat
    OBVIOUS
  <2> HIDE DEF Bad
  <2> QED
    BY <1>1, <2>1, LeastElement
<1>3. m \in 0 .. n /\ ~\E f : Solves(f, m)
  BY <1>2
<1>4. CASE m = 0
  <2>1. PICK f : f = [k \in 0 .. 0 |-> first]
    OBVIOUS
  <2>2. Solves(f, 0)
    BY <2>1
  <2> QED
    BY <1>3, <1>4, <2>2
<1>5. CASE m # 0
  <2>1. m - 1 \in 0 .. n /\ m - 1 \notin Bad /\ m \in 1 .. n
    BY <1>2, <1>3, <1>5
  <2>2. PICK f : Solves(f, m - 1)
    BY <2>1
  <2>3. PICK last : last = F[<<f[m - 1], m>>]
    OBVIOUS
  <2>4. f[m - 1] \in U /\ last \in U
    <3>1. m - 1 \in 0 .. (m - 1)
      BY <2>1
    <3>2. f[m - 1] \in U
      BY <2>2, <3>1
    <3> QED
      BY <2>1, <2>3, <3>2
  <2>5. PICK g : g = [k \in 0 .. m |-> IF k = m THEN last ELSE f[k]]
    OBVIOUS
  <2>6. ASSUME NEW k \in 0 .. m, k # m
        PROVE  k \in 0 .. (m - 1)
    BY <1>3, <2>6
  <2>7. g \in [0 .. m -> U]
    BY <2>2, <2>4, <2>5, <2>6
  <2>8. ASSUME NEW k \in 0 .. m
        PROVE  g[k] = IF k = 0 THEN first ELSE F[<<g[k - 1], k>>]
    <3>1. CASE k = m
      <4>1. m - 1 \in 0 .. m /\ m - 1 # m
        BY <2>1
      <4>2. g[m - 1] = f[m - 1] /\ g[m] = last
        BY <1>3, <2>5, <4>1
      <4> QED
        BY <1>5, <2>3, <3>1, <4>2
    <3>2. CASE k # m
      <4>1. k \in 0 .. (m - 1) /\ g[k] = f[k]
        BY <2>5, <2>6, <2>8, <3>2
      <4>2. f[k] = IF k = 0 THEN first ELSE F[<<f[k - 1], k>>]
        BY <2>2, <4>1
      <4>3. CASE k = 0
        BY <4>1, <4>2, <4>3
      <4>4. CASE k # 0
        <5>1. k - 1 \in 0 .. m /\ k - 1 # m
          BY <1>3, <4>4
        <5>2. g[k - 1] = f[k - 1]
          BY <2>5, <5>1
        <5> QED
          BY <4>1, <4>2, <4>4, <5>2
      <4> QED
        BY <4>3, <4>4
    <3> QED
      BY <3>1, <3>2
  <2>9. Solves(g, m)
    BY <2>7, <2>8
  <2> QED
    BY <1>3, <2>9
<1> QED
  BY <1>4, <1>5

\* From 0 on, one by one.
Hereditary(S, n) == 0 \in S /\ \A k \in 1 .. n : k - 1 \in S => k \in S

\* Induction over 0 .. n, for a set.
LEMMA UpTo ==
    ASSUME NEW n \in Nat, NEW S, Hereditary(S, n)
    PROVE  n \in S
<1> DEFINE Bad == {k \in 0 .. n : k \notin S}
<1>1. SUFFICES ASSUME Bad # {} PROVE FALSE
  BY n \in 0 .. n
<1>2. PICK m \in Bad : \A k \in Bad : m <= k
  <2>1. Bad \in SUBSET Nat
    OBVIOUS
  <2> HIDE DEF Bad
  <2> QED
    BY <1>1, <2>1, LeastElement
<1>3. m \in 0 .. n /\ m \notin S /\ m # 0
  BY <1>2 DEF Hereditary
<1>4. m \in 1 .. n /\ m - 1 \in 0 .. n /\ m - 1 \notin Bad
  BY <1>2, <1>3
<1> QED
  BY <1>3, <1>4 DEF Hereditary

-----------------------------------------------------------------------------
(* Commands.                                                               *)

\* A diagram has entities and relations.
Shaped(d) ==
    /\ d = [entities |-> d.entities, relations |-> d.relations]
    /\ d.relations = [r \in Erd!Rs |-> d.relations[r]]

\* A relation that says something else.
Saying(rel, is) == [rel EXCEPT !.is = is]

\* A function with another value at one place.
Replaced(f, x, v) == [f EXCEPT ![x] = v]

\* What a command does, if it is not refused.
Effect(g, d, c) ==
    \/ /\ g.relations = d.relations
       /\ c.type # "removeEdge"
       /\ \/ g.entities = d.entities
          \/ /\ c.type \in {"updateNode", "addNode"}
             /\ g.entities = Replaced(d.entities, c.id, c.fields)
    \/ /\ c.type = "updateEdge"
       /\ c.id \in Erd!Links(d)
       /\ g.entities = d.entities
       /\ \A r \in Erd!Rs : g.relations[r] = IF r = c.id THEN Saying(d.relations[r], c.is)
                                             ELSE d.relations[r]
    \/ /\ c.type = "addEdge"
       /\ {c.rel.source, c.rel.target} \subseteq Erd!Here(d)
       /\ g.entities = d.entities
       /\ \A r \in Erd!Rs : g.relations[r] = IF r = c.id THEN c.rel ELSE d.relations[r]
    \/ /\ c.type = "removeEdge"
       /\ g.entities = d.entities
       /\ \A r \in Erd!Rs : g.relations[r] = IF r = c.id THEN Absent ELSE d.relations[r]

\* A diagram with another relation at r ...
WithRelation(d, r, rel) == [d EXCEPT !.relations = [@ EXCEPT ![r] = rel]]

\* ... differs from it nowhere else.
LEMMA WithRelationShape ==
    ASSUME NEW d, Shaped(d), NEW r, NEW rel
    PROVE  /\ Shaped(WithRelation(d, r, rel))
           /\ WithRelation(d, r, rel).entities = d.entities
           /\ \A q \in Erd!Rs : WithRelation(d, r, rel).relations[q]
                                 = IF q = r THEN rel ELSE d.relations[q]
<1>1. PICK es : es = d.entities
  OBVIOUS
<1>2. PICK rs : rs = d.relations
  OBVIOUS
<1>3. d = [entities |-> es, relations |-> rs] /\ rs = [q \in Erd!Rs |-> rs[q]]
  BY <1>1, <1>2 DEF Shaped
<1>4. PICK w : w = [rs EXCEPT ![r] = rel]
  OBVIOUS
<1>5. w = [q \in Erd!Rs |-> w[q]] /\ \A q \in Erd!Rs : w[q] = IF q = r THEN rel ELSE rs[q]
  BY <1>3, <1>4
<1>6. WithRelation(d, r, rel) = [entities |-> es, relations |-> w]
  BY <1>3, <1>4 DEF WithRelation
<1> QED
  BY <1>3, <1>5, <1>6 DEF Shaped

\* A command does what Effect says, or is refused.
LEMMA ApplyEffect ==
    ASSUME NEW d, Shaped(d), NEW c,
           c.type \in {"updateNode", "addNode", "updateEdge", "addEdge", "removeEdge"}
    PROVE  Shaped(Erd!Apply(d, c)) /\ Effect(Erd!Apply(d, c), d, c)
<1>1. PICK es : es = d.entities
  OBVIOUS
<1>2. PICK rs : rs = d.relations
  OBVIOUS
<1>3. d = [entities |-> es, relations |-> rs] /\ rs = [r \in Erd!Rs |-> rs[r]]
  BY <1>1, <1>2 DEF Shaped
<1>4. CASE c.type \in {"updateNode", "addNode"}
  <2>1. PICK w : w = Replaced(es, c.id, c.fields)
    OBVIOUS
  <2>2. [d EXCEPT !.entities[c.id] = c.fields] = [entities |-> w, relations |-> rs]
    BY <1>3, <2>1 DEF Replaced
  <2>3. Erd!Apply(d, c) = d \/ Erd!Apply(d, c) = [entities |-> w, relations |-> rs]
    BY <1>4, <2>2 DEF Erd!Apply
  <2>4. CASE Erd!Apply(d, c) = d
    BY <1>4, <2>4 DEF Effect
  <2>5. PICK g : g = [entities |-> w, relations |-> rs]
    OBVIOUS
  <2>6. g.relations = d.relations /\ g.entities = Replaced(d.entities, c.id, c.fields)
    BY <1>1, <1>2, <2>1, <2>5
  <2>7. Shaped(g) /\ Effect(g, d, c)
    BY <1>3, <1>4, <2>5, <2>6 DEF Shaped, Effect
  <2> QED
    BY <2>3, <2>4, <2>5, <2>7
<1>6. CASE c.type = "updateEdge"
  <2>1. PICK v : v = Saying(d.relations[c.id], c.is)
    OBVIOUS
  <2>2. [d EXCEPT !.relations[c.id].is = c.is] = WithRelation(d, c.id, v)
    BY <2>1 DEF Saying, WithRelation
  <2>3. Erd!Apply(d, c) = d \/ (c.id \in Erd!Links(d) /\
        Erd!Apply(d, c) = WithRelation(d, c.id, v))
    BY <1>6, <2>2 DEF Erd!Apply
  <2>4. CASE Erd!Apply(d, c) = d
    BY <1>6, <2>4 DEF Effect
  <2>5. CASE c.id \in Erd!Links(d) /\ Erd!Apply(d, c) = WithRelation(d, c.id, v)
    <3>1. PICK g : g = WithRelation(d, c.id, v)
      OBVIOUS
    <3>2. /\ Shaped(g) /\ g.entities = d.entities
          /\ \A r \in Erd!Rs : g.relations[r] = IF r = c.id THEN v ELSE d.relations[r]
      BY <3>1, WithRelationShape
    <3> QED
      BY <1>6, <2>1, <2>5, <3>1, <3>2 DEF Effect
  <2> QED
    BY <2>3, <2>4, <2>5
<1>7. CASE c.type = "addEdge"
  <2>1. PICK g : g = WithRelation(d, c.id, c.rel)
    OBVIOUS
  <2>2. /\ Shaped(g) /\ g.entities = d.entities
        /\ \A r \in Erd!Rs : g.relations[r] = IF r = c.id THEN c.rel ELSE d.relations[r]
    BY <2>1, WithRelationShape
  <2>3. \/ Erd!Apply(d, c) = d
        \/ Erd!Apply(d, c) = g /\ {c.rel.source, c.rel.target} \subseteq Erd!Here(d)
    BY <1>7, <2>1 DEF Erd!Apply, WithRelation, Erd!Fits
  <2> QED
    BY <1>7, <2>2, <2>3 DEF Effect
<1>8. CASE c.type = "removeEdge"
  <2>1. PICK g : g = WithRelation(d, c.id, Absent)
    OBVIOUS
  <2>2. /\ Shaped(g) /\ g.entities = d.entities
        /\ \A r \in Erd!Rs : g.relations[r] = IF r = c.id THEN Absent ELSE d.relations[r]
    BY <2>1, WithRelationShape
  <2>3. Erd!Apply(d, c) = g
    BY <1>8, <2>1 DEF Erd!Apply, WithRelation
  <2> QED
    BY <1>8, <2>2, <2>3 DEF Effect
<1> QED
  BY <1>4, <1>6, <1>7, <1>8

-----------------------------------------------------------------------------
(* The sides of foreign keys.                                              *)

\* What a relation is: nothing yet, or a foreign key.
ShapedIs(is) ==
    \/ is = Erd!Conceptual
    \/ /\ is = [mode |-> "fk", side |-> is.side, dependent |-> is.dependent,
                field |-> is.field, references |-> is.references, unique |-> is.unique]
       /\ is.side \in Erd!Sides
\* A relation has two ends, a cardinality and what it is.
ShapedRelation(rel) ==
    /\ rel = [source |-> rel.source, target |-> rel.target, card |-> rel.card, is |-> rel.is]
    /\ ShapedIs(rel.is)

\* What a relation is changes alone.
LEMMA SayingShaped ==
    ASSUME NEW rel, ShapedRelation(rel), NEW is, ShapedIs(is)
    PROVE  /\ ShapedRelation(Saying(rel, is))
           /\ Saying(rel, is).source = rel.source
           /\ Saying(rel, is).target = rel.target
           /\ Saying(rel, is).card = rel.card
           /\ Saying(rel, is).is = is
<1>1. PICK left, first, k, i : rel = [source |-> left, target |-> first, card |-> k, is |-> i]
  BY DEF ShapedRelation
<1>2. Saying(rel, is) = [source |-> left, target |-> first, card |-> k, is |-> is]
  BY <1>1 DEF Saying
<1> QED
  BY <1>1, <1>2 DEF ShapedRelation

\* A relation as it should be, under its id.
Proper(r, rel) ==
    /\ ShapedRelation(rel)
    /\ Erd!Named(rel)
    /\ rel.card = "N:N" => r \in DOMAIN JoinOf

\* A diagram whose relations are so.
AllProper(d) == Shaped(d) /\ \A r \in Erd!Links(d) : Proper(r, d.relations[r])

\* The relations of d that are in g have the ends they have in d.
Alike(g, d) ==
    \A r \in Erd!Links(g) \cap Erd!Links(d) :
      /\ g.relations[r].source = d.relations[r].source
      /\ g.relations[r].target = d.relations[r].target

\* Computed on d, a command says what is true of the relation it is about.
TrueOf(d, c) ==
    \/ c.type \in {"updateNode", "addNode", "removeEdge"}
    \/ /\ c.type = "updateEdge"
       /\ c.id \in Erd!Links(d)
       /\ ShapedIs(c.is)
       /\ Erd!Named(Saying(d.relations[c.id], c.is))
    \/ /\ c.type = "addEdge"
       /\ c.id \in Erd!Rs \ Erd!Links(d)
       /\ Proper(c.id, c.rel)

\* The sides depend on the ends and on what the relation is.
LEMMA NamedByEnds ==
    ASSUME NEW p, NEW q, p.source = q.source, p.target = q.target, p.is = q.is, Erd!Named(p)
    PROVE  Erd!Named(q)
  BY DEF Erd!Named, Erd!IsFk, Erd!EntityAt

\* Commands computed on d keep the relations as they should be.
LEMMA ApplyProper ==
    ASSUME NEW d, AllProper(d), NEW g, AllProper(g), Alike(g, d), NEW c, TrueOf(d, c)
    PROVE  AllProper(Erd!Apply(g, c)) /\ Alike(Erd!Apply(g, c), d)
<1>1. PICK h : h = Erd!Apply(g, c)
  OBVIOUS
<1>2. Shaped(h) /\ Effect(h, g, c)
  BY <1>1, ApplyEffect DEF AllProper, TrueOf
<1>3. \A r \in Erd!Links(g) : r \in Erd!Rs /\ Proper(r, g.relations[r])
  BY DEF AllProper, Erd!Links
<1>4. CASE h.relations = g.relations
  <2>1. Erd!Links(h) = Erd!Links(g)
    BY <1>4 DEF Erd!Links
  <2> QED
    BY <1>1, <1>2, <1>3, <1>4, <2>1 DEF AllProper, Alike
<1>5. CASE /\ c.type = "updateEdge"
           /\ c.id \in Erd!Links(g)
           /\ \A r \in Erd!Rs : h.relations[r] = IF r = c.id THEN Saying(g.relations[r], c.is)
                                                 ELSE g.relations[r]
  <2>1. c.id \in Erd!Links(d) /\ ShapedIs(c.is) /\ Erd!Named(Saying(d.relations[c.id], c.is))
    BY <1>5 DEF TrueOf
  <2>2. PICK was : was = g.relations[c.id]
    OBVIOUS
  <2>3. PICK now : now = Saying(was, c.is)
    OBVIOUS
  <2>4. PICK for : for = Saying(d.relations[c.id], c.is)
    OBVIOUS
  <2>5. Proper(c.id, was) /\ Proper(c.id, d.relations[c.id])
    BY <1>3, <1>5, <2>1, <2>2 DEF AllProper
  <2>6. /\ ShapedRelation(now) /\ now.source = was.source /\ now.target = was.target
        /\ now.card = was.card /\ now.is = c.is
    BY <2>1, <2>3, <2>5, SayingShaped DEF Proper
  <2>7. /\ for.source = d.relations[c.id].source /\ for.target = d.relations[c.id].target
        /\ for.is = c.is /\ Erd!Named(for)
    BY <2>1, <2>4, <2>5, SayingShaped DEF Proper
  <2>8. was.source = d.relations[c.id].source /\ was.target = d.relations[c.id].target
    BY <1>5, <2>1, <2>2 DEF Alike
  <2>9. Erd!Named(now)
    BY <2>6, <2>7, <2>8, NamedByEnds
  <2>10. Proper(c.id, now)
    BY <2>5, <2>6, <2>9 DEF Proper
  <2>11. \A r \in Erd!Rs : h.relations[r] = IF r = c.id THEN now ELSE g.relations[r]
    BY <1>5, <2>2, <2>3
  <2>12. ASSUME NEW r \in Erd!Links(h)
         PROVE  /\ Proper(r, h.relations[r])
                /\ r \in Erd!Links(g)
                /\ h.relations[r].source = g.relations[r].source
                /\ h.relations[r].target = g.relations[r].target
    <3>1. r \in Erd!Rs /\ h.relations[r] # Absent
      BY DEF Erd!Links
    <3>2. CASE r = c.id
      BY <1>5, <2>2, <2>6, <2>10, <2>11, <3>1, <3>2
    <3>3. CASE r # c.id
      <4>1. h.relations[r] = g.relations[r] /\ r \in Erd!Links(g)
        BY <2>11, <3>1, <3>3 DEF Erd!Links
      <4> QED
        BY <1>3, <4>1
    <3> QED
      BY <3>2, <3>3
  <2> QED
    BY <1>1, <1>2, <2>12 DEF AllProper, Alike
<1>6. CASE /\ c.type = "addEdge"
           /\ \A r \in Erd!Rs : h.relations[r] = IF r = c.id THEN c.rel ELSE g.relations[r]
  <2>1. c.id \in Erd!Rs \ Erd!Links(d) /\ Proper(c.id, c.rel)
    BY <1>6 DEF TrueOf
  <2>2. ASSUME NEW r \in Erd!Links(h)
        PROVE  /\ Proper(r, h.relations[r])
               /\ r # c.id => r \in Erd!Links(g) /\ h.relations[r] = g.relations[r]
    <3>1. r \in Erd!Rs /\ h.relations[r] # Absent
      BY DEF Erd!Links
    <3>2. CASE r = c.id
      BY <1>6, <2>1, <3>1, <3>2
    <3>3. CASE r # c.id
      <4>1. h.relations[r] = g.relations[r] /\ r \in Erd!Links(g)
        BY <1>6, <3>1, <3>3 DEF Erd!Links
      <4> QED
        BY <1>3, <4>1
    <3> QED
      BY <3>2, <3>3
  <2> QED
    BY <1>1, <1>2, <2>1, <2>2 DEF AllProper, Alike
<1>7. CASE \A r \in Erd!Rs : h.relations[r] = IF r = c.id THEN Absent ELSE g.relations[r]
  <2>1. ASSUME NEW r \in Erd!Links(h)
        PROVE  r \in Erd!Links(g) /\ h.relations[r] = g.relations[r]
    BY <1>7 DEF Erd!Links
  <2> QED
    BY <1>1, <1>2, <1>3, <2>1 DEF AllProper, Alike
<1> QED
  BY <1>2, <1>4, <1>5, <1>6, <1>7 DEF Effect

\* A command adds no relation but the one it is about; one it takes away is gone.
LEMMA ApplyLinks ==
    ASSUME NEW d, Shaped(d), NEW c,
           c.type \in {"updateNode", "addNode", "updateEdge", "addEdge", "removeEdge"}
    PROVE  \A r \in Erd!Links(Erd!Apply(d, c)) :
             /\ r \in Erd!Links(d) \/ (c.type = "addEdge" /\ c.id = r)
             /\ ~(c.type = "removeEdge" /\ c.id = r)
<1>1. PICK h : h = Erd!Apply(d, c)
  OBVIOUS
<1>2. Effect(h, d, c)
  BY <1>1, ApplyEffect
<1>3. ASSUME NEW r \in Erd!Links(h)
      PROVE  /\ r \in Erd!Links(d) \/ (c.type = "addEdge" /\ c.id = r)
             /\ ~(c.type = "removeEdge" /\ c.id = r)
  <2>1. r \in Erd!Rs /\ h.relations[r] # Absent
    BY DEF Erd!Links
  <2>2. CASE h.relations[r] = d.relations[r] /\ ~(c.type = "removeEdge" /\ c.id = r)
    BY <2>1, <2>2 DEF Erd!Links
  <2> QED
    BY <1>2, <2>1, <2>2 DEF Effect
<1> QED
  BY <1>1, <1>3

-----------------------------------------------------------------------------
(* Sequences of commands.                                                  *)

\* The types of commands.
Types == {"updateNode", "addNode", "updateEdge", "addEdge", "removeEdge"}

\* The diagrams on the way from d by the first n commands of s.
Way(f, d, s, n) ==
    f = [k \in 0 .. n |-> IF k = 0 THEN d ELSE Erd!Apply(f[k - 1], s[k])]

\* There is such a way.
LEMMA WayExists ==
    ASSUME NEW n \in Nat, NEW d, NEW s
    PROVE  \E f : Way(f, d, s, n)
<1> DEFINE S == {m \in 0 .. n : \E f : Way(f, d, s, m)}
<1>1. 0 \in S
  <2>1. PICK f : f = [k \in 0 .. 0 |-> d]
    OBVIOUS
  <2>2. f = [k \in 0 .. 0 |-> IF k = 0 THEN d ELSE Erd!Apply(f[k - 1], s[k])]
    BY <2>1
  <2>3. Way(f, d, s, 0)
    BY <2>2 DEF Way
  <2> QED
    BY <2>3
<1>2. ASSUME NEW m \in 1 .. n, m - 1 \in S
      PROVE  m \in S
  <2>1. PICK f : Way(f, d, s, m - 1)
    BY <1>2
  <2>2. PICK last : last = Erd!Apply(f[m - 1], s[m])
    OBVIOUS
  <2>3. PICK g : g = [k \in 0 .. m |-> IF k = m THEN last ELSE f[k]]
    OBVIOUS
  <2>4. \A k \in 0 .. (m - 1) : f[k] = IF k = 0 THEN d ELSE Erd!Apply(f[k - 1], s[k])
    BY <2>1 DEF Way
  <2>5. ASSUME NEW k \in 0 .. m
        PROVE  g[k] = IF k = 0 THEN d ELSE Erd!Apply(g[k - 1], s[k])
    <3>1. CASE k = m
      <4>1. m - 1 \in 0 .. m /\ m - 1 # m /\ m # 0
        OBVIOUS
      <4>2. g[m - 1] = f[m - 1] /\ g[m] = last
        BY <2>3, <4>1
      <4> QED
        BY <2>2, <3>1, <4>1, <4>2
    <3>2. CASE k # m
      <4>1. k \in 0 .. (m - 1) /\ g[k] = f[k]
        BY <2>3, <3>2
      <4>2. CASE k = 0
        BY <2>4, <4>1, <4>2
      <4>3. CASE k # 0
        <5>1. k - 1 \in 0 .. m /\ k - 1 # m
          BY <4>3
        <5>2. g[k - 1] = f[k - 1]
          BY <2>3, <5>1
        <5>3. f[k] = Erd!Apply(f[k - 1], s[k])
          BY <2>4, <4>1, <4>3
        <5> QED
          BY <4>1, <4>3, <5>2, <5>3
      <4> QED
        BY <4>2, <4>3
    <3> QED
      BY <3>1, <3>2
  <2>6. g = [k \in 0 .. m |-> g[k]]
    BY <2>3
  <2>7. Way(g, d, s, m)
    BY <2>5, <2>6 DEF Way
  <2> QED
    BY <2>7
<1>3. n \in S
  <2> HIDE DEF S
  <2>1. Hereditary(S, n)
    BY <1>1, <1>2 DEF Hereditary
  <2> QED
    BY <2>1, UpTo
<1> QED
  BY <1>3

\* The same, one diagram after the other ...
Passes(f, d, s, n) == f[0] = d /\ \A k \in 1 .. n : f[k] = Erd!Apply(f[k - 1], s[k])

\* ... on the way of ApplyAll.
LEMMA ApplyAllWay ==
    ASSUME NEW d, NEW n \in Nat, NEW s, Len(s) = n
    PROVE  \E f : Passes(f, d, s, n) /\ Erd!ApplyAll(d, s) = f[n]
<1>1. PICK f : f = CHOOSE any : Way(any, d, s, n)
  OBVIOUS
<1>2. Way(f, d, s, n)
  BY <1>1, WayExists
<1>3. Erd!ApplyAll(d, s) = f[n]
  BY <1>1 DEF Erd!ApplyAll, Way
<1>4. \A k \in 0 .. n : f[k] = IF k = 0 THEN d ELSE Erd!Apply(f[k - 1], s[k])
  BY <1>2 DEF Way
<1>5. Passes(f, d, s, n)
  BY <1>4 DEF Passes
<1> QED
  BY <1>3, <1>5

\* Commands computed on d keep the relations as they should be; those that are there in
\* the end were there, or were added, and were not taken away for good.
LEMMA ApplyAllProper ==
    ASSUME NEW d, AllProper(d), NEW g, AllProper(g), Alike(g, d), NEW n \in Nat, NEW s,
           Len(s) = n, \A k \in 1 .. n : TrueOf(d, s[k])
    PROVE  /\ AllProper(Erd!ApplyAll(g, s))
           /\ \A r \in Erd!Links(Erd!ApplyAll(g, s)) :
                \/ \E k \in 1 .. n : s[k].type = "addEdge" /\ s[k].id = r
                \/ /\ r \in Erd!Links(g)
                   /\ \A k \in 1 .. n : ~(s[k].type = "removeEdge" /\ s[k].id = r)
<1>1. PICK f : Passes(f, g, s, n) /\ Erd!ApplyAll(g, s) = f[n]
  BY ApplyAllWay
<1> DEFINE Adds(r, m) == \E k \in 1 .. m : s[k].type = "addEdge" /\ s[k].id = r
           Drops(r, m) == \E k \in 1 .. m : s[k].type = "removeEdge" /\ s[k].id = r
           Ok(m) == /\ AllProper(f[m]) /\ Alike(f[m], d)
                    /\ \A r \in Erd!Links(f[m]) :
                         Adds(r, m) \/ (r \in Erd!Links(g) /\ ~Drops(r, m))
           S == {m \in 0 .. n : Ok(m)}
<1>2. 0 \in S
  BY <1>1 DEF Passes
<1>3. ASSUME NEW m \in 1 .. n, m - 1 \in S
      PROVE  m \in S
  <2>1. Ok(m - 1)
    BY <1>3
  <2>2. PICK h : h = f[m - 1]
    OBVIOUS
  <2>3. PICK c : c = s[m]
    OBVIOUS
  <2>4. TrueOf(d, c) /\ c.type \in Types /\ AllProper(h) /\ Alike(h, d) /\ Shaped(h)
    BY <2>1, <2>2, <2>3 DEF TrueOf, Types, AllProper
  <2>5. f[m] = Erd!Apply(h, c)
    BY <1>1, <2>2, <2>3 DEF Passes
  <2>6. AllProper(f[m]) /\ Alike(f[m], d)
    BY <2>4, <2>5, ApplyProper
  <2>7. ASSUME NEW r \in Erd!Links(f[m])
        PROVE  Adds(r, m) \/ (r \in Erd!Links(g) /\ ~Drops(r, m))
    <3>1. /\ r \in Erd!Links(h) \/ (c.type = "addEdge" /\ c.id = r)
          /\ ~(c.type = "removeEdge" /\ c.id = r)
      BY <2>4, <2>5, ApplyLinks DEF Types
    <3>2. CASE c.type = "addEdge" /\ c.id = r
      BY <2>3, <3>2
    <3>3. CASE r \in Erd!Links(h)
      <4>1. Adds(r, m - 1) \/ (r \in Erd!Links(g) /\ ~Drops(r, m - 1))
        BY <2>1, <2>2, <3>3
      <4>2. Adds(r, m - 1) => Adds(r, m)
        OBVIOUS
      <4>3. ~Drops(r, m - 1) => ~Drops(r, m)
        BY <2>3, <3>1
      <4> QED
        BY <4>1, <4>2, <4>3
    <3> QED
      BY <3>1, <3>2, <3>3
  <2> QED
    BY <2>6, <2>7
<1>4. n \in S
  <2> HIDE DEF S
  <2>1. Hereditary(S, n)
    BY <1>2, <1>3 DEF Hereditary
  <2> QED
    BY <2>1, UpTo
<1> QED
  BY <1>1, <1>4

-----------------------------------------------------------------------------
(* Conversions.                                                            *)

\* The halves of a conversion are there only once its relation is gone for good.
Ready(d, used) ==
    /\ AllProper(d)
    /\ Erd!Links(d) \cap Drawn \subseteq used
    /\ \A r \in DOMAIN JoinOf :
         Erd!Halves(r) \cap Erd!Links(d) # {} =>
           /\ r \notin Erd!Links(d)
           /\ r \in Drawn => r \in used

\* Commands that were computed on d: what they say is true of it, and where they add the
\* half of a conversion they take its relation away.
Computed(d, s, n) ==
    /\ Len(s) = n
    /\ \A k \in 1 .. n : TrueOf(d, s[k])
    /\ \A k \in 1 .. n : s[k].type = "addEdge" =>
         \E r \in Erd!Links(d) \cap DOMAIN JoinOf :
           /\ s[k].id \in Erd!Halves(r)
           /\ \E m \in 1 .. n : s[m].type = "removeEdge" /\ s[m].id = r

\* What a conversion adds is new.
LEMMA HalvesAreNew ==
    ASSUME NEW r \in DOMAIN JoinOf
    PROVE  /\ Erd!Halves(r) = {HalvesOf[r][1], HalvesOf[r][2]}
           /\ Erd!Halves(r) \subseteq Erd!Rs
           /\ Erd!Halves(r) \cap (Drawn \cup DOMAIN JoinOf) = {}
           /\ \A q \in DOMAIN JoinOf \ {r} : Erd!Halves(q) \cap Erd!Halves(r) = {}
<1>1. HalvesOf[r] \in Erd!Rs \X Erd!Rs
  BY ErdAssumption DEF Erd!ConstantsAssumption
<1>2. PICK left \in Erd!Rs, first \in Erd!Rs : HalvesOf[r] = <<left, first>>
  BY <1>1
<1>3. Erd!Range(<<left, first>>) = {left, first}
  BY DEF Erd!Range
<1>4. Erd!Halves(r) = {left, first} /\ HalvesOf[r][1] = left /\ HalvesOf[r][2] = first
  BY <1>2, <1>3 DEF Erd!Halves
<1> QED
  BY <1>4, ErdAssumption DEF Erd!ConstantsAssumption

\* It stays so when relations go.
LEMMA ReadyWithFewer ==
    ASSUME NEW d, NEW used, Ready(d, used),
          NEW g, AllProper(g), Erd!Links(g) \subseteq Erd!Links(d)
    PROVE  Ready(g, used)
  BY DEF Ready

\* And after commands that were computed on d, even if g has fewer relations by now.
LEMMA ReadyAfter ==
    ASSUME NEW d, NEW used, Ready(d, used),
           NEW g, AllProper(g), Alike(g, d), Erd!Links(g) \subseteq Erd!Links(d),
           NEW n \in Nat, NEW s, Computed(d, s, n)
    PROVE  Ready(Erd!ApplyAll(g, s), used)
<1>1. PICK h : h = Erd!ApplyAll(g, s)
  OBVIOUS
<1>2. /\ AllProper(h)
      /\ \A r \in Erd!Links(h) :
           \/ \E k \in 1 .. n : s[k].type = "addEdge" /\ s[k].id = r
           \/ /\ r \in Erd!Links(g)
              /\ \A k \in 1 .. n : ~(s[k].type = "removeEdge" /\ s[k].id = r)
  BY <1>1, ApplyAllProper DEF Ready, Computed
<1>3. ASSUME NEW r \in Erd!Links(h), r \notin Erd!Links(d)
      PROVE  \E q \in Erd!Links(d) \cap DOMAIN JoinOf :
               /\ r \in Erd!Halves(q)
               /\ \E m \in 1 .. n : s[m].type = "removeEdge" /\ s[m].id = q
  <2>1. PICK k \in 1 .. n : s[k].type = "addEdge" /\ s[k].id = r
    BY <1>2, <1>3
  <2> QED
    BY <2>1 DEF Computed
<1>4. ASSUME NEW r \in Erd!Links(h) \cap (Drawn \cup DOMAIN JoinOf)
      PROVE  /\ r \in Erd!Links(d)
             /\ \A k \in 1 .. n : ~(s[k].type = "removeEdge" /\ s[k].id = r)
  <2>1. ~\E k \in 1 .. n : s[k].type = "addEdge" /\ s[k].id = r
    BY HalvesAreNew DEF Computed
  <2> QED
    BY <1>2, <2>1
<1>5. Erd!Links(h) \cap Drawn \subseteq used
  BY <1>4 DEF Ready
<1>6. ASSUME NEW r \in DOMAIN JoinOf, NEW x \in Erd!Halves(r) \cap Erd!Links(h)
      PROVE  r \notin Erd!Links(h) /\ (r \in Drawn => r \in used)
  <2>1. CASE x \in Erd!Links(d)
    BY <1>4, <2>1 DEF Ready
  <2>2. CASE x \notin Erd!Links(d)
    <3>1. PICK q \in Erd!Links(d) \cap DOMAIN JoinOf :
            /\ x \in Erd!Halves(q)
            /\ \E m \in 1 .. n : s[m].type = "removeEdge" /\ s[m].id = q
      BY <1>3, <2>2
    <3>2. q = r
      BY <3>1, HalvesAreNew
    <3> QED
      BY <1>4, <3>1, <3>2 DEF Ready
  <2> QED
    BY <2>1, <2>2
<1>7. Ready(h, used)
  BY <1>2, <1>5, <1>6 DEF Ready
<1> QED
  BY <1>1, <1>7

\* One command that adds no relation.
LEMMA ReadyAfterOne ==
    ASSUME NEW d, NEW used, Ready(d, used), NEW c, TrueOf(d, c), c.type # "addEdge"
    PROVE  Ready(Erd!Apply(d, c), used)
<1>1. AllProper(d) /\ Shaped(d) /\ Alike(d, d) /\ c.type \in Types
  BY DEF Ready, AllProper, Alike, TrueOf, Types
<1>2. AllProper(Erd!Apply(d, c))
  BY <1>1, ApplyProper
<1>3. Erd!Links(Erd!Apply(d, c)) \subseteq Erd!Links(d)
  BY <1>1, ApplyLinks DEF Types
<1> QED
  BY <1>2, <1>3, ReadyWithFewer

-----------------------------------------------------------------------------
(* Repairs.                                                                *)

\* A new foreign key is on one of the two sides ...
LEMMA AsFkNamed ==
    ASSUME NEW rel, NEW side \in Erd!Sides, NEW id, NEW unique
    PROVE  ShapedIs(Erd!AsFk(rel, side, id, unique))
  BY DEF Erd!AsFk, ShapedIs

\* ... and its sides name its entities.
LEMMA SayingFkNamed ==
    ASSUME NEW rel, ShapedRelation(rel), NEW side \in Erd!Sides, NEW id, NEW unique
    PROVE  Erd!Named(Saying(rel, Erd!AsFk(rel, side, id, unique)))
<1>1. PICK is : is = Erd!AsFk(rel, side, id, unique)
  OBVIOUS
<1>2. ShapedIs(is) /\ is.side = side /\ is.dependent = Erd!EntityAt(rel, side)
      /\ is.references = Erd!EntityAt(rel, Erd!Other(side))
  BY <1>1, AsFkNamed DEF Erd!AsFk
<1>3. PICK now : now = Saying(rel, is)
  OBVIOUS
<1>4. now.source = rel.source /\ now.target = rel.target /\ now.is = is
  BY <1>2, <1>3, SayingShaped
<1>5. Erd!Named(now)
  BY <1>2, <1>4 DEF Erd!Named, Erd!EntityAt
<1> QED
  BY <1>1, <1>3, <1>5

\* A sequence of commands that was computed on d.
Fix(d, s) == s \in Seq(Erd!Range(s)) /\ \E n \in Nat : Computed(d, s, n)

\* No command.
LEMMA FixNone ==
    ASSUME NEW d
    PROVE  Fix(d, <<>>)
<1>1. PICK s : s = <<>>
  OBVIOUS
<1>2. s \in Seq(Erd!Range(s)) /\ Len(s) = 0
  BY <1>1
<1>3. Computed(d, s, 0)
  BY <1>2 DEF Computed
<1> QED
  BY <1>1, <1>2, <1>3 DEF Fix

\* The fields of an entity.
LEMMA FixOne ==
    ASSUME NEW d, NEW e, NEW fields
    PROVE  Fix(d, <<Erd!PutFields(e, fields)>>)
<1>1. PICK left : left = Erd!PutFields(e, fields)
  OBVIOUS
<1>2. PICK s : s = <<left>>
  OBVIOUS
<1>3. Erd!Range(s) = {left} /\ Len(s) = 1 /\ s[1] = left
  BY <1>2 DEF Erd!Range
<1>4. s \in Seq(Erd!Range(s))
  BY <1>2, <1>3
<1>5. left.type = "updateNode"
  BY <1>1 DEF Erd!PutFields
<1>6. Computed(d, s, 1)
  BY <1>3, <1>5 DEF Computed, TrueOf
<1> QED
  BY <1>1, <1>2, <1>4, <1>6 DEF Fix

\* The fields of an entity, then the relation that says so.
LEMMA FixPair ==
    ASSUME NEW d, NEW e, NEW fields, NEW r \in Erd!Links(d), NEW is, ShapedIs(is),
           Erd!Named(Saying(d.relations[r], is))
    PROVE  Fix(d, <<Erd!PutFields(e, fields), Erd!PutRelation(r, is)>>)
<1>1. PICK left : left = Erd!PutFields(e, fields)
  OBVIOUS
<1>2. PICK first : first = Erd!PutRelation(r, is)
  OBVIOUS
<1>3. left.type = "updateNode" /\ first.type = "updateEdge" /\ first.id = r /\ first.is = is
  BY <1>1, <1>2 DEF Erd!PutFields, Erd!PutRelation
<1>4. TrueOf(d, left) /\ TrueOf(d, first)
  BY <1>3 DEF TrueOf
<1>5. PICK s : s = <<left, first>>
  OBVIOUS
<1>6. /\ Erd!Range(s) = {left, first} /\ Len(s) = 2
      /\ s[1] = left /\ s[2] = first /\ \A k \in 1 .. 2 : s[k] = left \/ s[k] = first
  BY <1>5 DEF Erd!Range
<1>7. s \in Seq(Erd!Range(s))
  BY <1>5, <1>6
<1>8. Computed(d, s, 2)
  BY <1>3, <1>4, <1>6 DEF Computed
<1> QED
  BY <1>1, <1>2, <1>5, <1>7, <1>8 DEF Fix

\* The repairs are computed on the diagram they are for: the foreign key ...
LEMMA MaterializeIsFix ==
    ASSUME NEW d, NEW d0, NEW r \in Erd!Links(d), ShapedRelation(d.relations[r]),
          NEW side \in Erd!Sides
    PROVE  Fix(d, Erd!MaterializeFix(d0, r, d.relations[r], side))
<1>1. PICK rel : rel = d.relations[r]
  OBVIOUS
<1>2. PICK e, fields, id, unique :
        Erd!MaterializeFix(d0, r, rel, side)
          = <<Erd!PutFields(e, fields), Erd!PutRelation(r, Erd!AsFk(rel, side, id, unique))>>
  BY DEF Erd!MaterializeFix
<1>3. PICK is : is = Erd!AsFk(rel, side, id, unique)
  OBVIOUS
<1>4. ShapedIs(is) /\ Erd!Named(Saying(rel, is))
  BY <1>1, <1>3, AsFkNamed, SayingFkNamed
<1>5. Fix(d, <<Erd!PutFields(e, fields), Erd!PutRelation(r, is)>>)
  BY <1>1, <1>4, FixPair
<1> QED
  BY <1>1, <1>2, <1>3, <1>5

\* ... UNIQUE, which leaves the sides as they are ...
LEMMA UniqueIsFix ==
    ASSUME NEW d, NEW r \in Erd!Links(d), Proper(r, d.relations[r])
    PROVE  Fix(d, Erd!UniqueFix(d, r))
<1>1. PICK rel : rel = d.relations[r]
  OBVIOUS
<1>2. PICK is : is = [rel.is EXCEPT !.unique = TRUE]
  OBVIOUS
<1>3. CASE Erd!UniqueFix(d, r) = <<>>
  BY <1>3, FixNone
<1>4. CASE Erd!UniqueFix(d, r) # <<>>
  <2>1. PICK e, fields : Erd!UniqueFix(d, r) = <<Erd!PutFields(e, fields),
        Erd!PutRelation(r, is)>>
    BY <1>1, <1>2, <1>4 DEF Erd!UniqueFix
  <2>2. Erd!IsFk(rel)
    BY <1>1, <1>4 DEF Erd!UniqueFix
  <2>3. ShapedRelation(rel) /\ Erd!Named(rel)
    BY <1>1 DEF Proper
  <2>4. /\ rel.is = [mode |-> "fk", side |-> rel.is.side, dependent |-> rel.is.dependent,
                     field |-> rel.is.field, references |-> rel.is.references,
                     unique |-> rel.is.unique]
        /\ rel.is.side \in Erd!Sides
    BY <2>2, <2>3 DEF ShapedRelation, ShapedIs, Erd!IsFk, Erd!Conceptual
  <2>5. PICK side, holder, f, referred, u :
          rel.is = [mode |-> "fk", side |-> side, dependent |-> holder, field |-> f,
                    references |-> referred, unique |-> u]
    BY <2>4
  <2>6. is = [mode |-> "fk", side |-> side, dependent |-> holder, field |-> f,
              references |-> referred, unique |-> TRUE]
    <3>1. PICK was : was = rel.is
      OBVIOUS
    <3>2. was = [mode |-> "fk", side |-> side, dependent |-> holder, field |-> f,
                 references |-> referred, unique |-> u]
      BY <2>5, <3>1
    <3>3. is = [was EXCEPT !.unique = TRUE]
      BY <1>2, <3>1
    <3> QED
      BY <3>2, <3>3
  <2>7. side \in Erd!Sides
    BY <2>4, <2>5
  <2>8. ShapedIs(is)
    BY <2>6, <2>7 DEF ShapedIs
  <2>9. PICK now : now = Saying(rel, is)
    OBVIOUS
  <2>10. now.source = rel.source /\ now.target = rel.target /\ now.is = is
    BY <2>3, <2>8, <2>9, SayingShaped
  <2>11. holder = Erd!EntityAt(rel, side) /\ referred = Erd!EntityAt(rel, Erd!Other(side))
    BY <2>2, <2>3, <2>5 DEF Erd!Named
  <2>12. Erd!Named(now)
    BY <2>6, <2>10, <2>11 DEF Erd!Named, Erd!EntityAt
  <2>13. Erd!Named(Saying(d.relations[r], is))
    BY <1>1, <2>9, <2>12
  <2> QED
    BY <2>1, <2>8, <2>13, FixPair
<1> QED
  BY <1>3, <1>4

\* What makes a field.
LEMMA FieldTyped ==
    ASSUME NEW id \in Erd!Ids, NEW name \in Erd!Es \cup {Absent},
          NEW flags \in SUBSET {"PK", "FK", "UQ"},
           NEW ref \in Erd!Es \cup {Absent}, NEW by \in Erd!Rs \cup {Absent}
    PROVE  [id |-> id, name |-> name, flags |-> flags, references |-> ref,
          by |-> by] \in Erd!Field
  BY DEF Erd!Field

\* One of the two relations of a conversion.
HalfOf(j, id, e) ==
    [source |-> e, target |-> j, card |-> "1:N",
     is |-> [mode |-> "fk", side |-> "target", dependent |-> j,
             field |-> id, references |-> e, unique |-> FALSE]]

\* The four commands of a conversion.
LEMMA AssociativeSays ==
    ASSUME NEW r, NEW rel
    PROVE  \E p, one1, one2 :
             /\ Erd!AssociativeFix(r, rel)
                  = <<Erd!AddEntity(JoinOf[r], p), Erd!DropRelation(r),
                      Erd!AddRelation(HalvesOf[r][1], one1),
                            Erd!AddRelation(HalvesOf[r][2], one2)>>
             /\ one1 = HalfOf(JoinOf[r], [of |-> r, n |-> 1], rel.source)
             /\ one2 = HalfOf(JoinOf[r], [of |-> r, n |-> 2], rel.target)
             /\ r \in Erd!Rs /\ rel.source \in Erd!Es /\ rel.target \in Erd!Es =>
                  p \in Seq(Erd!Field)
<1>1. PICK j : j = JoinOf[r]
  OBVIOUS
<1>2. PICK ends : ends = <<rel.source, rel.target>>
  OBVIOUS
<1>3. PICK id : id = [i \in 1 .. 2 |-> [of |-> r, n |-> i]]
  OBVIOUS
<1>4. PICK half : half = [i \in 1 .. 2 |->
                            [source |-> ends[i], target |-> j, card |-> "1:N",
                             is |-> [mode |-> "fk", side |-> "target", dependent |-> j,
                                     field |-> id[i], references |-> ends[i],
                                     unique |-> FALSE]]]
  OBVIOUS
<1>5. PICK p : p = [i \in 1 .. 2 |->
                      [id |-> id[i], name |-> ends[i], flags |-> {"PK", "FK"},
                       references |-> ends[i], by |-> r]]
  OBVIOUS
<1>6. Erd!AssociativeFix(r, rel)
        = <<Erd!AddEntity(j, p), Erd!DropRelation(r), Erd!AddRelation(HalvesOf[r][1], half[1]),
            Erd!AddRelation(HalvesOf[r][2], half[2])>>
  BY <1>1, <1>2, <1>3, <1>4, <1>5, Zenon DEF Erd!AssociativeFix
<1>7. half[1] = HalfOf(j, id[1], ends[1]) /\ half[2] = HalfOf(j, id[2], ends[2])
  BY <1>4 DEF HalfOf
<1>8. /\ id[1] = [of |-> r, n |-> 1] /\ id[2] = [of |-> r, n |-> 2]
      /\ ends[1] = rel.source /\ ends[2] = rel.target
  BY <1>2, <1>3
<1>9. ASSUME r \in Erd!Rs, rel.source \in Erd!Es, rel.target \in Erd!Es
      PROVE  p \in Seq(Erd!Field)
  <2>1. \A i \in 1 .. 2 : id[i] \in Erd!Ids /\ ends[i] \in Erd!Es
    BY <1>2, <1>3, <1>9 DEF Erd!Ids
  <2>2. ASSUME NEW i \in 1 .. 2
        PROVE  p[i] \in Erd!Field
    BY <1>5, <1>9, <2>1, FieldTyped
  <2>3. PICK n \in Nat : n = 2
    OBVIOUS
  <2>4. p \in [1 .. n -> Erd!Field]
    BY <1>5, <2>2, <2>3
  <2> QED
    BY <2>4
<1> QED
  BY <1>1, <1>6, <1>7, <1>8, <1>9

\* ... and the conversion, whose halves are new.
LEMMA AssociativeIsFix ==
    ASSUME NEW d, NEW used, Ready(d, used), NEW r \in Erd!Links(d) \cap DOMAIN JoinOf, NEW rel
    PROVE  Fix(d, Erd!AssociativeFix(r, rel))
<1>1. PICK j : j = JoinOf[r]
  OBVIOUS
<1>2. PICK left, first, p, one1, one2 :
        /\ Erd!AssociativeFix(r, rel)
             = <<Erd!AddEntity(j, p), Erd!DropRelation(r), Erd!AddRelation(left, one1),
                   Erd!AddRelation(first, one2)>>
        /\ left = HalvesOf[r][1] /\ first = HalvesOf[r][2]
        /\ one1 = HalfOf(j, [of |-> r, n |-> 1], rel.source)
        /\ one2 = HalfOf(j, [of |-> r, n |-> 2], rel.target)
  <2>1. PICK p, one1, one2 :
          /\ Erd!AssociativeFix(r, rel)
               = <<Erd!AddEntity(JoinOf[r], p), Erd!DropRelation(r),
                   Erd!AddRelation(HalvesOf[r][1], one1),
                         Erd!AddRelation(HalvesOf[r][2], one2)>>
          /\ one1 = HalfOf(JoinOf[r], [of |-> r, n |-> 1], rel.source)
          /\ one2 = HalfOf(JoinOf[r], [of |-> r, n |-> 2], rel.target)
    BY AssociativeSays
  <2>2. PICK left, first : left = HalvesOf[r][1] /\ first = HalvesOf[r][2]
    OBVIOUS
  <2> QED
    BY <1>1, <2>1, <2>2
<1>3. {left, first} \subseteq Erd!Rs \ Erd!Links(d) /\ left \in Erd!Halves(r) /\
      first \in Erd!Halves(r)
  <2>1. {left, first} = Erd!Halves(r) /\ Erd!Halves(r) \subseteq Erd!Rs
    BY <1>2, HalvesAreNew
  <2> QED
    BY <2>1 DEF Ready
<1>4. Proper(left, one1) /\ Proper(first, one2)
  BY <1>2 DEF HalfOf, Proper, ShapedRelation, ShapedIs, Erd!Sides, Erd!Named, Erd!IsFk,
        Erd!EntityAt, Erd!Other
<1>5. PICK c1, c2, c3, c4 : /\ c1 = Erd!AddEntity(j, p) /\ c2 = Erd!DropRelation(r)
                            /\ c3 = Erd!AddRelation(left, one1) /\
                                 c4 = Erd!AddRelation(first, one2)
  OBVIOUS
<1>6. /\ c1.type = "addNode"
      /\ c2.type = "removeEdge" /\ c2.id = r
      /\ c3.type = "addEdge" /\ c3.id = left /\ c3.rel = one1
      /\ c4.type = "addEdge" /\ c4.id = first /\ c4.rel = one2
  BY <1>5 DEF Erd!AddEntity, Erd!DropRelation, Erd!AddRelation
<1>7. TrueOf(d, c1) /\ TrueOf(d, c2) /\ TrueOf(d, c3) /\ TrueOf(d, c4)
  BY <1>3, <1>4, <1>6 DEF TrueOf
<1>8. PICK s : s = <<c1, c2, c3, c4>>
  OBVIOUS
<1>9. /\ Len(s) = 4 /\ s[2] = c2
      /\ \A k \in 1 .. 4 : s[k] = c1 \/ s[k] = c2 \/ s[k] = c3 \/ s[k] = c4
  BY <1>8
<1>10. s \in Seq(Erd!Range(s))
  <2>1. Erd!Range(s) = {c1, c2, c3, c4}
    BY <1>8 DEF Erd!Range
  <2> QED
    BY <1>8, <2>1
<1>11. Computed(d, s, 4)
  BY <1>3, <1>6, <1>7, <1>9 DEF Computed
<1> QED
  BY <1>2, <1>5, <1>8, <1>10, <1>11 DEF Fix

\* Where a repair is offered the entity or relation is, and an N:N may be converted.
LEMMA WhatIsRepaired ==
    ASSUME NEW d, \A r \in Erd!Links(d) : d.relations[r].card = "N:N" => r \in DOMAIN JoinOf,
           NEW x \in Erd!Diagnostics(d)
    PROVE  /\ x.code = "MISSING_PK" => x.of \in Erd!Here(d)
           /\ x.code \in {"1N_MISSING_FK", "11_MISSING_UNIQUE", "NN"} => x.of \in Erd!Links(d)
           /\ x.code = "NN" => x.of \in DOMAIN JoinOf
<1>1. PICK of \in Erd!Here(d) \cup Erd!Links(d) : x \in Erd!DiagnosticsOf(d, of)
  BY DEF Erd!Diagnostics
<1>2. CASE of \in Erd!Es
  <2>1. x \in Erd!EntityDiagnostics(d, of)
    BY <1>1, <1>2 DEF Erd!DiagnosticsOf
  <2>2. PICK code, id :
          /\ x = [code |-> code, of |-> of, field |-> id]
          /\ code \in {"MISSING_PK", "FK_REFERENCE_MISSING", "FK_REFERENCE_INVALID"}
    BY <2>1, Zenon DEF Erd!EntityDiagnostics
  <2>3. x.code = code /\ x.of = of
    BY <2>2
  <2>4. of \in Erd!Here(d)
    BY <1>1, <1>2, ErdAssumption DEF Erd!Links, Erd!ConstantsAssumption
  <2> QED
    BY <2>2, <2>3, <2>4
<1>3. CASE of \notin Erd!Es
  <2>1. of \in Erd!Links(d)
    BY <1>1, <1>3 DEF Erd!Here
  <2>2. PICK code \in Erd!RelationCodes(d, d.relations[of]) :
        x = [code |-> code, of |-> of, field |-> Absent]
    BY <1>1, <1>3 DEF Erd!DiagnosticsOf
  <2>3. x.of = of /\ x.code = code
    BY <2>2
  <2>4. code = "NN" => d.relations[of].card = "N:N"
    BY <2>2 DEF Erd!RelationCodes
  <2>5. code # "MISSING_PK"
    BY <2>2 DEF Erd!RelationCodes
  <2> QED
    BY <2>1, <2>3, <2>4, <2>5
<1> QED
  BY <1>2, <1>3

\* So every repair that is offered is.
LEMMA FixOfIsFix ==
    ASSUME NEW d, NEW used, Ready(d, used), NEW x \in Erd!Diagnostics(d)
    PROVE  Fix(d, Erd!FixOf(d, x))
<1>1. \A r \in Erd!Links(d) : Proper(r, d.relations[r])
  BY DEF Ready, AllProper
<1>0. \A r \in Erd!Links(d) : d.relations[r].card = "N:N" => r \in DOMAIN JoinOf
  BY <1>1 DEF Proper
<1>2. CASE x.code = "MISSING_PK"
  <2>1. PICK fields : Erd!MissingPkFix(d, x.of) = <<Erd!PutFields(x.of, fields)>>
    BY DEF Erd!MissingPkFix
  <2>2. Fix(d, <<Erd!PutFields(x.of, fields)>>)
    BY FixOne
  <2> QED
    BY <1>2, <2>1, <2>2 DEF Erd!FixOf
<1>3. CASE x.code = "1N_MISSING_FK"
  <2>1. PICK r \in Erd!Links(d) : r = x.of
    BY <1>0, <1>3, WhatIsRepaired
  <2>2. PICK side : side = Erd!Dependent(d, d.relations[r])
    OBVIOUS
  <2>3. side \in Erd!Sides
    BY <2>2 DEF Erd!Dependent, Erd!Sides
  <2>4. Fix(d, Erd!MaterializeFix(d, r, d.relations[r], side))
    BY <1>1, <2>1, <2>3, MaterializeIsFix DEF Proper
  <2> QED
    BY <1>3, <2>1, <2>2, <2>4 DEF Erd!FixOf
<1>4. CASE x.code = "11_MISSING_UNIQUE"
  <2>1. PICK r \in Erd!Links(d) : r = x.of
    BY <1>0, <1>4, WhatIsRepaired
  <2>2. Fix(d, Erd!UniqueFix(d, r))
    BY <1>1, <2>1, UniqueIsFix
  <2> QED
    BY <1>4, <2>1, <2>2 DEF Erd!FixOf
<1>5. CASE x.code = "NN"
  <2>1. PICK r \in Erd!Links(d) \cap DOMAIN JoinOf : r = x.of
    BY <1>0, <1>5, WhatIsRepaired
  <2>2. Fix(d, Erd!AssociativeFix(r, d.relations[r]))
    BY <2>1, AssociativeIsFix
  <2> QED
    BY <1>5, <2>1, <2>2 DEF Erd!FixOf
<1>6. CASE x.code \notin {"MISSING_PK", "1N_MISSING_FK", "11_MISSING_UNIQUE", "NN"}
  BY <1>6, FixNone DEF Erd!FixOf
<1> QED
  BY <1>2, <1>3, <1>4, <1>5, <1>6

-----------------------------------------------------------------------------
(* All repairs together.                                                   *)

\* What one sequence and another one hold.
LEMMA RangeOfAppend ==
    ASSUME NEW C, NEW t \in Seq(C), NEW c \in C
    PROVE  Append(t, c) \in Seq(C) /\ Erd!Range(Append(t, c)) = Erd!Range(t) \cup {c}
<1>1. PICK u : u = Append(t, c)
  OBVIOUS
<1>2. PICK n \in Nat : n = Len(t)
  OBVIOUS
<1>3. u \in Seq(C) /\ Len(u) = n + 1 /\ u[n + 1] = c /\ \A i \in 1 .. n : u[i] = t[i]
  BY <1>1, <1>2, AppendProperties
<1>4. DOMAIN u = 1 .. (n + 1) /\ DOMAIN t = 1 .. n
  BY <1>2, <1>3
<1>5. \A i \in 1 .. (n + 1) : i \in 1 .. n \/ i = n + 1
  OBVIOUS
<1>6. \A i \in 1 .. n : i \in 1 .. (n + 1)
  OBVIOUS
<1>7. n + 1 \in 1 .. (n + 1)
  OBVIOUS
<1>8. Erd!Range(u) = Erd!Range(t) \cup {c}
  BY <1>3, <1>4, <1>5, <1>6, <1>7 DEF Erd!Range
<1> QED
  BY <1>1, <1>3, <1>8

\* Both of them.
LEMMA RangeOfConcat ==
    ASSUME NEW C, NEW t \in Seq(C), NEW u \in Seq(C)
    PROVE  t \o u \in Seq(C) /\ Erd!Range(t \o u) = Erd!Range(t) \cup Erd!Range(u)
<1>1. PICK v : v = t \o u
  OBVIOUS
<1>2. PICK m \in Nat, n \in Nat : m = Len(t) /\ n = Len(u)
  OBVIOUS
<1>3. /\ v \in Seq(C) /\ Len(v) = m + n
      /\ \A i \in 1 .. (m + n) : v[i] = IF i <= m THEN t[i] ELSE u[i - m]
  BY <1>1, <1>2, ConcatProperties
<1>4. DOMAIN v = 1 .. (m + n) /\ DOMAIN t = 1 .. m /\ DOMAIN u = 1 .. n
  BY <1>2, <1>3
<1>5. \A i \in 1 .. m : i \in 1 .. (m + n) /\ v[i] = t[i]
  BY <1>3
<1>6. \A i \in 1 .. n : m + i \in 1 .. (m + n) /\ v[m + i] = u[i]
  <2>1. ASSUME NEW i \in 1 .. n
        PROVE  m + i \in 1 .. (m + n) /\ ~(m + i <= m) /\ (m + i) - m = i
    OBVIOUS
  <2> QED
    BY <1>3, <2>1
<1>7. \A i \in 1 .. (m + n) : i \in 1 .. m \/ (i - m \in 1 .. n /\ v[i] = u[i - m])
  BY <1>3
<1>8. Erd!Range(v) \subseteq Erd!Range(t) \cup Erd!Range(u)
  <2>1. ASSUME NEW i \in 1 .. (m + n)
        PROVE  v[i] \in Erd!Range(t) \cup Erd!Range(u)
    <3>1. CASE i \in 1 .. m
      BY <1>4, <1>5, <3>1 DEF Erd!Range
    <3>2. CASE i - m \in 1 .. n /\ v[i] = u[i - m]
      BY <1>4, <3>2 DEF Erd!Range
    <3> QED
      BY <1>7, <3>1, <3>2
  <2> QED
    BY <1>4, <2>1 DEF Erd!Range
<1>9. Erd!Range(t) \subseteq Erd!Range(v)
  BY <1>4, <1>5 DEF Erd!Range
<1>10. Erd!Range(u) \subseteq Erd!Range(v)
  BY <1>4, <1>6 DEF Erd!Range
<1> QED
  BY <1>1, <1>3, <1>8, <1>9, <1>10

\* Nothing.
LEMMA RangeOfNone ==
    ASSUME NEW C
    PROVE  <<>> \in Seq(C) /\ Erd!Range(<<>>) = {}
  BY DEF Erd!Range

\* What is in s, the second time left out.
Keeps(f, s, n) ==
    f = [k \in 0 .. n |->
           IF k = 0 THEN <<>>
           ELSE IF Erd!Contains(f[k - 1], s[k]) THEN f[k - 1] ELSE Append(f[k - 1], s[k])]

\* It holds the same commands.
LEMMA WithoutRepeatsRange ==
    ASSUME NEW C, NEW s \in Seq(C)
    PROVE  Erd!WithoutRepeats(s) \in Seq(C) /\ Erd!Range(Erd!WithoutRepeats(s)) = Erd!Range(s)
<1>1. PICK n \in Nat : Len(s) = n
  OBVIOUS
<1>2. \A k \in 1 .. n : s[k] \in C
  BY <1>1
<1> DEFINE Put(t, c) == IF Erd!Contains(t, c) THEN t ELSE Append(t, c)
<1>3. ASSUME NEW t \in Seq(C), NEW c \in C
      PROVE  Put(t, c) \in Seq(C) /\ Erd!Range(Put(t, c)) = Erd!Range(t) \cup {c}
  <2>1. CASE Erd!Contains(t, c)
    <3>1. c \in Erd!Range(t)
      BY <2>1 DEF Erd!Contains, Erd!Range
    <3> QED
      BY <2>1, <3>1
  <2>2. CASE ~Erd!Contains(t, c)
    BY <2>2, RangeOfAppend
  <2> QED
    BY <2>1, <2>2
<1>4. PICK F : F = [p \in Seq(C) \X (1 .. n) |-> Put(p[1], s[p[2]])]
  OBVIOUS
<1>5. ASSUME NEW t \in Seq(C), NEW k \in 1 .. n
      PROVE  F[<<t, k>>] = Put(t, s[k])
  BY <1>4
<1>6. F \in [Seq(C) \X (1 .. n) -> Seq(C)]
  <2>1. ASSUME NEW p \in Seq(C) \X (1 .. n)
        PROVE  Put(p[1], s[p[2]]) \in Seq(C)
    <3>1. p[1] \in Seq(C) /\ s[p[2]] \in C
      BY <1>2
    <3> QED
      BY <1>3, <3>1
  <2> QED
    BY <1>4, <2>1
<1>7. <<>> \in Seq(C)
  OBVIOUS
<1>0. PICK U, first : U = Seq(C) /\ first = <<>>
  OBVIOUS
<1>8. PICK f \in [0 .. n -> U] : Follows(f, n, first, F)
  <2>1. F \in [U \X (1 .. n) -> U] /\ first \in U /\ n \in Nat
    BY <1>0, <1>1, <1>6, <1>7
  <2> QED
    BY <2>1, Iterates
<1>9. ASSUME NEW k \in 0 .. n
      PROVE  f[k] = IF k = 0 THEN <<>> ELSE Put(f[k - 1], s[k])
  <2>1. CASE k = 0
    BY <1>0, <1>8, <2>1 DEF Follows
  <2>2. CASE k # 0
    <3>1. k \in 1 .. n /\ k - 1 \in 0 .. n
      BY <1>1, <2>2
    <3>2. f[k - 1] \in Seq(C) /\ f[k] = F[<<f[k - 1], k>>]
      BY <1>0, <1>8, <2>2, <3>1 DEF Follows
    <3> QED
      BY <1>5, <2>2, <3>1, <3>2
  <2> QED
    BY <2>1, <2>2
<1>10. Keeps(f, s, n)
  <2>1. f = [k \in 0 .. n |-> f[k]]
    BY <1>8
  <2> QED
    BY <1>9, <2>1 DEF Keeps
<1>11. PICK h : h = CHOOSE any : Keeps(any, s, n)
  OBVIOUS
<1>12. Keeps(h, s, n)
  BY <1>10, <1>11
<1>13. Erd!WithoutRepeats(s) = h[n]
  BY <1>1, <1>11 DEF Erd!WithoutRepeats, Keeps
<1>14. \A k \in 0 .. n : h[k] = IF k = 0 THEN <<>> ELSE Put(h[k - 1], s[k])
  BY <1>12 DEF Keeps
<1> DEFINE S == {k \in 0 .. n : h[k] \in Seq(C) /\ Erd!Range(h[k]) = {s[j] : j \in 1 .. k}}
<1>15. 0 \in S
  <2>1. h[0] = <<>>
    BY <1>14
  <2>2. {s[j] : j \in 1 .. 0} = {}
    OBVIOUS
  <2> QED
    BY <2>1, <2>2, RangeOfNone
<1>16. ASSUME NEW k \in 1 .. n, k - 1 \in S
       PROVE  k \in S
  <2>1. PICK t \in Seq(C) : t = h[k - 1]
    BY <1>16
  <2>2. h[k] = Put(t, s[k])
    BY <1>14, <2>1
  <2>3. Erd!Range(t) = {s[j] : j \in 1 .. (k - 1)}
    BY <1>16, <2>1
  <2>4. h[k] \in Seq(C) /\ Erd!Range(h[k]) = Erd!Range(t) \cup {s[k]}
    BY <1>2, <1>3, <2>2
  <2>5. {s[j] : j \in 1 .. k} = {s[j] : j \in 1 .. (k - 1)} \cup {s[k]}
    OBVIOUS
  <2>6. Erd!Range(h[k]) = {s[j] : j \in 1 .. k}
    <3> HIDE DEF Put
    <3> QED
      BY <2>3, <2>4, <2>5, Zenon
  <2>7. h[k] \in Seq(C)
    BY <2>4, Zenon
  <2>8. k \in 0 .. n
    OBVIOUS
  <2> QED
    BY <2>6, <2>7, <2>8, Zenon
<1>17. n \in S
  <2> HIDE DEF S
  <2>1. Hereditary(S, n)
    BY <1>15, <1>16 DEF Hereditary
  <2> QED
    BY <1>1, <2>1, UpTo
<1>18. DOMAIN s = 1 .. n
  BY <1>1
<1>19. Erd!Range(s) = {s[j] : j \in 1 .. n}
  BY <1>18 DEF Erd!Range
<1> QED
  BY <1>13, <1>17, <1>19

\* The commands for the first n entities and relations of a sequence.
Joins(f, d, of, n) ==
    f = [k \in 0 .. n |-> IF k = 0 THEN <<>> ELSE f[k - 1] \o Erd!FixesOf(d, of[k])]

\* The repair of an entity or relation, if there is one.
LEMMA FixesOfIsFix ==
    ASSUME NEW d, NEW used, Ready(d, used), NEW of
    PROVE  Fix(d, Erd!FixesOf(d, of))
<1>1. CASE Erd!FixesOf(d, of) = <<>>
  BY <1>1, FixNone
<1>2. CASE Erd!FixesOf(d, of) # <<>>
  <2>1. of \in Erd!Here(d) \cup Erd!Links(d) /\ \E x \in Erd!DiagnosticsOf(d, of) :
        Erd!FixesOf(d, of) = Erd!FixOf(d, x)
    BY <1>2 DEF Erd!FixesOf
  <2>2. PICK x \in Erd!Diagnostics(d) : Erd!FixesOf(d, of) = Erd!FixOf(d, x)
    BY <2>1 DEF Erd!Diagnostics
  <2> QED
    BY <2>2, FixOfIsFix
<1> QED
  BY <1>1, <1>2

\* The commands of all repairs.
Parts(d) ==
    UNION {Erd!Range(Erd!FixesOf(d, (Entities \o Relations)[k])) :
             k \in 1 .. Len(Entities \o Relations)}

\* They are what all repairs together are made of.
LEMMA BatchRange ==
    ASSUME NEW d, \A of : Erd!FixesOf(d, of) \in Seq(Erd!Range(Erd!FixesOf(d, of)))
    PROVE  Erd!Batch(d) \in Seq(Parts(d)) /\ Erd!Range(Erd!Batch(d)) = Parts(d)
<1>1. PICK of : of = Entities \o Relations
  OBVIOUS
<1>2. PICK n \in Nat : n = Len(of)
  BY <1>1, ErdAssumption DEF Erd!ConstantsAssumption
<1>3. PICK fixes : fixes = [k \in 1 .. n |-> Erd!FixesOf(d, of[k])]
  OBVIOUS
<1>4. PICK C : C = UNION {Erd!Range(fixes[k]) : k \in 1 .. n}
  OBVIOUS
<1>6. ASSUME NEW k \in 1 .. n
      PROVE  fixes[k] \in Seq(C)
  <2>1. fixes[k] \in Seq(Erd!Range(fixes[k]))
    BY <1>3
  <2>2. Erd!Range(fixes[k]) \subseteq C
    BY <1>4
  <2> QED
    BY <2>1, <2>2
<1>8. PICK F : F = [p \in Seq(C) \X (1 .. n) |-> p[1] \o fixes[p[2]]]
  OBVIOUS
<1>9. F \in [Seq(C) \X (1 .. n) -> Seq(C)]
  BY <1>6, <1>8, RangeOfConcat
<1>10. <<>> \in Seq(C)
  OBVIOUS
<1>0. PICK U, first : U = Seq(C) /\ first = <<>>
  OBVIOUS
<1>11. PICK f \in [0 .. n -> U] : Follows(f, n, first, F)
  <2>1. F \in [U \X (1 .. n) -> U] /\ first \in U /\ n \in Nat
    BY <1>0, <1>2, <1>9, <1>10
  <2> QED
    BY <2>1, Iterates
<1>12. ASSUME NEW k \in 0 .. n
       PROVE  f[k] = IF k = 0 THEN <<>> ELSE f[k - 1] \o Erd!FixesOf(d, of[k])
  <2>1. CASE k = 0
    BY <1>0, <1>11, <2>1 DEF Follows
  <2>2. CASE k # 0
    <3>1. k \in 1 .. n /\ k - 1 \in 0 .. n
      BY <1>2, <2>2
    <3>2. <<f[k - 1], k>> \in Seq(C) \X (1 .. n) /\ f[k] = F[<<f[k - 1], k>>]
      BY <1>0, <1>11, <2>2, <3>1 DEF Follows
    <3> QED
      BY <1>3, <1>8, <2>2, <3>1, <3>2
  <2> QED
    BY <2>1, <2>2
<1>13. Joins(f, d, of, n)
  <2>1. f = [k \in 0 .. n |-> f[k]]
    BY <1>11
  <2> QED
    BY <1>12, <2>1 DEF Joins
<1>14. PICK h : h = CHOOSE any : Joins(any, d, of, n)
  OBVIOUS
<1>15. Joins(h, d, of, n)
  BY <1>13, <1>14
<1>16. Erd!Batch(d) = Erd!WithoutRepeats(h[n])
  BY <1>1, <1>2, <1>14 DEF Erd!Batch, Joins
<1>17. \A k \in 0 .. n : h[k] = IF k = 0 THEN <<>> ELSE h[k - 1] \o Erd!FixesOf(d, of[k])
  BY <1>15 DEF Joins
<1> DEFINE S == {k \in 0 .. n :
                   h[k] \in Seq(C) /\ Erd!Range(h[k]) = UNION {Erd!Range(fixes[j]) :
                         j \in 1 .. k}}
<1>18. 0 \in S
  <2>1. h[0] = <<>>
    BY <1>17
  <2>2. UNION {Erd!Range(fixes[j]) : j \in 1 .. 0} = {}
    OBVIOUS
  <2> QED
    BY <2>1, <2>2, RangeOfNone
<1>19. ASSUME NEW k \in 1 .. n, k - 1 \in S
       PROVE  k \in S
  <2>1. PICK t \in Seq(C) : t = h[k - 1]
    BY <1>19
  <2>2. h[k] = t \o fixes[k]
    <3>1. k \in 0 .. n /\ k # 0
      BY <1>2
    <3>2. h[k] = h[k - 1] \o Erd!FixesOf(d, of[k])
      BY <1>17, <3>1
    <3>3. fixes[k] = Erd!FixesOf(d, of[k])
      BY <1>3
    <3> QED
      BY <2>1, <3>2, <3>3
  <2>3. Erd!Range(t) = UNION {Erd!Range(fixes[j]) : j \in 1 .. (k - 1)}
    BY <1>19, <2>1
  <2>4. h[k] \in Seq(C) /\ Erd!Range(h[k]) = Erd!Range(t) \cup Erd!Range(fixes[k])
    BY <1>6, <2>2, RangeOfConcat
  <2>5. \A j \in 1 .. k : j \in 1 .. (k - 1) \/ j = k
    BY <1>2
  <2>6. (\A j \in 1 .. (k - 1) : j \in 1 .. k) /\ k \in 1 .. k
    BY <1>2
  <2>7. UNION {Erd!Range(fixes[j]) : j \in 1 .. k}
          = (UNION {Erd!Range(fixes[j]) : j \in 1 .. (k - 1)}) \cup Erd!Range(fixes[k])
    <3>1. ASSUME NEW j \in 1 .. k
          PROVE  Erd!Range(fixes[j])
                   \subseteq (UNION {Erd!Range(fixes[i]) :
                         i \in 1 .. (k - 1)}) \cup Erd!Range(fixes[k])
      <4>1. CASE j = k
        BY <4>1
      <4>2. CASE j # k
        BY <2>5, <4>2
      <4> QED
        BY <4>1, <4>2
    <3>2. ASSUME NEW j \in 1 .. (k - 1)
          PROVE  Erd!Range(fixes[j]) \subseteq UNION {Erd!Range(fixes[i]) : i \in 1 .. k}
      BY <2>6
    <3>3. Erd!Range(fixes[k]) \subseteq UNION {Erd!Range(fixes[i]) : i \in 1 .. k}
      BY <2>6
    <3> QED
      BY <3>1, <3>2, <3>3
  <2> QED
    BY <2>3, <2>4, <2>7
<1>20. n \in S
  <2> HIDE DEF S
  <2>1. Hereditary(S, n)
    BY <1>18, <1>19 DEF Hereditary
  <2> QED
    BY <1>2, <2>1, UpTo
<1>21. PICK s : s = Erd!Batch(d)
  OBVIOUS
<1>22. s \in Seq(C) /\ Erd!Range(s) = C
  BY <1>4, <1>16, <1>20, <1>21, WithoutRepeatsRange
<1>23. Parts(d) = C
  BY <1>1, <1>2, <1>3, <1>4 DEF Parts
<1> QED
  BY <1>21, <1>22, <1>23

\* All repairs together are computed on the diagram as it was.
LEMMA BatchIsFix ==
    ASSUME NEW d, NEW used, Ready(d, used)
    PROVE  Fix(d, Erd!Batch(d))
<1>1. PICK of, n : of = Entities \o Relations /\ n = Len(of)
  OBVIOUS
<1>3. PICK fixes : fixes = [k \in 1 .. n |-> Erd!FixesOf(d, of[k])]
  OBVIOUS
<1>4. PICK C : C = UNION {Erd!Range(fixes[k]) : k \in 1 .. n}
  OBVIOUS
<1>5. \A k \in 1 .. n : Fix(d, fixes[k])
  BY <1>3, FixesOfIsFix
<1>6. ASSUME NEW k \in 1 .. n
      PROVE  fixes[k] \in Seq(C)
  <2>1. fixes[k] \in Seq(Erd!Range(fixes[k]))
    BY <1>5 DEF Fix
  <2>2. Erd!Range(fixes[k]) \subseteq C
    BY <1>4
  <2> QED
    BY <2>1, <2>2
<1>21. PICK s : s = Erd!Batch(d)
  OBVIOUS
<1>22. s \in Seq(C) /\ Erd!Range(s) = C
  <2>1. Parts(d) = C
    BY <1>1, <1>3, <1>4 DEF Parts
  <2>2. \A x : Erd!FixesOf(d, x) \in Seq(Erd!Range(Erd!FixesOf(d, x)))
    BY FixesOfIsFix DEF Fix
  <2> QED
    BY <1>21, <2>1, <2>2, BatchRange
<1>23. PICK m \in Nat : m = Len(s)
  BY <1>22
<1>24. /\ \A k \in 1 .. m : s[k] \in C
       /\ \A c \in C : \E k \in 1 .. m : s[k] = c
  BY <1>22, <1>23 DEF Erd!Range
<1>25. ASSUME NEW c \in C
       PROVE  /\ TrueOf(d, c)
              /\ c.type = "addEdge" =>
                   \E r \in Erd!Links(d) \cap DOMAIN JoinOf :
                     c.id \in Erd!Halves(r) /\ \E left \in C :
                           left.type = "removeEdge" /\ left.id = r
  <2>1. PICK k \in 1 .. n : c \in Erd!Range(fixes[k])
    BY <1>4
  <2>2. PICK u : u = fixes[k]
    OBVIOUS
  <2>3. PICK l \in Nat : Computed(d, u, l)
    BY <1>5, <2>2 DEF Fix
  <2>4. u \in Seq(C) /\ Len(u) = l /\ \A i \in 1 .. l : u[i] \in C
    BY <1>6, <2>2, <2>3 DEF Computed
  <2>5. PICK i \in 1 .. l : c = u[i]
    BY <2>1, <2>2, <2>4 DEF Erd!Range
  <2> QED
    BY <2>3, <2>4, <2>5 DEF Computed
<1>26. Computed(d, s, m)
  <2>1. ASSUME NEW k \in 1 .. m, s[k].type = "addEdge"
        PROVE  \E r \in Erd!Links(d) \cap DOMAIN JoinOf :
                 /\ s[k].id \in Erd!Halves(r)
                 /\ \E i \in 1 .. m : s[i].type = "removeEdge" /\ s[i].id = r
    <3>1. PICK r \in Erd!Links(d) \cap DOMAIN JoinOf :
            s[k].id \in Erd!Halves(r) /\ \E left \in C : left.type = "removeEdge" /\ left.id = r
      BY <1>24, <1>25, <2>1
    <3> QED
      BY <1>24, <3>1
  <2> QED
    BY <1>23, <1>24, <1>25, <2>1 DEF Computed
<1> QED
  BY <1>21, <1>22, <1>26 DEF Fix

-----------------------------------------------------------------------------
(* What the user does.                                                     *)

\* A repair of the diagram, or all of them, keep it.
LEMMA FixKeepsReady ==
    ASSUME NEW d, NEW used, Ready(d, used), NEW s, Fix(d, s)
    PROVE  Ready(Erd!ApplyAll(d, s), used)
<1>1. PICK n \in Nat : Computed(d, s, n)
  BY DEF Fix
<1>2. AllProper(d) /\ Alike(d, d)
  BY DEF Ready, Alike
<1> QED
  BY <1>1, <1>2, ReadyAfter

\* So does another list of fields ...
LEMMA ReadyWithFields ==
    ASSUME NEW d, NEW used, Ready(d, used), NEW e, NEW fields
    PROVE  Ready(Erd!Apply(d, Erd!PutFields(e, fields)), used)
<1>1. PICK c : c = Erd!PutFields(e, fields)
  OBVIOUS
<1>2. c.type = "updateNode"
  BY <1>1 DEF Erd!PutFields
<1>3. TrueOf(d, c)
  BY <1>2 DEF TrueOf
<1> QED
  BY <1>1, <1>2, <1>3, ReadyAfterOne

\* ... and a relation that goes.
LEMMA ReadyWithout ==
    ASSUME NEW d, NEW used, Ready(d, used), NEW r
    PROVE  /\ Ready(Erd!Apply(d, Erd!DropRelation(r)), used)
           /\ Erd!Links(Erd!Apply(d, Erd!DropRelation(r))) \subseteq Erd!Links(d) \ {r}
<1>1. PICK c : c = Erd!DropRelation(r)
  OBVIOUS
<1>2. c.type = "removeEdge" /\ c.id = r
  BY <1>1 DEF Erd!DropRelation
<1>3. TrueOf(d, c)
  BY <1>2 DEF TrueOf
<1>4. Shaped(d)
  BY DEF Ready, AllProper
<1>5. Erd!Links(Erd!Apply(d, c)) \subseteq Erd!Links(d) \ {r}
  BY <1>2, <1>4, ApplyLinks
<1>6. Ready(Erd!Apply(d, c), used)
  BY <1>2, <1>3, ReadyAfterOne
<1> QED
  BY <1>1, <1>5, <1>6

\* A relation that is there may become another one.
LEMMA ReadyWithRelation ==
    ASSUME NEW d, NEW used, Ready(d, used), NEW r \in Erd!Links(d), NEW rel, Proper(r, rel)
    PROVE  Ready([d EXCEPT !.relations[r] = rel], used)
<1>1. PICK g : g = WithRelation(d, r, rel)
  OBVIOUS
<1>2. Shaped(g) /\ \A q \in Erd!Rs : g.relations[q] = IF q = r THEN rel ELSE d.relations[q]
  BY <1>1, WithRelationShape DEF Ready, AllProper
<1>3. \A q \in Erd!Links(g) : q \in Erd!Links(d) /\ Proper(q, g.relations[q])
  BY <1>2 DEF Erd!Links, Ready, AllProper
<1>4. Ready(g, used)
  BY <1>2, <1>3, ReadyWithFewer DEF AllProper
<1> QED
  BY <1>1, <1>4 DEF WithRelation

\* A relation is drawn once; by a conversion it is taken away at the same time.
LEMMA ReadyWithDrawn ==
    ASSUME NEW d, NEW used, Ready(d, used), NEW r \in Drawn \ used, NEW rel \in Erd!Relation,
           rel.is = Erd!Conceptual, rel.card = "N:N" => r \in DOMAIN JoinOf, NEW d0,
           NEW s, s \in {<<>>, Erd!AssociativeFix(r, rel),
                 Erd!MaterializeFix(d0, r, rel, "source"),
                         Erd!MaterializeFix(d0, r, rel, "target")},
           s = Erd!AssociativeFix(r, rel) => rel.card = "N:N"
    PROVE  Ready(Erd!ApplyAll(Erd!Apply(d, Erd!AddRelation(r, rel)), s), used \cup {r})
<1>1. PICK d1 : d1 = WithRelation(d, r, rel)
  OBVIOUS
<1>2. PICK now : now = used \cup {r}
  OBVIOUS
<1>3. r \in Erd!Rs /\ r \notin Erd!Links(d) /\ rel # Absent /\ AllProper(d) /\ Shaped(d)
  BY ErdAssumption DEF Erd!ConstantsAssumption, Ready, AllProper
<1>4. Proper(r, rel)
  <2>1. PICK left, first, k :
        rel = [source |-> left, target |-> first, card |-> k, is |-> Erd!Conceptual]
    BY DEF Erd!Relation
  <2>2. ShapedRelation(rel)
    BY <2>1 DEF ShapedRelation, ShapedIs
  <2>3. Erd!Named(rel)
    BY DEF Erd!Named, Erd!IsFk, Erd!Conceptual
  <2> QED
    BY <2>2, <2>3 DEF Proper
<1>5. Shaped(d1) /\ \A q \in Erd!Rs : d1.relations[q] = IF q = r THEN rel ELSE d.relations[q]
  BY <1>1, <1>3, WithRelationShape
<1>6. Erd!Links(d1) = Erd!Links(d) \cup {r}
  BY <1>3, <1>5 DEF Erd!Links
<1>7. AllProper(d1)
  BY <1>3, <1>4, <1>5, <1>6 DEF AllProper, Erd!Links
<1>8. \A q \in DOMAIN JoinOf : r \notin Erd!Halves(q)
  BY HalvesAreNew
<1>9. Ready(d1, now)
  BY <1>2, <1>3, <1>6, <1>7, <1>8 DEF Ready
<1>10. PICK g : g = Erd!Apply(d, Erd!AddRelation(r, rel))
  OBVIOUS
<1>11. /\ AllProper(g)
       /\ \/ g.relations = d.relations
          \/ \A q \in Erd!Rs : g.relations[q] = IF q = r THEN rel ELSE d.relations[q]
  <2>1. PICK c : c = Erd!AddRelation(r, rel)
    OBVIOUS
  <2>2. c.type = "addEdge" /\ c.id = r /\ c.rel = rel
    BY <2>1 DEF Erd!AddRelation
  <2>3. TrueOf(d, c) /\ Alike(d, d)
    BY <1>3, <1>4, <2>2 DEF TrueOf, Alike
  <2>4. AllProper(g)
    BY <1>3, <1>10, <2>1, <2>3, ApplyProper
  <2>5. Effect(g, d, c)
    BY <1>3, <1>10, <2>1, <2>2, ApplyEffect
  <2> QED
    BY <2>2, <2>4, <2>5 DEF Effect
<1>12. Erd!Links(g) \subseteq Erd!Links(d1) /\ Alike(g, d1)
  <2>1. CASE g.relations = d.relations
    <3>1. Erd!Links(g) = Erd!Links(d)
      BY <2>1 DEF Erd!Links
    <3>2. \A q \in Erd!Links(d) : d1.relations[q] = g.relations[q]
      BY <1>3, <1>5, <2>1 DEF Erd!Links
    <3> QED
      BY <1>6, <3>1, <3>2 DEF Alike
  <2>2. CASE \A q \in Erd!Rs : g.relations[q] = IF q = r THEN rel ELSE d.relations[q]
    <3>1. \A q \in Erd!Rs : g.relations[q] = d1.relations[q]
      BY <1>5, <2>2
    <3> QED
      BY <3>1 DEF Erd!Links, Alike
  <2> QED
    BY <1>11, <2>1, <2>2
<1>13. Fix(d1, s)
  <2>1. r \in Erd!Links(d1) /\ d1.relations[r] = rel
    BY <1>3, <1>5, <1>6
  <2>2. CASE s = <<>>
    BY <2>2, FixNone
  <2>3. CASE s = Erd!AssociativeFix(r, rel)
    <3>1. r \in Erd!Links(d1) \cap DOMAIN JoinOf
      BY <2>1, <2>3
    <3>2. Fix(d1, Erd!AssociativeFix(r, rel))
      BY <1>9, <3>1, AssociativeIsFix
    <3> QED
      BY <2>3, <3>2
  <2>4. ASSUME NEW side \in Erd!Sides
        PROVE  Fix(d1, Erd!MaterializeFix(d0, r, rel, side))
    BY <1>4, <2>1, MaterializeIsFix DEF Proper
  <2> QED
    BY <2>2, <2>3, <2>4 DEF Erd!Sides
<1>14. PICK n \in Nat : Computed(d1, s, n)
  BY <1>13 DEF Fix
<1>15. Ready(Erd!ApplyAll(g, s), now)
  BY <1>9, <1>11, <1>12, <1>14, ReadyAfter
<1> QED
  BY <1>2, <1>10, <1>15

\* A foreign key stays with its entity when the relation is turned.
LEMMA FlippedProper ==
    ASSUME NEW r, NEW rel, Proper(r, rel)
    PROVE  Proper(r, Erd!Flipped(rel))
<1>1. PICK s, t, k, i : rel = [source |-> s, target |-> t, card |-> k, is |-> i]
  BY DEF Proper, ShapedRelation
<1>2. rel.source = s /\ rel.target = t /\ rel.card = k /\ rel.is = i
  BY <1>1
<1>3. PICK j : j = IF Erd!IsFk(rel) THEN [i EXCEPT !.side = Erd!Other(@)] ELSE i
  OBVIOUS
<1>4. PICK card : card = CASE k = "1:N" -> "N:1" [] k = "N:1" -> "1:N" [] OTHER -> k
  OBVIOUS
<1>5. PICK q : q = Erd!Flipped(rel)
  OBVIOUS
<1>6. q = [source |-> t, target |-> s, card |-> card, is |-> j]
  BY <1>2, <1>3, <1>4, <1>5 DEF Erd!Flipped
<1>7. q.source = t /\ q.target = s /\ q.card = card /\ q.is = j
  BY <1>6
<1>8. card = "N:N" => k = "N:N"
  BY <1>4
<1>9. CASE ~Erd!IsFk(rel)
  <2>1. j = i
    BY <1>3, <1>9
  <2>2. ShapedIs(j) /\ ~Erd!IsFk(q)
    BY <1>2, <1>7, <1>9, <2>1 DEF Proper, ShapedRelation, Erd!IsFk
  <2> QED
    BY <1>2, <1>5, <1>6, <1>7, <1>8, <2>2 DEF Proper, ShapedRelation, Erd!Named
<1>10. CASE Erd!IsFk(rel)
  <2>1. ShapedIs(i) /\ i # Erd!Conceptual
    BY <1>2, <1>10 DEF Proper, ShapedRelation, Erd!IsFk, Erd!Conceptual
  <2>2. PICK side, holder, f, referred, u :
          /\ side \in Erd!Sides
          /\ i = [mode |-> "fk", side |-> side, dependent |-> holder, field |-> f,
                  references |-> referred, unique |-> u]
    BY <2>1 DEF ShapedIs
  <2>3. j = [mode |-> "fk", side |-> Erd!Other(side), dependent |-> holder, field |-> f,
             references |-> referred, unique |-> u]
    BY <1>3, <1>10, <2>2
  <2>4. Erd!Other(side) \in Erd!Sides /\ Erd!Other(Erd!Other(side)) = side
    BY <2>2 DEF Erd!Other, Erd!Sides
  <2>5. ShapedIs(j)
    BY <2>3, <2>4 DEF ShapedIs
  <2>6. holder = Erd!EntityAt(rel, side) /\ referred = Erd!EntityAt(rel, Erd!Other(side))
    BY <1>2, <1>10, <2>2 DEF Proper, Erd!Named
  <2>7. \A x \in Erd!Sides : Erd!EntityAt(q, Erd!Other(x)) = Erd!EntityAt(rel, x)
    BY <1>2, <1>7 DEF Erd!EntityAt, Erd!Other, Erd!Sides
  <2>8. Erd!Named(q)
    BY <1>7, <2>2, <2>3, <2>4, <2>6, <2>7 DEF Erd!Named
  <2> QED
    BY <1>2, <1>5, <1>6, <1>7, <1>8, <2>5, <2>8 DEF Proper, ShapedRelation
<1> QED
  BY <1>9, <1>10

\* A relation goes and comes back the other way round.
LEMMA ReadyWithFlipped ==
    ASSUME NEW d, NEW used, Ready(d, used), NEW r \in Erd!Links(d)
    PROVE  Ready(Erd!Apply(Erd!Apply(d, Erd!DropRelation(r)), Erd!AddRelation(r,
          Erd!Flipped(d.relations[r]))), used)
<1>1. PICK g : g = Erd!Apply(d, Erd!DropRelation(r))
  OBVIOUS
<1>2. PICK rel : rel = Erd!Flipped(d.relations[r])
  OBVIOUS
<1>3. PICK c : c = Erd!AddRelation(r, rel)
  OBVIOUS
<1>4. c.type = "addEdge" /\ c.id = r /\ c.rel = rel
  BY <1>3 DEF Erd!AddRelation
<1>5. Ready(g, used) /\ Erd!Links(g) \subseteq Erd!Links(d) \ {r}
  BY <1>1, ReadyWithout
<1>6. Proper(r, rel)
  BY <1>2, FlippedProper DEF Ready, AllProper
<1>7. AllProper(g) /\ Shaped(g) /\ Alike(g, g)
  BY <1>5 DEF Ready, AllProper, Alike
<1>8. TrueOf(g, c)
  BY <1>4, <1>5, <1>6 DEF TrueOf, Erd!Links
<1>9. AllProper(Erd!Apply(g, c))
  BY <1>7, <1>8, ApplyProper
<1>10. Erd!Links(Erd!Apply(g, c)) \subseteq Erd!Links(d)
  BY <1>4, <1>5, <1>7, ApplyLinks
<1>11. Ready(Erd!Apply(g, c), used)
  BY <1>9, <1>10, ReadyWithFewer
<1> QED
  BY <1>1, <1>2, <1>3, <1>11

-----------------------------------------------------------------------------
(* The invariant.                                                          *)

\* Until a repair of another diagram is applied, the relations are as they should be.
ErdInv ==
    /\ stale \in BOOLEAN
    /\ allowConceptual \in BOOLEAN
    /\ ~stale => Ready(diagram, drawn)

\* What is drawn and what is there are relations and entities.
LEMMA Es_Rs_Drawn ==
    /\ Drawn \subseteq Erd!Rs
    /\ \A d : Erd!Here(d) \subseteq Erd!Es /\ Erd!Links(d) \subseteq Erd!Rs
  BY ErdAssumption DEF Erd!ConstantsAssumption, Erd!Here, Erd!Links

\* A diagram is opened as it should be.
LEMMA StartIsReady ==
    ASSUME NEW d, d \in Erd!Diagrams,
          Erd!Sound(d), \A r \in Erd!Links(d) : Erd!Named(d.relations[r]),
           \A r \in DOMAIN JoinOf : Erd!Halves(r) \cap Erd!Links(d) = {}
    PROVE  Ready(d, Erd!Links(d) \cap Drawn)
<1>1. PICK es, rs : /\ d = [entities |-> es, relations |-> rs]
                    /\ rs \in [Erd!Rs -> Erd!Relation \cup {Absent}]
  BY DEF Erd!Diagrams
<1>2. Shaped(d)
  BY <1>1 DEF Shaped
<1>3. ASSUME NEW r \in Erd!Links(d)
      PROVE  Proper(r, d.relations[r])
  <2>1. PICK rel \in Erd!Relation : rel = d.relations[r]
    BY <1>1 DEF Erd!Links
  <2>2. PICK s, t, k, i : /\ rel = [source |-> s, target |-> t, card |-> k, is |-> i]
                          /\ i \in {Erd!Conceptual} \cup Erd!Fk
    BY DEF Erd!Relation
  <2>3. ShapedIs(i)
    <3>1. CASE i = Erd!Conceptual
      BY <3>1 DEF ShapedIs
    <3>2. CASE i \in Erd!Fk
      <4>1. PICK side \in Erd!Sides, holder \in Erd!Es, f \in Erd!Ids, referred \in Erd!Es,
            u \in BOOLEAN :
              i = [mode |-> "fk", side |-> side, dependent |-> holder, field |-> f,
                   references |-> referred, unique |-> u]
        BY <3>2 DEF Erd!Fk
      <4> QED
        BY <4>1 DEF ShapedIs
    <3> QED
      BY <2>2, <3>1, <3>2
  <2>4. ShapedRelation(rel)
    BY <2>2, <2>3 DEF ShapedRelation
  <2> QED
    BY <2>1, <2>4 DEF Proper, Erd!Sound
<1> QED
  BY <1>2, <1>3 DEF Ready, AllProper

-----------------------------------------------------------------------------
(* Types.                                                                  *)

\* The instance's Cardinality is the one of FiniteSets.
LEMMA SameCardinality == ASSUME NEW S PROVE Erd!Cardinality(S) = Cardinality(S)
  BY Zenon DEF Cardinality, Erd!Cardinality

\* A diagram of the right type, whose relations end at its entities.
Good(d) == d \in Erd!Diagrams /\ Erd!Sound(d)

\* The commands of the right types.
GoodCommands ==
    [type : {"updateNode", "addNode"}, id : Erd!Es, fields : Seq(Erd!Field)]
    \cup [type : {"updateEdge"}, id : Erd!Rs, is : {Erd!Conceptual} \cup Erd!Fk]
    \cup {c \in [type : {"addEdge"}, id : Erd!Rs, rel : Erd!Relation] :
            c.rel.card = "N:N" => c.id \in DOMAIN JoinOf}
    \cup [type : {"removeEdge"}, id : Erd!Rs]

\* What is known of a good diagram.
LEMMA GoodShaped ==
    ASSUME NEW d, Good(d)
    PROVE  /\ Shaped(d)
           /\ d.entities \in [Erd!Es -> Seq(Erd!Field) \cup {Absent}]
           /\ d.relations \in [Erd!Rs -> Erd!Relation \cup {Absent}]
           /\ \A e \in Erd!Es : e \in Erd!Here(d) <=> d.entities[e] \in Seq(Erd!Field)
           /\ \A r \in Erd!Rs : r \in Erd!Links(d) <=> d.relations[r] \in Erd!Relation
           /\ \A r \in Erd!Links(d) :
                /\ r \in Erd!Rs /\ d.relations[r] \in Erd!Relation
                /\ d.relations[r].source \in Erd!Here(d) /\
                     d.relations[r].target \in Erd!Here(d)
                /\ d.relations[r].card = "N:N" => r \in DOMAIN JoinOf
<1>1. PICK es, rs : /\ d = [entities |-> es, relations |-> rs]
                    /\ es \in [Erd!Es -> Seq(Erd!Field) \cup {Absent}]
                    /\ rs \in [Erd!Rs -> Erd!Relation \cup {Absent}]
  BY DEF Good, Erd!Diagrams
<1>2. d.entities = es /\ d.relations = rs
  BY <1>1
<1>3. Shaped(d)
  BY <1>1 DEF Shaped
<1>4. Absent \notin Seq(Erd!Field) /\ Absent \notin Erd!Relation
  BY ErdAssumption DEF Erd!ConstantsAssumption
<1>5. \A e \in Erd!Es : e \in Erd!Here(d) <=> d.entities[e] \in Seq(Erd!Field)
  BY <1>1, <1>2, <1>4 DEF Erd!Here
<1>6. \A r \in Erd!Rs : r \in Erd!Links(d) <=> d.relations[r] \in Erd!Relation
  BY <1>1, <1>2, <1>4 DEF Erd!Links
<1>7. \A r \in Erd!Links(d) :
        /\ r \in Erd!Rs /\ d.relations[r] \in Erd!Relation
        /\ d.relations[r].source \in Erd!Here(d) /\ d.relations[r].target \in Erd!Here(d)
        /\ d.relations[r].card = "N:N" => r \in DOMAIN JoinOf
  BY <1>6 DEF Good, Erd!Sound, Erd!Links
<1> QED
  BY <1>1, <1>2, <1>3, <1>5, <1>6, <1>7

\* What makes a diagram good.
LEMMA GoodByParts ==
    ASSUME NEW g, Shaped(g), g.entities \in [Erd!Es -> Seq(Erd!Field) \cup {Absent}],
           \A r \in Erd!Links(g) : /\ g.relations[r] \in Erd!Relation
                                   /\ g.relations[r].source \in Erd!Here(g)
                                   /\ g.relations[r].target \in Erd!Here(g)
                                   /\ g.relations[r].card = "N:N" => r \in DOMAIN JoinOf
    PROVE  Good(g)
<1>1. PICK es, rs : es = g.entities /\ rs = g.relations
  OBVIOUS
<1>2. ASSUME NEW r \in Erd!Rs
      PROVE  rs[r] \in Erd!Relation \cup {Absent}
  <2>1. CASE r \in Erd!Links(g)
    BY <1>1, <2>1
  <2>2. CASE r \notin Erd!Links(g)
    BY <1>1, <2>2 DEF Erd!Links
  <2> QED
    BY <2>1, <2>2
<1>3. rs \in [Erd!Rs -> Erd!Relation \cup {Absent}]
  BY <1>1, <1>2 DEF Shaped
<1>4. g = [entities |-> es, relations |-> rs]
  BY <1>1 DEF Shaped
<1>5. g \in Erd!Diagrams
  BY <1>1, <1>3, <1>4 DEF Erd!Diagrams
<1>6. Erd!Sound(g)
  <2>1. ASSUME NEW r \in Erd!Links(g)
        PROVE  /\ {g.relations[r].source, g.relations[r].target} \subseteq Erd!Here(g)
               /\ g.relations[r].card = "N:N" => r \in DOMAIN JoinOf
    OBVIOUS
  <2> QED
    BY <2>1 DEF Erd!Sound
<1> QED
  BY <1>5, <1>6 DEF Good

\* The types of what a command says.
LEMMA CommandTyped ==
    ASSUME NEW c \in GoodCommands
    PROVE  /\ c.type \in Types
           /\ c.type \in {"updateNode", "addNode"} => c.id \in Erd!Es /\
                c.fields \in Seq(Erd!Field)
           /\ c.type = "updateEdge" => c.id \in Erd!Rs /\ c.is \in {Erd!Conceptual} \cup Erd!Fk
           /\ c.type = "addEdge" => /\ c.id \in Erd!Rs /\ c.rel \in Erd!Relation
                                    /\ c.rel.card = "N:N" => c.id \in DOMAIN JoinOf
           /\ c.type = "removeEdge" => c.id \in Erd!Rs
  BY DEF GoodCommands, Types

\* What a relation is changes alone, and has its type.
LEMMA SayingTyped ==
    ASSUME NEW rel \in Erd!Relation, NEW is \in {Erd!Conceptual} \cup Erd!Fk
    PROVE  /\ Saying(rel, is) \in Erd!Relation /\ Saying(rel, is).source = rel.source
           /\ Saying(rel, is).target = rel.target /\ Saying(rel, is).card = rel.card
  BY DEF Saying, Erd!Relation

\* One relation changes, or goes.
LEMMA GoodWithRelation ==
    ASSUME NEW d, Good(d), NEW g, Shaped(g), g.entities = d.entities, NEW at, NEW rel,
           rel = Absent \/ (/\ rel \in Erd!Relation
                            /\ rel.source \in Erd!Here(d) /\ rel.target \in Erd!Here(d)
                            /\ rel.card = "N:N" => at \in DOMAIN JoinOf),
           \A r \in Erd!Rs : g.relations[r] = IF r = at THEN rel ELSE d.relations[r]
    PROVE  Good(g)
<1>1. Erd!Here(g) = Erd!Here(d) /\ g.entities \in [Erd!Es -> Seq(Erd!Field) \cup {Absent}]
  BY GoodShaped DEF Erd!Here
<1>2. ASSUME NEW r \in Erd!Links(g)
      PROVE  /\ g.relations[r] \in Erd!Relation
             /\ g.relations[r].source \in Erd!Here(g)
             /\ g.relations[r].target \in Erd!Here(g)
             /\ g.relations[r].card = "N:N" => r \in DOMAIN JoinOf
  <2>1. r \in Erd!Rs /\ g.relations[r] # Absent
    BY DEF Erd!Links
  <2>2. CASE r = at
    <3>1. g.relations[r] = rel /\ rel # Absent
      BY <2>1, <2>2
    <3>2. /\ rel \in Erd!Relation
          /\ rel.source \in Erd!Here(d) /\ rel.target \in Erd!Here(d)
          /\ rel.card = "N:N" => at \in DOMAIN JoinOf
      BY <3>1
    <3> QED
      BY <1>1, <2>2, <3>1, <3>2
  <2>3. CASE r # at
    <3>1. g.relations[r] = d.relations[r] /\ r \in Erd!Links(d)
      BY <2>1, <2>3 DEF Erd!Links
    <3> QED
      BY <1>1, <3>1, GoodShaped
  <2> QED
    BY <2>2, <2>3
<1> QED
  BY <1>1, <1>2, GoodByParts

\* A command of the right type keeps a diagram good, for it is refused where an end is missing.
LEMMA ApplyGood ==
    ASSUME NEW d, Good(d), NEW c \in GoodCommands
    PROVE  Good(Erd!Apply(d, c))
<1>1. PICK g : g = Erd!Apply(d, c)
  OBVIOUS
<1>2. Shaped(g) /\ Effect(g, d, c)
  BY <1>1, GoodShaped, CommandTyped, ApplyEffect DEF Types
<1>3. d.entities \in [Erd!Es -> Seq(Erd!Field) \cup {Absent}]
  BY GoodShaped
<1>4. CASE g.relations = d.relations /\ g.entities = d.entities
  <2>1. Erd!Here(g) = Erd!Here(d) /\ Erd!Links(g) = Erd!Links(d)
    BY <1>4 DEF Erd!Here, Erd!Links
  <2>2. Good(g)
    BY <1>2, <1>3, <1>4, <2>1, GoodShaped, GoodByParts
  <2> QED
    BY <1>1, <2>2
<1>5. CASE /\ g.relations = d.relations
           /\ c.type \in {"updateNode", "addNode"}
           /\ g.entities = Replaced(d.entities, c.id, c.fields)
  <2>1. c.id \in Erd!Es /\ c.fields \in Seq(Erd!Field)
    BY <1>5, CommandTyped
  <2>2. PICK w : w = Replaced(d.entities, c.id, c.fields)
    OBVIOUS
  <2>3. /\ w \in [Erd!Es -> Seq(Erd!Field) \cup {Absent}]
        /\ \A e \in Erd!Es : w[e] = IF e = c.id THEN c.fields ELSE d.entities[e]
    BY <1>3, <2>1, <2>2 DEF Replaced
  <2>4. c.fields # Absent
    BY <2>1, ErdAssumption DEF Erd!ConstantsAssumption
  <2>5. Erd!Here(d) \subseteq Erd!Here(g) /\ Erd!Links(g) = Erd!Links(d)
    BY <1>5, <2>2, <2>3, <2>4 DEF Erd!Here, Erd!Links
  <2>6. Good(g)
    BY <1>2, <1>5, <2>2, <2>3, <2>5, GoodShaped, GoodByParts
  <2> QED
    BY <1>1, <2>6
<1>6. ASSUME NEW rel, rel = Absent \/ (/\ rel \in Erd!Relation
                                       /\ rel.source \in Erd!Here(d) /\
                                            rel.target \in Erd!Here(d)
                                       /\ rel.card = "N:N" => c.id \in DOMAIN JoinOf),
             g.entities = d.entities,
             \A r \in Erd!Rs : g.relations[r] = IF r = c.id THEN rel ELSE d.relations[r]
      PROVE  Good(g)
  BY <1>2, <1>6, GoodWithRelation
<1>7. CASE /\ c.type = "updateEdge"
           /\ c.id \in Erd!Links(d)
           /\ g.entities = d.entities
           /\ \A r \in Erd!Rs : g.relations[r] = IF r = c.id THEN Saying(d.relations[r], c.is)
                                                 ELSE d.relations[r]
  <2>1. PICK was \in Erd!Relation : was = d.relations[c.id]
    BY <1>7, GoodShaped
  <2>2. PICK rel : rel = Saying(was, c.is)
    OBVIOUS
  <2>3. /\ was.source \in Erd!Here(d) /\ was.target \in Erd!Here(d)
        /\ was.card = "N:N" => c.id \in DOMAIN JoinOf
    BY <1>7, <2>1, GoodShaped
  <2>4. /\ rel \in Erd!Relation /\ rel.source = was.source /\ rel.target = was.target
        /\ rel.card = was.card
    BY <1>7, <2>2, CommandTyped, SayingTyped
  <2>5. \A r \in Erd!Rs : g.relations[r] = IF r = c.id THEN rel ELSE d.relations[r]
    BY <1>7, <2>1, <2>2
  <2> QED
    BY <1>1, <1>6, <1>7, <2>3, <2>4, <2>5
<1>8. CASE /\ c.type = "addEdge"
           /\ {c.rel.source, c.rel.target} \subseteq Erd!Here(d)
           /\ g.entities = d.entities
           /\ \A r \in Erd!Rs : g.relations[r] = IF r = c.id THEN c.rel ELSE d.relations[r]
  <2>1. c.rel \in Erd!Relation /\ (c.rel.card = "N:N" => c.id \in DOMAIN JoinOf)
    BY <1>8, CommandTyped
  <2> QED
    BY <1>1, <1>6, <1>8, <2>1
<1>9. CASE /\ g.entities = d.entities
           /\ \A r \in Erd!Rs : g.relations[r] = IF r = c.id THEN Absent ELSE d.relations[r]
  BY <1>1, <1>6, <1>9
<1> QED
  BY <1>2, <1>4, <1>5, <1>7, <1>8, <1>9 DEF Effect

\* And so do many.
LEMMA ApplyAllGood ==
    ASSUME NEW d, Good(d), NEW s \in Seq(GoodCommands)
    PROVE  Good(Erd!ApplyAll(d, s))
<1>1. PICK n \in Nat : Len(s) = n
  OBVIOUS
<1>2. PICK f : Passes(f, d, s, n) /\ Erd!ApplyAll(d, s) = f[n]
  BY <1>1, ApplyAllWay
<1> DEFINE S == {k \in 0 .. n : Good(f[k])}
<1>3. 0 \in S
  BY <1>1, <1>2 DEF Passes
<1>4. ASSUME NEW k \in 1 .. n, k - 1 \in S
      PROVE  k \in S
  <2>1. PICK c \in GoodCommands : c = s[k]
    BY <1>1
  <2>2. PICK h : h = f[k - 1]
    OBVIOUS
  <2>3. Good(Erd!Apply(h, c))
    BY <1>4, <2>2, ApplyGood
  <2>4. f[k] = Erd!Apply(h, c)
    BY <1>2, <2>1, <2>2 DEF Passes
  <2> QED
    BY <1>1, <2>3, <2>4
<1>5. n \in S
  <2> HIDE DEF S
  <2>1. Hereditary(S, n)
    BY <1>3, <1>4 DEF Hereditary
  <2> QED
    BY <1>1, <2>1, UpTo
<1> QED
  BY <1>2, <1>5

-----------------------------------------------------------------------------
(* New ids.                                                                *)

\* The values of a function on a finite set.
LEMMA ImageFinite ==
    ASSUME NEW S, IsFiniteSet(S), NEW f
    PROVE  IsFiniteSet({f[x] : x \in S})
<1>1. PICK T : T = {f[x] : x \in S}
  OBVIOUS
<1>2. PICK g : g = [x \in S |-> f[x]]
  OBVIOUS
<1>3. g \in Surjection(S, T)
  BY <1>1, <1>2 DEF Surjection
<1>4. IsFiniteSet(T)
  BY <1>3, FS_Surjection
<1> QED
  BY <1>1, <1>4

\* A list of fields has finitely many ids ...
LEMMA IdsFinite ==
    ASSUME NEW fields \in Seq(Erd!Field)
    PROVE  IsFiniteSet(Erd!IdsIn(fields)) /\ Erd!IdsIn(fields) \subseteq Erd!Ids
<1>1. PICK n \in Nat : Len(fields) = n
  OBVIOUS
<1>2. DOMAIN fields = 1 .. n /\ IsFiniteSet(1 .. n)
  BY <1>1, FS_Interval
<1>3. PICK f : f = [i \in 1 .. n |-> fields[i].id]
  OBVIOUS
<1>4. Erd!IdsIn(fields) = {f[i] : i \in 1 .. n}
  BY <1>2, <1>3 DEF Erd!IdsIn
<1>5. IsFiniteSet({f[i] : i \in 1 .. n})
  BY <1>2, ImageFinite
<1>6. \A i \in 1 .. n : fields[i] \in Erd!Field
  BY <1>1
<1>7. Erd!IdsIn(fields) \subseteq Erd!Ids
  BY <1>2, <1>6 DEF Erd!IdsIn, Erd!Field
<1> QED
  BY <1>4, <1>5, <1>7

\* ... and a sequence finitely many elements ...
LEMMA ElementsFinite ==
    ASSUME NEW S, NEW s \in Seq(S)
    PROVE  IsFiniteSet(Erd!Range(s))
<1>1. PICK n \in Nat : Len(s) = n
  OBVIOUS
<1>2. DOMAIN s = 1 .. n /\ IsFiniteSet(1 .. n)
  BY <1>1, FS_Interval
<1>3. Erd!Range(s) = {s[i] : i \in 1 .. n}
  BY <1>2 DEF Erd!Range
<1> QED
  BY <1>2, <1>3, ImageFinite

\* The ids of the fields, and those that foreign keys name.
FieldIds(d) == UNION {Erd!IdsIn(d.entities[e]) : e \in Erd!Here(d)}
NamedIds(d) == {d.relations[r].is.field : r \in {q \in Erd!Links(d) : Erd!IsFk(d.relations[q])}}

\* ... so that finitely many ids are in use ...
LEMMA UsedFinite ==
    ASSUME NEW d, Good(d)
    PROVE  IsFiniteSet(Erd!UsedIds(d))
<1>1. IsFiniteSet(Erd!Es) /\ IsFiniteSet(Erd!Rs)
  BY ErdAssumption, ElementsFinite DEF Erd!ConstantsAssumption, Erd!Es, Erd!Rs
<1>2. IsFiniteSet(Erd!Here(d)) /\ IsFiniteSet({r \in Erd!Links(d) : Erd!IsFk(d.relations[r])})
  BY <1>1, FS_Subset DEF Erd!Here, Erd!Links
<1>3. PICK f : f = [e \in Erd!Here(d) |-> Erd!IdsIn(d.entities[e])]
  OBVIOUS
<1>4. PICK U : U = {f[e] : e \in Erd!Here(d)}
  OBVIOUS
<1>5. IsFiniteSet(U)
  BY <1>2, <1>4, ImageFinite
<1>6. \A e \in Erd!Here(d) : d.entities[e] \in Seq(Erd!Field)
  BY GoodShaped DEF Erd!Here
<1>7. \A ids \in U : IsFiniteSet(ids)
  BY <1>3, <1>4, <1>6, IdsFinite
<1>8. IsFiniteSet(UNION U)
  BY <1>5, <1>7, FS_UNION
<1>9. PICK h : h = [r \in {q \in Erd!Links(d) :
      Erd!IsFk(d.relations[q])} |-> d.relations[r].is.field]
  OBVIOUS
<1>10. IsFiniteSet({h[r] : r \in {q \in Erd!Links(d) : Erd!IsFk(d.relations[q])}})
  BY <1>2, ImageFinite
<1>11. UNION U = FieldIds(d)
  BY <1>3, <1>4 DEF FieldIds
<1>12. {h[r] : r \in {q \in Erd!Links(d) : Erd!IsFk(d.relations[q])}} = NamedIds(d)
  BY <1>9 DEF NamedIds
<1>13. IsFiniteSet(FieldIds(d)) /\ IsFiniteSet(NamedIds(d))
  BY <1>8, <1>10, <1>11, <1>12
<1>14. Erd!UsedIds(d) = FieldIds(d) \cup NamedIds(d)
  BY Zenon DEF Erd!UsedIds, FieldIds, NamedIds
<1> QED
  BY <1>13, <1>14, FS_Union

\* ... and one of the next ones is not.
LEMMA FreshTyped ==
    ASSUME NEW d, Good(d), Good(diagram), NEW of \in Erd!Es \cup Erd!Rs
    PROVE  Erd!Fresh(d, of) \in Erd!Ids
<1>1. PICK used : used = Erd!UsedIds(d) \cup Erd!UsedIds(diagram)
  OBVIOUS
<1>2. IsFiniteSet(used)
  BY <1>1, UsedFinite, FS_Union
<1>3. PICK c \in Nat : c = Cardinality(used)
  BY <1>2, FS_CardinalityType
<1>4. PICK free : free = {n \in 1 .. c + 1 : [of |-> of, n |-> n] \notin used}
  OBVIOUS
<1>5. free # {}
  <2>1. SUFFICES ASSUME free = {} PROVE FALSE
    OBVIOUS
  <2>2. PICK S : S = 1 .. c + 1
    OBVIOUS
  <2>3. IsFiniteSet(S) /\ Cardinality(S) = c + 1
    BY <2>2, FS_Interval
  <2>4. Cardinality(used) < Cardinality(S)
    BY <1>3, <2>3
  <2>5. PICK f : f = [n \in S |-> [of |-> of, n |-> n]]
    OBVIOUS
  <2>6. f \in [S -> used]
    BY <1>4, <2>1, <2>2, <2>5
  <2>7. PICK x \in S, y \in S : x # y /\ f[x] = f[y]
    BY <1>2, <2>3, <2>4, <2>6, FS_PigeonHole
  <2>8. [of |-> of, n |-> x] = [of |-> of, n |-> y]
    BY <2>5, <2>7
  <2> QED
    BY <2>7, <2>8
<1>6. free \subseteq Nat
  BY <1>3, <1>4
<1>7. PICK least \in free : \A n \in free : least <= n
  BY <1>5, <1>6, LeastElement
<1>8. Erd!Min(free) \in Nat
  BY <1>6, <1>7 DEF Erd!Min
<1>9. Erd!Fresh(d, of) = [of |-> of, n |-> Erd!Min(free)]
  BY <1>1, <1>3, <1>4, SameCardinality DEF Erd!Fresh
<1> QED
  BY <1>8, <1>9 DEF Erd!Ids

-----------------------------------------------------------------------------
(* What repairs and edits say has its type.                                *)

\* What a field is made of.
LEMMA FieldIs ==
    ASSUME NEW f \in Erd!Field
    PROVE  \E id \in Erd!Ids, name \in Erd!Es
          \cup {Absent}, flags \in SUBSET {"PK", "FK", "UQ"},
              ref \in Erd!Es \cup {Absent}, by \in Erd!Rs \cup {Absent} :
             f = [id |-> id, name |-> name, flags |-> flags, references |-> ref, by |-> by]
  BY DEF Erd!Field

\* A field that becomes a foreign key.
LEMMA FieldLinked ==
    ASSUME NEW f \in Erd!Field, NEW ref \in Erd!Es, NEW r \in Erd!Rs,
          NEW more \in SUBSET {"PK", "FK", "UQ"}
    PROVE  /\ [f EXCEPT !.references = ref, !.by = r, !.flags = @ \cup more] \in Erd!Field
           /\ [f EXCEPT !.references = ref, !.by = r, !.flags = @ \cup more].id \in Erd!Ids
<1>1. PICK id \in Erd!Ids, name \in Erd!Es \cup {Absent}, flags \in SUBSET {"PK", "FK", "UQ"},
           was \in Erd!Es \cup {Absent}, by \in Erd!Rs \cup {Absent} :
        f = [id |-> id, name |-> name, flags |-> flags, references |-> was, by |-> by]
  BY FieldIs
<1>2. PICK g : g = [id |-> id, name |-> name, flags |-> flags \cup more,
                    references |-> ref, by |-> r]
  OBVIOUS
<1>3. [f EXCEPT !.references = ref, !.by = r, !.flags = @ \cup more] = g
  <2>1. PICK left : left = [f EXCEPT !.references = ref]
    OBVIOUS
  <2>2. left = [id |-> id, name |-> name, flags |-> flags, references |-> ref, by |-> by]
    BY <1>1, <2>1
  <2>3. PICK first : first = [left EXCEPT !.by = r]
    OBVIOUS
  <2>4. first = [id |-> id, name |-> name, flags |-> flags, references |-> ref, by |-> r]
    BY <2>2, <2>3
  <2>5. PICK c : c = [first EXCEPT !.flags = @ \cup more]
    OBVIOUS
  <2>6. c = g
    BY <1>2, <2>4, <2>5
  <2> QED
    BY <2>1, <2>3, <2>5, <2>6
<1>4. g \in Erd!Field /\ g.id \in Erd!Ids
  BY <1>2 DEF Erd!Field
<1> QED
  BY <1>3, <1>4

\* A field with other flags.
LEMMA FieldFlagged ==
    ASSUME NEW f \in Erd!Field, NEW flags \in SUBSET {"PK", "FK", "UQ"}
    PROVE  [f EXCEPT !.flags = flags] \in Erd!Field
<1>1. PICK id \in Erd!Ids, name \in Erd!Es \cup {Absent}, fs \in SUBSET {"PK", "FK", "UQ"},
           was \in Erd!Es \cup {Absent}, by \in Erd!Rs \cup {Absent} :
        f = [id |-> id, name |-> name, flags |-> fs, references |-> was, by |-> by]
  BY FieldIs
<1>2. [f EXCEPT !.flags = flags]
        = [id |-> id, name |-> name, flags |-> flags, references |-> was, by |-> by]
  BY <1>1
<1> QED
  BY <1>2, FieldTyped

\* A list of fields, one replaced ...
LEMMA ReplaceTyped ==
    ASSUME NEW fields \in Seq(Erd!Field), NEW f \in Erd!Field
    PROVE  Erd!ReplaceById(fields, f) \in Seq(Erd!Field)
<1>1. PICK n \in Nat : Len(fields) = n
  OBVIOUS
<1>2. DOMAIN fields = 1 .. n /\ \A i \in 1 .. n : fields[i] \in Erd!Field
  BY <1>1
<1>3. Erd!ReplaceById(fields, f) \in [1 .. n -> Erd!Field]
  BY <1>2 DEF Erd!ReplaceById
<1> QED
  BY <1>3

\* ... or one more.
LEMMA AppendTyped ==
    ASSUME NEW fields \in Seq(Erd!Field), NEW f \in Erd!Field
    PROVE  Append(fields, f) \in Seq(Erd!Field)
  BY AppendProperties

\* A field that is found is in the list.
LEMMA ExistingIn ==
    ASSUME NEW fields, NEW e, Erd!Existing(fields, e) # 0
    PROVE  Erd!Existing(fields, e) \in 1 .. Len(fields)
<1>1. PICK I : I = {i \in 1 .. Len(fields) : fields[i].references = e \/ fields[i].name = e}
  OBVIOUS
<1>2. Erd!Existing(fields, e) = IF I # {} THEN Erd!Min(I) ELSE 0
  BY <1>1 DEF Erd!Existing, Erd!SelectInSeq
<1>3. I # {} => Erd!Min(I) \in I
  <2>1. SUFFICES ASSUME I # {} PROVE Erd!Min(I) \in I
    OBVIOUS
  <2>2. I \subseteq Nat
    BY <1>1
  <2>3. PICK m \in I : \A k \in I : m <= k
    BY <2>1, <2>2, LeastElement
  <2> QED
    BY <2>3 DEF Erd!Min
<1> QED
  BY <1>1, <1>2, <1>3

\* A command of its type.
LEMMA PutFieldsTyped ==
    ASSUME NEW e \in Erd!Es, NEW fields \in Seq(Erd!Field)
    PROVE  Erd!PutFields(e, fields) \in GoodCommands
  BY DEF Erd!PutFields, GoodCommands

\* The same, of a relation ...
LEMMA PutRelationTyped ==
    ASSUME NEW r \in Erd!Rs, NEW is \in {Erd!Conceptual} \cup Erd!Fk
    PROVE  Erd!PutRelation(r, is) \in GoodCommands
  BY DEF Erd!PutRelation, GoodCommands

\* ... and of a new one.
LEMMA AddRelationTyped ==
    ASSUME NEW r \in Erd!Rs, NEW rel \in Erd!Relation, rel.card = "N:N" => r \in DOMAIN JoinOf
    PROVE  Erd!AddRelation(r, rel) \in GoodCommands
<1>1. PICK c : c = Erd!AddRelation(r, rel)
  OBVIOUS
<1>2. c \in [type : {"addEdge"}, id : Erd!Rs, rel : Erd!Relation] /\ c.rel = rel /\ c.id = r
  BY <1>1 DEF Erd!AddRelation
<1> QED
  BY <1>1, <1>2 DEF GoodCommands

\* One command ...
LEMMA OneTyped ==
    ASSUME NEW c \in GoodCommands
    PROVE  <<c>> \in Seq(GoodCommands)
  OBVIOUS

\* ... or two.
LEMMA PairTyped ==
    ASSUME NEW first \in GoodCommands, NEW c \in GoodCommands
    PROVE  <<first, c>> \in Seq(GoodCommands)
  OBVIOUS

\* A new foreign key.
LEMMA AsFkTyped ==
    ASSUME NEW rel, rel.source \in Erd!Es, rel.target \in Erd!Es, NEW side \in Erd!Sides,
          NEW id \in Erd!Ids,
           NEW unique \in BOOLEAN
    PROVE  Erd!AsFk(rel, side, id, unique) \in Erd!Fk
<1>1. Erd!EntityAt(rel, side) \in Erd!Es /\ Erd!EntityAt(rel, Erd!Other(side)) \in Erd!Es
  BY DEF Erd!EntityAt
<1> QED
  BY <1>1 DEF Erd!AsFk, Erd!Fk

\* The repairs say what has its type: a foreign key ...
LEMMA MaterializeTyped ==
    ASSUME NEW d, Good(d), Good(diagram), NEW r \in Erd!Rs, NEW rel, NEW side \in Erd!Sides,
           rel.source \in Erd!Here(d), rel.target \in Erd!Here(d)
    PROVE  Erd!MaterializeFix(d, r, rel, side) \in Seq(GoodCommands)
<1>1. PICK e, ref : e = Erd!EntityAt(rel, side) /\ ref = Erd!EntityAt(rel, Erd!Other(side))
  OBVIOUS
<1>2. e \in Erd!Here(d) /\ ref \in Erd!Here(d) /\ Erd!Here(d) \subseteq Erd!Es
  BY <1>1, Es_Rs_Drawn DEF Erd!EntityAt
<1>3. PICK fields \in Seq(Erd!Field) : fields = d.entities[e]
  BY <1>2, GoodShaped
<1>4. PICK at : at = Erd!Existing(fields, ref)
  OBVIOUS
<1>5. PICK one \in BOOLEAN : one = (rel.card = "1:1")
  OBVIOUS
<1>6. PICK more : more = {"FK"} \cup IF one THEN {"UQ"} ELSE {}
  OBVIOUS
<1>7. more \in SUBSET {"PK", "FK", "UQ"}
  BY <1>6
<1>8. PICK f : f = IF at # 0
                     THEN [fields[at] EXCEPT !.references = ref, !.by = r, !.flags = @
                           \cup more]
                     ELSE [id |-> Erd!Fresh(d, r), name |-> ref, flags |-> {"FK"},
                           references |-> ref, by |-> r]
  OBVIOUS
<1>9. f \in Erd!Field /\ f.id \in Erd!Ids
  <2>1. CASE at # 0
    <3>1. fields[at] \in Erd!Field
      BY <1>3, <1>4, <2>1, ExistingIn
    <3> QED
      BY <1>2, <1>7, <1>8, <2>1, <3>1, FieldLinked
  <2>2. CASE at = 0
    <3>1. PICK id \in Erd!Ids : id = Erd!Fresh(d, r)
      BY FreshTyped
    <3>2. [id |-> id, name |-> ref, flags |-> {"FK"}, references |-> ref,
          by |-> r] \in Erd!Field
      BY <1>2, FieldTyped
    <3> QED
      BY <1>8, <2>2, <3>1, <3>2 DEF Erd!Field
  <2> QED
    BY <2>1, <2>2
<1>10. PICK new : new = IF at # 0 THEN Erd!ReplaceById(fields, f) ELSE Append(fields, f)
  OBVIOUS
<1>11. new \in Seq(Erd!Field)
  BY <1>9, <1>10, ReplaceTyped, AppendTyped
<1>12. PICK is : is = Erd!AsFk(rel, side, f.id, one)
  OBVIOUS
<1>13. is \in Erd!Fk
  BY <1>2, <1>9, <1>12, AsFkTyped
<1>14. Erd!MaterializeFix(d, r, rel, side) = <<Erd!PutFields(e, new), Erd!PutRelation(r, is)>>
  BY <1>1, <1>3, <1>4, <1>5, <1>6, <1>8, <1>10, <1>12 DEF Erd!MaterializeFix
<1>15. Erd!PutFields(e, new) \in GoodCommands /\ Erd!PutRelation(r, is) \in GoodCommands
  BY <1>2, <1>11, <1>13, PutFieldsTyped, PutRelationTyped
<1> QED
  BY <1>14, <1>15, PairTyped

\* Where the field with an id is.
AtId(fields, id) == Erd!SelectInSeq(fields, LAMBDA f : f.id = id)

\* A field that is found is in the list.
LEMMA AtIdIn ==
    ASSUME NEW fields, NEW id, AtId(fields, id) # 0
    PROVE  AtId(fields, id) \in 1 .. Len(fields)
<1>1. PICK I : I = {i \in 1 .. Len(fields) : fields[i].id = id}
  OBVIOUS
<1>2. AtId(fields, id) = IF I # {} THEN Erd!Min(I) ELSE 0
  BY <1>1 DEF AtId, Erd!SelectInSeq
<1>3. I # {} => Erd!Min(I) \in I
  <2>1. SUFFICES ASSUME I # {} PROVE Erd!Min(I) \in I
    OBVIOUS
  <2>2. I \subseteq Nat
    BY <1>1
  <2>3. PICK m \in I : \A k \in I : m <= k
    BY <2>1, <2>2, LeastElement
  <2> QED
    BY <2>3 DEF Erd!Min
<1> QED
  BY <1>1, <1>2, <1>3

\* Or none.
LEMMA NoneTyped == <<>> \in Seq(GoodCommands)
  OBVIOUS

\* A field, and a foreign key, that become UNIQUE.
FieldUnique(f) == [f EXCEPT !.flags = @ \cup {"UQ"}]
SaysUnique(is) == [is EXCEPT !.unique = TRUE]

\* The two commands of UNIQUE, or none.
LEMMA UniqueSays ==
    ASSUME NEW d, NEW r
    PROVE  \E rel, e, fields, at, f :
             /\ rel = d.relations[r]
             /\ e = Erd!EntityAt(rel, rel.is.side)
             /\ fields = d.entities[e]
             /\ at = AtId(fields, rel.is.field)
             /\ f = FieldUnique(fields[at])
             /\ \/ Erd!UniqueFix(d, r) = <<>>
                \/ /\ Erd!IsFk(rel) /\ at # 0
                   /\ Erd!UniqueFix(d, r) = <<Erd!PutFields(e, Erd!ReplaceById(fields, f)),
                                               Erd!PutRelation(r, SaysUnique(rel.is))>>
<1> DEFINE rel == d.relations[r]
           e == Erd!EntityAt(rel, rel.is.side)
           fields == d.entities[e]
           at == AtId(fields, rel.is.field)
           f == FieldUnique(fields[at])
           fix == <<Erd!PutFields(e, Erd!ReplaceById(fields, f)),
                    Erd!PutRelation(r, SaysUnique(rel.is))>>
<1>1. Erd!UniqueFix(d, r)
        = IF rel.card # "1:1" \/ ~Erd!IsFk(rel) \/ at = 0 \/ "UQ" \in fields[at].flags
            THEN <<>> ELSE fix
  BY DEF Erd!UniqueFix, AtId, FieldUnique, SaysUnique
<1> HIDE DEF rel, fix
<1>2. \/ Erd!UniqueFix(d, r) = <<>>
      \/ Erd!IsFk(rel) /\ at # 0 /\ Erd!UniqueFix(d, r) = fix
  BY <1>1
<1> QED
  BY <1>2, Zenon DEF rel, fix

\* ... UNIQUE ...
LEMMA UniqueTyped ==
    ASSUME NEW d, Good(d), NEW r \in Erd!Links(d)
    PROVE  Erd!UniqueFix(d, r) \in Seq(GoodCommands)
<1>1. PICK rel, e, fields, at, f :
        /\ rel = d.relations[r]
        /\ e = Erd!EntityAt(rel, rel.is.side)
        /\ fields = d.entities[e]
        /\ at = AtId(fields, rel.is.field)
        /\ f = FieldUnique(fields[at])
        /\ \/ Erd!UniqueFix(d, r) = <<>>
           \/ /\ Erd!IsFk(rel) /\ at # 0
              /\ Erd!UniqueFix(d, r) = <<Erd!PutFields(e, Erd!ReplaceById(fields, f)),
                                          Erd!PutRelation(r, SaysUnique(rel.is))>>
  BY UniqueSays
<1>2. /\ rel \in Erd!Relation /\ r \in Erd!Rs
      /\ rel.source \in Erd!Here(d) /\ rel.target \in Erd!Here(d) /\
           Erd!Here(d) \subseteq Erd!Es
  BY <1>1, GoodShaped, Es_Rs_Drawn
<1>3. PICK is : is = SaysUnique(rel.is)
  OBVIOUS
<1>4. e \in Erd!Here(d) /\ e \in Erd!Es
  BY <1>1, <1>2 DEF Erd!EntityAt
<1>5. fields \in Seq(Erd!Field)
  BY <1>1, <1>4, GoodShaped
<1>8. CASE Erd!UniqueFix(d, r) = <<>>
  BY <1>8, NoneTyped
<1>9. CASE Erd!UniqueFix(d, r) # <<>>
  <2>1. /\ Erd!UniqueFix(d, r) = <<Erd!PutFields(e, Erd!ReplaceById(fields, f)),
             Erd!PutRelation(r, is)>>
        /\ Erd!IsFk(rel) /\ at # 0
    BY <1>1, <1>3, <1>9
  <2>2. fields[at] \in Erd!Field
    <3>1. at \in 1 .. Len(fields)
      BY <1>1, <2>1, AtIdIn
    <3> QED
      BY <1>5, <3>1
  <2>3. f \in Erd!Field
    <3>1. PICK flags : flags = fields[at].flags \cup {"UQ"}
      OBVIOUS
    <3>2. flags \in SUBSET {"PK", "FK", "UQ"}
      BY <2>2, <3>1 DEF Erd!Field
    <3>3. f = [fields[at] EXCEPT !.flags = flags]
      BY <1>1, <3>1 DEF FieldUnique
    <3> QED
      BY <2>2, <3>2, <3>3, FieldFlagged
  <2>4. rel.is \in Erd!Fk
    BY <1>2, <2>1 DEF Erd!Relation, Erd!IsFk, Erd!Conceptual
  <2>5. is \in Erd!Fk
    BY <1>3, <2>4 DEF Erd!Fk, SaysUnique
  <2>6. /\ Erd!PutFields(e, Erd!ReplaceById(fields, f)) \in GoodCommands
        /\ Erd!PutRelation(r, is) \in GoodCommands
    BY <1>2, <1>4, <1>5, <2>3, <2>5, ReplaceTyped, PutFieldsTyped, PutRelationTyped
  <2> QED
    BY <2>1, <2>6, PairTyped
<1> QED
  BY <1>8, <1>9

\* ... a primary key ...
LEMMA MissingPkTyped ==
    ASSUME NEW d, Good(d), NEW e \in Erd!Here(d)
    PROVE  Erd!MissingPkFix(d, e) \in Seq(GoodCommands)
<1>1. e \in Erd!Es /\ d.entities[e] \in Seq(Erd!Field)
  BY GoodShaped, Es_Rs_Drawn
<1>2. PICK id \in Erd!Ids : id = [of |-> e, n |-> 0]
  BY <1>1 DEF Erd!Ids
<1>3. PICK f : f = [id |-> id, name |-> Absent, flags |-> {"PK"}, references |-> Absent,
      by |-> Absent]
  OBVIOUS
<1>4. f \in Erd!Field
  BY <1>3, FieldTyped
<1>5. Erd!PutFields(e, Append(d.entities[e], f)) \in GoodCommands
  BY <1>1, <1>4, AppendTyped, PutFieldsTyped
<1>6. Erd!MissingPkFix(d, e) = <<Erd!PutFields(e, Append(d.entities[e], f))>>
  BY <1>2, <1>3 DEF Erd!MissingPkFix
<1> QED
  BY <1>5, <1>6, OneTyped

\* ... the halves ...
LEMMA HalfTyped ==
    ASSUME NEW j \in Erd!Es, NEW id \in Erd!Ids, NEW e \in Erd!Es
    PROVE  HalfOf(j, id, e) \in Erd!Relation /\ HalfOf(j, id, e).card # "N:N"
<1>1. PICK is : is = [mode |-> "fk", side |-> "target", dependent |-> j,
                      field |-> id, references |-> e, unique |-> FALSE]
  OBVIOUS
<1>2. is \in Erd!Fk
  BY <1>1 DEF Erd!Fk, Erd!Sides
<1>3. PICK h : h = [source |-> e, target |-> j, card |-> "1:N", is |-> is]
  OBVIOUS
<1>4. h \in Erd!Relation /\ h.card = "1:N"
  BY <1>2, <1>3 DEF Erd!Relation, Erd!Cards, Erd!Presets
<1> QED
  BY <1>1, <1>3, <1>4 DEF HalfOf

\* ... of a conversion ...
LEMMA AssociativeTyped ==
    ASSUME NEW r \in DOMAIN JoinOf, NEW rel, rel.source \in Erd!Es, rel.target \in Erd!Es
    PROVE  Erd!AssociativeFix(r, rel) \in Seq(GoodCommands)
<1>1. r \in Erd!Rs /\ JoinOf[r] \in Erd!Es /\ HalvesOf[r][1] \in Erd!Rs /\
      HalvesOf[r][2] \in Erd!Rs
  BY ErdAssumption DEF Erd!ConstantsAssumption
<1>2. PICK p, one1, one2 :
        /\ Erd!AssociativeFix(r, rel)
             = <<Erd!AddEntity(JoinOf[r], p), Erd!DropRelation(r),
                 Erd!AddRelation(HalvesOf[r][1], one1), Erd!AddRelation(HalvesOf[r][2], one2)>>
        /\ one1 = HalfOf(JoinOf[r], [of |-> r, n |-> 1], rel.source)
        /\ one2 = HalfOf(JoinOf[r], [of |-> r, n |-> 2], rel.target)
        /\ p \in Seq(Erd!Field)
  BY <1>1, AssociativeSays
<1>3. PICK id1 \in Erd!Ids, id2 \in Erd!Ids :
      id1 = [of |-> r, n |-> 1] /\ id2 = [of |-> r, n |-> 2]
  BY <1>1 DEF Erd!Ids
<1>4. one1 \in Erd!Relation /\ one2 \in Erd!Relation /\ one1.card # "N:N" /\ one2.card # "N:N"
  BY <1>1, <1>2, <1>3, HalfTyped
<1>5. /\ Erd!AddEntity(JoinOf[r], p) \in GoodCommands
      /\ Erd!DropRelation(r) \in GoodCommands
  BY <1>1, <1>2 DEF Erd!AddEntity, Erd!DropRelation, GoodCommands
<1>6. /\ Erd!AddRelation(HalvesOf[r][1], one1) \in GoodCommands
      /\ Erd!AddRelation(HalvesOf[r][2], one2) \in GoodCommands
  BY <1>1, <1>4, AddRelationTyped
<1>7. PICK c1 \in GoodCommands, c2 \in GoodCommands, c3 \in GoodCommands, c4 \in GoodCommands :
        Erd!AssociativeFix(r, rel) = <<c1, c2, c3, c4>>
  BY <1>2, <1>5, <1>6
<1> QED
  BY <1>7

\* ... so that every repair that is offered does ...
LEMMA FixOfTyped ==
    ASSUME NEW d, Good(d), Good(diagram), NEW x \in Erd!Diagnostics(d)
    PROVE  Erd!FixOf(d, x) \in Seq(GoodCommands)
<1>1. \A r \in Erd!Links(d) : d.relations[r].card = "N:N" => r \in DOMAIN JoinOf
  BY DEF Good, Erd!Sound
<1>2. CASE x.code = "MISSING_PK"
  <2>1. x.of \in Erd!Here(d)
    BY <1>1, <1>2, WhatIsRepaired
  <2> QED
    BY <1>2, <2>1, MissingPkTyped DEF Erd!FixOf
<1>3. ASSUME x.code \in {"1N_MISSING_FK", "11_MISSING_UNIQUE", "NN"}
      PROVE  /\ x.of \in Erd!Links(d) /\ x.of \in Erd!Rs
             /\ d.relations[x.of].source \in Erd!Here(d) /\
                  d.relations[x.of].target \in Erd!Here(d)
             /\ d.relations[x.of].source \in Erd!Es /\ d.relations[x.of].target \in Erd!Es
  <2>1. PICK r \in Erd!Links(d) : r = x.of
    BY <1>1, <1>3, WhatIsRepaired
  <2>2. r \in Erd!Rs /\ d.relations[r].source \in Erd!Here(d) /\
        d.relations[r].target \in Erd!Here(d)
    BY GoodShaped
  <2> QED
    BY <2>1, <2>2, Es_Rs_Drawn
<1>4. CASE x.code = "1N_MISSING_FK"
  <2>1. PICK side : side = Erd!Dependent(d, d.relations[x.of])
    OBVIOUS
  <2>2. side \in Erd!Sides
    BY <2>1 DEF Erd!Dependent, Erd!Sides
  <2>3. Erd!MaterializeFix(d, x.of, d.relations[x.of], side) \in Seq(GoodCommands)
    BY <1>3, <1>4, <2>2, MaterializeTyped
  <2> QED
    BY <1>4, <2>1, <2>3 DEF Erd!FixOf
<1>5. CASE x.code = "11_MISSING_UNIQUE"
  <2>1. Erd!UniqueFix(d, x.of) \in Seq(GoodCommands)
    BY <1>3, <1>5, UniqueTyped
  <2> QED
    BY <1>5, <2>1 DEF Erd!FixOf
<1>6. CASE x.code = "NN"
  <2>1. x.of \in DOMAIN JoinOf
    BY <1>1, <1>6, WhatIsRepaired
  <2>2. Erd!AssociativeFix(x.of, d.relations[x.of]) \in Seq(GoodCommands)
    BY <1>3, <1>6, <2>1, AssociativeTyped
  <2> QED
    BY <1>6, <2>2 DEF Erd!FixOf
<1>7. CASE x.code \notin {"MISSING_PK", "1N_MISSING_FK", "11_MISSING_UNIQUE", "NN"}
  BY <1>7, NoneTyped DEF Erd!FixOf
<1> QED
  BY <1>2, <1>4, <1>5, <1>6, <1>7

\* ... or none ...
LEMMA FixesOfTyped ==
    ASSUME NEW d, Good(d), Good(diagram), NEW of
    PROVE  Erd!FixesOf(d, of) \in Seq(GoodCommands)
<1>1. CASE Erd!FixesOf(d, of) = <<>>
  BY <1>1, NoneTyped
<1>2. CASE Erd!FixesOf(d, of) # <<>>
  <2>1. of \in Erd!Here(d) \cup Erd!Links(d) /\ \E x \in Erd!DiagnosticsOf(d, of) :
        Erd!FixesOf(d, of) = Erd!FixOf(d, x)
    BY <1>2 DEF Erd!FixesOf
  <2>2. PICK x \in Erd!Diagnostics(d) : Erd!FixesOf(d, of) = Erd!FixOf(d, x)
    BY <2>1 DEF Erd!Diagnostics
  <2> QED
    BY <2>2, FixOfTyped
<1> QED
  BY <1>1, <1>2

\* ... and all of them together.
LEMMA BatchTyped ==
    ASSUME NEW d, Good(d), Good(diagram)
    PROVE  Erd!Batch(d) \in Seq(GoodCommands)
<1>1. ASSUME NEW of
      PROVE  /\ Erd!FixesOf(d, of) \in Seq(Erd!Range(Erd!FixesOf(d, of)))
             /\ Erd!Range(Erd!FixesOf(d, of)) \subseteq GoodCommands
  <2>1. PICK s : s = Erd!FixesOf(d, of)
    OBVIOUS
  <2>2. s \in Seq(GoodCommands)
    BY <2>1, FixesOfTyped
  <2>3. s \in Seq(Erd!Range(s)) /\ Erd!Range(s) \subseteq GoodCommands
    BY <2>2 DEF Erd!Range
  <2> QED
    BY <2>1, <2>3
<1>2. Erd!Batch(d) \in Seq(Parts(d))
  BY <1>1, BatchRange
<1>3. Parts(d) \subseteq GoodCommands
  BY <1>1 DEF Parts
<1> QED
  BY <1>2, <1>3

-----------------------------------------------------------------------------
(* What is changed by hand has its type.                                   *)

\* The fields but those with the id.
Leaves(f, s, id, n) ==
    f = [k \in 0 .. n |->
           IF k = 0 THEN <<>>
           ELSE IF s[k].id = id THEN f[k - 1] ELSE Append(f[k - 1], s[k])]

\* Some fields less ...
LEMMA WithoutTyped ==
    ASSUME NEW s \in Seq(Erd!Field), NEW id
    PROVE  Erd!Without(s, id) \in Seq(Erd!Field)
<1>1. PICK n \in Nat : Len(s) = n
  OBVIOUS
<1>2. \A k \in 1 .. n : s[k] \in Erd!Field
  BY <1>1
<1> DEFINE Put(t, c) == IF c.id = id THEN t ELSE Append(t, c)
<1>3. ASSUME NEW t \in Seq(Erd!Field), NEW c \in Erd!Field
      PROVE  Put(t, c) \in Seq(Erd!Field)
  BY AppendTyped
<1>4. PICK F : F = [p \in Seq(Erd!Field) \X (1 .. n) |-> Put(p[1], s[p[2]])]
  OBVIOUS
<1>5. ASSUME NEW t \in Seq(Erd!Field), NEW k \in 1 .. n
      PROVE  F[<<t, k>>] = Put(t, s[k])
  BY <1>4
<1>6. F \in [Seq(Erd!Field) \X (1 .. n) -> Seq(Erd!Field)]
  <2>1. ASSUME NEW p \in Seq(Erd!Field) \X (1 .. n)
        PROVE  Put(p[1], s[p[2]]) \in Seq(Erd!Field)
    <3>1. p[1] \in Seq(Erd!Field) /\ s[p[2]] \in Erd!Field
      BY <1>2
    <3> QED
      BY <1>3, <3>1
  <2> QED
    BY <1>4, <2>1
<1>7. PICK U, first : U = Seq(Erd!Field) /\ first = <<>>
  OBVIOUS
<1>8. PICK f \in [0 .. n -> U] : Follows(f, n, first, F)
  <2>1. F \in [U \X (1 .. n) -> U] /\ first \in U /\ n \in Nat
    BY <1>1, <1>6, <1>7
  <2> QED
    BY <2>1, Iterates
<1>9. ASSUME NEW k \in 0 .. n
      PROVE  f[k] = IF k = 0 THEN <<>> ELSE Put(f[k - 1], s[k])
  <2>1. CASE k = 0
    BY <1>7, <1>8, <2>1 DEF Follows
  <2>2. CASE k # 0
    <3>1. k \in 1 .. n /\ k - 1 \in 0 .. n
      BY <1>1, <2>2
    <3>2. f[k - 1] \in Seq(Erd!Field) /\ f[k] = F[<<f[k - 1], k>>]
      BY <1>7, <1>8, <2>2, <3>1 DEF Follows
    <3> QED
      BY <1>5, <2>2, <3>1, <3>2
  <2> QED
    BY <2>1, <2>2
<1>10. Leaves(f, s, id, n)
  <2>1. f = [k \in 0 .. n |-> f[k]]
    BY <1>8
  <2> QED
    BY <1>9, <2>1 DEF Leaves
<1>11. PICK h : h = CHOOSE any : Leaves(any, s, id, n)
  OBVIOUS
<1>12. Leaves(h, s, id, n)
  BY <1>10, <1>11
<1>13. Erd!Without(s, id) = h[n]
  BY <1>1, <1>11 DEF Erd!Without, Leaves
<1>14. \A k \in 0 .. n : h[k] = IF k = 0 THEN <<>> ELSE Put(h[k - 1], s[k])
  BY <1>12 DEF Leaves
<1> DEFINE S == {k \in 0 .. n : h[k] \in Seq(Erd!Field)}
<1>15. 0 \in S
  <2>1. h[0] = <<>>
    BY <1>1, <1>14
  <2>2. <<>> \in Seq(Erd!Field)
    OBVIOUS
  <2> QED
    BY <1>1, <2>1, <2>2
<1>16. ASSUME NEW k \in 1 .. n, k - 1 \in S
       PROVE  k \in S
  <2>1. h[k] = Put(h[k - 1], s[k])
    BY <1>14
  <2> QED
    BY <1>2, <1>3, <1>16, <2>1
<1>17. n \in S
  <2> HIDE DEF S
  <2>1. Hereditary(S, n)
    BY <1>15, <1>16 DEF Hereditary
  <2> QED
    BY <1>1, <2>1, UpTo
<1> QED
  BY <1>13, <1>17

\* ... one with another name ...
LEMMA FieldNamed ==
    ASSUME NEW f \in Erd!Field, NEW name \in Erd!Es \cup {Absent}
    PROVE  [f EXCEPT !.name = name] \in Erd!Field
<1>1. PICK id \in Erd!Ids, was \in Erd!Es \cup {Absent}, flags \in SUBSET {"PK", "FK", "UQ"},
           ref \in Erd!Es \cup {Absent}, by \in Erd!Rs \cup {Absent} :
        f = [id |-> id, name |-> was, flags |-> flags, references |-> ref, by |-> by]
  BY FieldIs
<1>2. [f EXCEPT !.name = name]
        = [id |-> id, name |-> name, flags |-> flags, references |-> ref, by |-> by]
  BY <1>1
<1> QED
  BY <1>2, FieldTyped

\* ... or with a flag more or less.
LEMMA ToggledTyped ==
    ASSUME NEW fields \in Seq(Erd!Field), NEW id, NEW flag \in {"PK", "FK", "UQ"}
    PROVE  [i \in DOMAIN fields |->
              IF fields[i].id = id
                THEN [fields[i] EXCEPT !.flags = Erd!SymDiff(@, {flag})]
                ELSE fields[i]] \in Seq(Erd!Field)
<1>1. PICK n \in Nat : Len(fields) = n
  OBVIOUS
<1>2. DOMAIN fields = 1 .. n /\ \A i \in 1 .. n : fields[i] \in Erd!Field
  BY <1>1
<1>3. PICK new : new = [i \in DOMAIN fields |->
                          IF fields[i].id = id
                            THEN [fields[i] EXCEPT !.flags = Erd!SymDiff(@, {flag})]
                            ELSE fields[i]]
  OBVIOUS
<1>4. ASSUME NEW i \in 1 .. n
      PROVE  new[i] \in Erd!Field
  <2>1. PICK f \in Erd!Field : f = fields[i]
    BY <1>2
  <2>2. PICK flags : flags = Erd!SymDiff(f.flags, {flag})
    OBVIOUS
  <2>3. flags \in SUBSET {"PK", "FK", "UQ"}
    BY <2>1, <2>2 DEF Erd!SymDiff, Erd!Field
  <2>4. [f EXCEPT !.flags = flags] \in Erd!Field
    BY <2>3, FieldFlagged
  <2>5. new[i] = IF f.id = id THEN [f EXCEPT !.flags = flags] ELSE f
    BY <1>2, <1>3, <2>1, <2>2
  <2> QED
    BY <2>1, <2>4, <2>5
<1>5. new \in [1 .. n -> Erd!Field]
  BY <1>2, <1>3, <1>4
<1>6. new \in Seq(Erd!Field)
  BY <1>5
<1> QED
  BY <1>3, <1>6

\* What a relation is made of.
LEMMA RelationIs ==
    ASSUME NEW rel \in Erd!Relation
    PROVE  \E s \in Erd!Es, t \in Erd!Es, card \in Erd!Cards, is \in {Erd!Conceptual}
          \cup Erd!Fk :
             rel = [source |-> s, target |-> t, card |-> card, is |-> is]
  BY DEF Erd!Relation

\* A relation with another cardinality ...
LEMMA CardTyped ==
    ASSUME NEW rel \in Erd!Relation, NEW card \in Erd!Cards
    PROVE  /\ [rel EXCEPT !.card = card] \in Erd!Relation
           /\ [rel EXCEPT !.card = card].source = rel.source
           /\ [rel EXCEPT !.card = card].target = rel.target
           /\ [rel EXCEPT !.card = card].card = card
<1>1. PICK s \in Erd!Es, t \in Erd!Es, was \in Erd!Cards, is \in {Erd!Conceptual} \cup Erd!Fk :
        rel = [source |-> s, target |-> t, card |-> was, is |-> is]
  BY RelationIs
<1>2. PICK q : q = [source |-> s, target |-> t, card |-> card, is |-> is]
  OBVIOUS
<1>3. [rel EXCEPT !.card = card] = q
  BY <1>1, <1>2
<1>4. /\ q \in Erd!Relation /\ q.source = s /\ q.target = t /\ q.card = card
      /\ rel.source = s /\ rel.target = t
  BY <1>1, <1>2 DEF Erd!Relation
<1> QED
  BY <1>3, <1>4

\* ... or the other way round.
LEMMA FlippedTyped ==
    ASSUME NEW rel \in Erd!Relation
    PROVE  /\ Erd!Flipped(rel) \in Erd!Relation
           /\ Erd!Flipped(rel).card = "N:N" => rel.card = "N:N"
<1>1. PICK s \in Erd!Es, t \in Erd!Es, k \in Erd!Cards, i \in {Erd!Conceptual} \cup Erd!Fk :
        rel = [source |-> s, target |-> t, card |-> k, is |-> i]
  BY RelationIs
<1>2. rel.source = s /\ rel.target = t /\ rel.card = k /\ rel.is = i
  BY <1>1
<1>3. PICK j : j = IF Erd!IsFk(rel) THEN [i EXCEPT !.side = Erd!Other(@)] ELSE i
  OBVIOUS
<1>4. j \in {Erd!Conceptual} \cup Erd!Fk
  <2>1. CASE ~Erd!IsFk(rel)
    BY <1>3, <2>1
  <2>2. CASE Erd!IsFk(rel)
    <3>1. i \in Erd!Fk
      BY <1>2, <2>2 DEF Erd!IsFk, Erd!Conceptual
    <3>2. PICK side : side = Erd!Other(i.side)
      OBVIOUS
    <3>3. side \in Erd!Sides
      BY <3>2 DEF Erd!Other, Erd!Sides
    <3>4. j = [i EXCEPT !.side = side]
      BY <1>3, <2>2, <3>2
    <3> QED
      BY <3>1, <3>3, <3>4 DEF Erd!Fk
  <2> QED
    BY <2>1, <2>2
<1>5. PICK card \in Erd!Cards :
      card = CASE k = "1:N" -> "N:1" [] k = "N:1" -> "1:N" [] OTHER -> k
  BY DEF Erd!Cards, Erd!Presets
<1>6. card = "N:N" => k = "N:N"
  BY <1>5
<1>7. PICK q : q = [source |-> t, target |-> s, card |-> card, is |-> j]
  OBVIOUS
<1>8. q = Erd!Flipped(rel)
  BY <1>2, <1>3, <1>5, <1>7 DEF Erd!Flipped
<1>9. q \in Erd!Relation /\ q.card = card
  BY <1>4, <1>7 DEF Erd!Relation
<1> QED
  BY <1>2, <1>6, <1>8, <1>9

\* A relation that is there becomes another one with the same ends.
LEMMA ChangedGood ==
    ASSUME NEW d, Good(d), NEW r \in Erd!Links(d), NEW rel \in Erd!Relation,
           rel.source = d.relations[r].source, rel.target = d.relations[r].target,
           rel.card = "N:N" => r \in DOMAIN JoinOf
    PROVE  Good([d EXCEPT !.relations[r] = rel])
<1>1. PICK g : g = WithRelation(d, r, rel)
  OBVIOUS
<1>2. /\ Shaped(g) /\ g.entities = d.entities
      /\ \A q \in Erd!Rs : g.relations[q] = IF q = r THEN rel ELSE d.relations[q]
  BY <1>1, GoodShaped, WithRelationShape
<1>3. rel.source \in Erd!Here(d) /\ rel.target \in Erd!Here(d)
  BY GoodShaped
<1>4. Good(g)
  BY <1>2, <1>3, GoodWithRelation
<1> QED
  BY <1>1, <1>4 DEF WithRelation

\* The invariant holds when the editor opens.
LEMMA ErdInitially == Erd!Init => ErdInv
<1>1. SUFFICES ASSUME Erd!Init PROVE ErdInv
  OBVIOUS
<1>2. PICK start \in ErdStarts : diagram = start.diagram /\ allowConceptual = start.conceptual
  BY <1>1 DEF Erd!Init
<1>3. /\ diagram \in Erd!Diagrams /\ Erd!Sound(diagram)
      /\ \A r \in Erd!Links(diagram) : Erd!Named(diagram.relations[r])
      /\ \A r \in DOMAIN JoinOf : Erd!Halves(r) \cap Erd!Links(diagram) = {}
      /\ allowConceptual \in BOOLEAN
  BY <1>2, ErdAssumption DEF Erd!ConstantsAssumption
<1>4. Ready(diagram, Erd!Links(diagram) \cap Drawn)
  BY <1>3, StartIsReady
<1> QED
  BY <1>1, <1>3, <1>4 DEF Erd!Init, ErdInv

\* Every edit keeps the relations as they should be.
LEMMA EditIsReady ==
    ASSUME Ready(diagram, drawn), allowConceptual \in BOOLEAN, Erd!Edit
    PROVE  Ready(diagram', drawn')
<1>1. ASSUME NEW r \in Drawn \ drawn, NEW s \in Erd!Here(diagram), NEW t \in Erd!Here(diagram),
             NEW card \in Erd!Presets, Erd!Draw(r, s, t, card)
      PROVE  Ready(diagram', drawn')
  <2>1. PICK rel : rel = [source |-> s, target |-> t, card |-> card, is |-> Erd!Conceptual]
    OBVIOUS
  <2>2. PICK side : side = Erd!Dependent(diagram, rel)
    OBVIOUS
  <2>3. PICK fix : fix = CASE allowConceptual -> <<>>
                           [] ~allowConceptual /\ card = "N:N" -> Erd!AssociativeFix(r, rel)
                           [] OTHER -> Erd!MaterializeFix(diagram, r, rel, side)
    OBVIOUS
  <2>4. /\ diagram' = Erd!ApplyAll(Erd!Apply(diagram, Erd!AddRelation(r, rel)), fix)
        /\ drawn' = drawn \cup {r}
        /\ card = "N:N" => r \in DOMAIN JoinOf
    BY <1>1, <2>1, <2>2, <2>3 DEF Erd!Draw, Erd!Change, Erd!Becomes
  <2>5. rel \in Erd!Relation /\ rel.is = Erd!Conceptual /\ rel.card = card
    BY <2>1, Es_Rs_Drawn DEF Erd!Relation, Erd!Cards
  <2>6. side \in {"source", "target"}
    BY <2>2 DEF Erd!Dependent
  <2>7. fix \in {<<>>, Erd!AssociativeFix(r, rel),
        Erd!MaterializeFix(diagram, r, rel, "source"),
                 Erd!MaterializeFix(diagram, r, rel, "target")}
    BY <2>3, <2>6
  <2>8. fix = Erd!AssociativeFix(r, rel) => rel.card = "N:N"
    <3>1. Erd!AssociativeFix(r, rel) # <<>>
      BY DEF Erd!AssociativeFix
    <3>2. \A x : Erd!MaterializeFix(diagram, r, rel, x) # Erd!AssociativeFix(r, rel)
      BY DEF Erd!AssociativeFix, Erd!MaterializeFix
    <3> QED
      BY <2>3, <2>5, <3>1, <3>2
  <2>9. Ready(Erd!ApplyAll(Erd!Apply(diagram, Erd!AddRelation(r, rel)), fix), drawn \cup {r})
    BY <2>4, <2>5, <2>7, <2>8, ReadyWithDrawn
  <2> QED
    BY <2>4, <2>9
<1>2. ASSUME NEW e, NEW fields, Erd!ChangeFields(e, fields)
      PROVE  Ready(diagram', drawn')
  <2>1. diagram' = Erd!Apply(diagram, Erd!PutFields(e, fields)) /\ drawn' = drawn
    BY <1>2 DEF Erd!ChangeFields, Erd!Change, Erd!Becomes
  <2>2. Ready(Erd!Apply(diagram, Erd!PutFields(e, fields)), drawn)
    BY ReadyWithFields
  <2> QED
    BY <2>1, <2>2
<1>3. ASSUME NEW r \in Erd!Links(diagram), NEW rel, Proper(r, rel), Erd!ChangeRelation(r, rel)
      PROVE  Ready(diagram', drawn')
  <2>1. diagram' = [diagram EXCEPT !.relations[r] = rel] /\ drawn' = drawn
    BY <1>3 DEF Erd!ChangeRelation, Erd!Change, Erd!Becomes
  <2>2. Ready([diagram EXCEPT !.relations[r] = rel], drawn)
    BY <1>3, ReadyWithRelation
  <2> QED
    BY <2>1, <2>2
<1>4. ASSUME NEW s, Fix(diagram, s), diagram' = Erd!ApplyAll(diagram, s), drawn' = drawn
      PROVE  Ready(diagram', drawn')
  <2>1. Ready(Erd!ApplyAll(diagram, s), drawn)
    BY <1>4, FixKeepsReady
  <2> QED
    BY <1>4, <2>1
<1>5. ASSUME NEW e \in Erd!Here(diagram), Erd!RemoveEntity(e)
      PROVE  Ready(diagram', drawn')
  <2>1. PICK g : g = diagram'
    OBVIOUS
  <2>2. PICK rs : rs = [r \in Erd!Rs |->
                          IF r \in Erd!Links(diagram) /\ e \in {diagram.relations[r].source,
                                                               diagram.relations[r].target}
                            THEN Absent ELSE diagram.relations[r]]
    OBVIOUS
  <2>3. PICK es : es = [diagram.entities EXCEPT ![e] = Absent]
    OBVIOUS
  <2>4. g = [entities |-> es, relations |-> rs] /\ drawn' = drawn
    BY <1>5, <2>1, <2>2, <2>3 DEF Erd!RemoveEntity, Erd!Change, Erd!Becomes
  <2>5. Shaped(g)
    BY <2>2, <2>4 DEF Shaped
  <2>6. \A r \in Erd!Links(g) :
        r \in Erd!Links(diagram) /\ g.relations[r] = diagram.relations[r]
    BY <2>2, <2>4 DEF Erd!Links
  <2>7. AllProper(g) /\ Erd!Links(g) \subseteq Erd!Links(diagram)
    BY <2>5, <2>6 DEF AllProper, Ready
  <2>8. Ready(g, drawn)
    BY <2>7, ReadyWithFewer
  <2> QED
    BY <2>1, <2>4, <2>8
<1>6. ASSUME NEW r \in Erd!Links(diagram)
      PROVE  Proper(r, diagram.relations[r])
  BY DEF Ready, AllProper
<1>7. ASSUME NEW r \in Erd!Links(diagram), NEW card, Erd!SetCard(r, card)
      PROVE  Ready(diagram', drawn')
  <2>1. PICK rel : rel = diagram.relations[r]
    OBVIOUS
  <2>2. PICK s, t, k, i : rel = [source |-> s, target |-> t, card |-> k, is |-> i]
    BY <1>6, <2>1 DEF Proper, ShapedRelation
  <2>3. PICK now : now = [source |-> s, target |-> t, card |-> card, is |-> i]
    OBVIOUS
  <2>4. now = [rel EXCEPT !.card = card]
    BY <2>2, <2>3
  <2>5. Erd!ChangeRelation(r, now) /\ (card = "N:N" => r \in DOMAIN JoinOf)
    BY <1>7, <2>1, <2>4 DEF Erd!SetCard
  <2>6. ShapedIs(i) /\ Erd!Named(rel) /\ rel.source = s /\ rel.target = t /\ rel.is = i
    <3>1. rel.source = s /\ rel.target = t /\ rel.is = i
      BY <2>2
    <3> QED
      BY <1>6, <2>1, <3>1 DEF Proper, ShapedRelation
  <2>7. now.source = s /\ now.target = t /\ now.card = card /\ now.is = i
    BY <2>3
  <2>8. Erd!Named(now)
    BY <2>6, <2>7, NamedByEnds
  <2>9. Proper(r, now)
    BY <2>3, <2>5, <2>6, <2>7, <2>8 DEF Proper, ShapedRelation
  <2> QED
    BY <1>3, <2>5, <2>9
<1>8. ASSUME NEW r \in Erd!Links(diagram), Erd!MarkConceptual(r)
      PROVE  Ready(diagram', drawn')
  <2>1. PICK rel : rel = diagram.relations[r]
    OBVIOUS
  <2>2. PICK s, t, k, i : rel = [source |-> s, target |-> t, card |-> k, is |-> i]
    BY <1>6, <2>1 DEF Proper, ShapedRelation
  <2>3. PICK now : now = [source |-> s, target |-> t, card |-> k, is |-> Erd!Conceptual]
    OBVIOUS
  <2>4. now = [rel EXCEPT !.is = Erd!Conceptual]
    BY <2>2, <2>3
  <2>5. Erd!ChangeRelation(r, now)
    BY <1>8, <2>1, <2>4 DEF Erd!MarkConceptual
  <2>6. now.card = k /\ now.is = Erd!Conceptual /\ rel.card = k
    BY <2>2, <2>3
  <2>7. ShapedRelation(now)
    BY <2>3, <2>6 DEF ShapedRelation, ShapedIs
  <2>8. Erd!Named(now)
    BY <2>6 DEF Erd!Named, Erd!IsFk, Erd!Conceptual
  <2>9. Proper(r, now)
    BY <1>6, <2>1, <2>6, <2>7, <2>8 DEF Proper
  <2> QED
    BY <1>3, <2>5, <2>9
<1>9. ASSUME NEW r, Erd!RemoveRelation(r)
      PROVE  Ready(diagram', drawn')
  <2>1. diagram' = Erd!Apply(diagram, Erd!DropRelation(r)) /\ drawn' = drawn
    BY <1>9 DEF Erd!RemoveRelation, Erd!Change, Erd!Becomes
  <2>2. Ready(Erd!Apply(diagram, Erd!DropRelation(r)), drawn)
    BY ReadyWithout
  <2> QED
    BY <2>1, <2>2
<1>10. ASSUME NEW r \in Erd!Links(diagram), Erd!Swap(r)
       PROVE  Ready(diagram', drawn')
  <2>1. PICK g : g = Erd!Apply(Erd!Apply(diagram, Erd!DropRelation(r)),
                               Erd!AddRelation(r, Erd!Flipped(diagram.relations[r])))
    OBVIOUS
  <2>2. diagram' = g /\ drawn' = drawn
    BY <1>10, <2>1 DEF Erd!Swap, Erd!Change, Erd!Becomes
  <2>3. Ready(g, drawn)
    BY <2>1, ReadyWithFlipped
  <2> QED
    BY <2>2, <2>3
<1>11. ASSUME NEW r \in Erd!Links(diagram), Erd!ApplyUnique(r)
       PROVE  Ready(diagram', drawn')
  <2>1. PICK s : s = Erd!UniqueFix(diagram, r)
    OBVIOUS
  <2>2. diagram' = Erd!ApplyAll(diagram, s) /\ drawn' = drawn
    BY <1>11, <2>1 DEF Erd!ApplyUnique, Erd!Change, Erd!Becomes
  <2>3. Fix(diagram, s)
    BY <1>6, <2>1, UniqueIsFix
  <2> QED
    BY <1>4, <2>2, <2>3
<1>12. ASSUME NEW r \in Erd!Links(diagram), NEW side \in Erd!Sides, NEW at, NEW unique,
              Erd!Materialize(r, side, at, unique)
       PROVE  Ready(diagram', drawn')
  <2>1. PICK rel : rel = diagram.relations[r]
    OBVIOUS
  <2>2. ShapedRelation(rel)
    BY <1>6, <2>1 DEF Proper
  <2>3. CASE at = 0
    <3>1. PICK s : s = Erd!MaterializeFix(diagram, r, rel, side)
      OBVIOUS
    <3>2. diagram' = Erd!ApplyAll(diagram, s) /\ drawn' = drawn
      BY <1>12, <2>1, <2>3, <3>1 DEF Erd!Materialize, Erd!Change, Erd!Becomes
    <3>3. Fix(diagram, s)
      BY <2>1, <2>2, <3>1, MaterializeIsFix
    <3> QED
      BY <1>4, <3>2, <3>3
  <2>4. CASE at # 0
    <3>1. PICK e, fields, id, one :
            /\ diagram' = Erd!ApplyAll(diagram, <<Erd!PutFields(e, fields),
                                                  Erd!PutRelation(r, Erd!AsFk(rel, side, id,
                                                        one))>>)
            /\ drawn' = drawn
      BY <1>12, <2>1, <2>4 DEF Erd!Materialize, Erd!Change, Erd!Becomes
    <3>2. PICK is : is = Erd!AsFk(rel, side, id, one)
      OBVIOUS
    <3>3. ShapedIs(is) /\ Erd!Named(Saying(rel, is))
      BY <2>2, <3>2, AsFkNamed, SayingFkNamed
    <3>4. PICK s : s = <<Erd!PutFields(e, fields), Erd!PutRelation(r, is)>>
      OBVIOUS
    <3>5. Fix(diagram, s)
      BY <2>1, <3>3, <3>4, FixPair
    <3>6. diagram' = Erd!ApplyAll(diagram, s)
      BY <3>1, <3>2, <3>4
    <3> QED
      BY <1>4, <3>1, <3>5, <3>6
  <2> QED
    BY <2>3, <2>4
<1>13. ASSUME NEW e, \/ Erd!AddField(e)
                     \/ \E i \in DOMAIN diagram.entities[e] :
                          \/ \E name \in Erd!Here(diagram) \cup {Absent} :
                               Erd!RenameField(e, i, name)
                          \/ Erd!RemoveField(e, diagram.entities[e][i].id)
                          \/ \E flag \in {"PK", "FK", "UQ"} :
                               Erd!ToggleFlag(e, diagram.entities[e][i].id, flag)
       PROVE  Ready(diagram', drawn')
  <2>1. \E fields : Erd!ChangeFields(e, fields)
    BY <1>13 DEF Erd!AddField, Erd!RenameField, Erd!RemoveField, Erd!ToggleFlag
  <2> QED
    BY <1>2, <2>1
<1> QED
  BY <1>1, <1>5, <1>7, <1>8, <1>9, <1>10, <1>11, <1>12, <1>13 DEF Erd!Edit

\* What is set and known whatever was repaired.
ErdTypes ==
    /\ Good(diagram)
    /\ drawn \subseteq Drawn
    /\ allowConceptual \in BOOLEAN
    /\ stale \in BOOLEAN
    /\ edits \in 0 .. MaxEdits
    /\ audit = [phase |-> audit.phase, of |-> audit.of]
    /\ audit.phase \in {"none", "coming", "shown"}
    /\ audit.phase # "none" => Good(audit.of)

\* A new relation, with its repair where conceptual ones are not allowed.
LEMMA DrawGood ==
    ASSUME NEW d, Good(d), Good(diagram), NEW r \in Erd!Rs, NEW rel \in Erd!Relation,
           rel.source \in Erd!Here(d), rel.target \in Erd!Here(d),
           rel.source \in Erd!Here(diagram), rel.target \in Erd!Here(diagram),
           rel.card = "N:N" => r \in DOMAIN JoinOf,
           NEW s, s \in {<<>>, Erd!AssociativeFix(r, rel),
                 Erd!MaterializeFix(diagram, r, rel, "source"),
                         Erd!MaterializeFix(diagram, r, rel, "target")},
           s = Erd!AssociativeFix(r, rel) => rel.card = "N:N"
    PROVE  Good(Erd!ApplyAll(Erd!Apply(d, Erd!AddRelation(r, rel)), s))
<1>1. Erd!AddRelation(r, rel) \in GoodCommands
  BY AddRelationTyped
<1>2. Good(Erd!Apply(d, Erd!AddRelation(r, rel)))
  BY <1>1, ApplyGood
<1>3. rel.source \in Erd!Es /\ rel.target \in Erd!Es
  BY DEF Erd!Relation
<1>4. s \in Seq(GoodCommands)
  <2>1. CASE s = <<>>
    BY <2>1, NoneTyped
  <2>2. CASE s = Erd!AssociativeFix(r, rel)
    BY <1>3, <2>2, AssociativeTyped
  <2>3. "source" \in Erd!Sides /\ "target" \in Erd!Sides
    BY DEF Erd!Sides
  <2>4. /\ Erd!MaterializeFix(diagram, r, rel, "source") \in Seq(GoodCommands)
        /\ Erd!MaterializeFix(diagram, r, rel, "target") \in Seq(GoodCommands)
    BY <2>3, MaterializeTyped
  <2> QED
    BY <2>1, <2>2, <2>4
<1> QED
  BY <1>2, <1>4, ApplyAllGood

\* Every edit keeps the diagram good.
LEMMA EditIsGood ==
    ASSUME Good(diagram), Erd!Edit
    PROVE  Good(diagram')
<1>1. ASSUME NEW r \in Drawn \ drawn, NEW s \in Erd!Here(diagram), NEW t \in Erd!Here(diagram),
             NEW card \in Erd!Presets, Erd!Draw(r, s, t, card)
      PROVE  Good(diagram')
  <2>1. PICK rel : rel = [source |-> s, target |-> t, card |-> card, is |-> Erd!Conceptual]
    OBVIOUS
  <2>2. PICK side : side = Erd!Dependent(diagram, rel)
    OBVIOUS
  <2>3. PICK fix : fix = CASE allowConceptual -> <<>>
                           [] ~allowConceptual /\ card = "N:N" -> Erd!AssociativeFix(r, rel)
                           [] OTHER -> Erd!MaterializeFix(diagram, r, rel, side)
    OBVIOUS
  <2>4. /\ diagram' = Erd!ApplyAll(Erd!Apply(diagram, Erd!AddRelation(r, rel)), fix)
        /\ card = "N:N" => r \in DOMAIN JoinOf
    BY <1>1, <2>1, <2>2, <2>3 DEF Erd!Draw, Erd!Change, Erd!Becomes
  <2>5. /\ rel \in Erd!Relation /\ rel.is = Erd!Conceptual /\ rel.card = card
        /\ rel.source = s /\ rel.target = t /\ r \in Erd!Rs
    BY <2>1, Es_Rs_Drawn DEF Erd!Relation, Erd!Cards
  <2>6. side \in {"source", "target"}
    BY <2>2 DEF Erd!Dependent
  <2>8. CASE fix = Erd!AssociativeFix(r, rel)
    <3>1. Erd!AssociativeFix(r, rel) # <<>>
      BY DEF Erd!AssociativeFix
    <3>2. \A x : Erd!MaterializeFix(diagram, r, rel, x) # Erd!AssociativeFix(r, rel)
      BY DEF Erd!AssociativeFix, Erd!MaterializeFix
    <3>3. rel.card = "N:N"
      BY <2>3, <2>5, <2>8, <3>1, <3>2
    <3>4. Good(Erd!ApplyAll(Erd!Apply(diagram, Erd!AddRelation(r, rel)), fix))
      BY <2>4, <2>5, <2>8, <3>3, DrawGood
    <3> QED
      BY <2>4, <3>4
  <2>9. CASE fix # Erd!AssociativeFix(r, rel)
    <3>1. fix \in {<<>>, Erd!MaterializeFix(diagram, r, rel, "source"),
                   Erd!MaterializeFix(diagram, r, rel, "target")}
      BY <2>3, <2>6, <2>9
    <3>2. Good(Erd!ApplyAll(Erd!Apply(diagram, Erd!AddRelation(r, rel)), fix))
      BY <2>4, <2>5, <2>9, <3>1, DrawGood
    <3> QED
      BY <2>4, <3>2
  <2> QED
    BY <2>8, <2>9
<1>2. ASSUME NEW e \in Erd!Here(diagram),
      NEW fields \in Seq(Erd!Field), Erd!ChangeFields(e, fields)
      PROVE  Good(diagram')
  <2>1. diagram' = Erd!Apply(diagram, Erd!PutFields(e, fields))
    BY <1>2 DEF Erd!ChangeFields, Erd!Change, Erd!Becomes
  <2>2. Erd!PutFields(e, fields) \in GoodCommands
    BY Es_Rs_Drawn, PutFieldsTyped
  <2>3. Good(Erd!Apply(diagram, Erd!PutFields(e, fields)))
    BY <2>2, ApplyGood
  <2> QED
    BY <2>1, <2>3
<1>3. ASSUME NEW e \in Erd!Here(diagram)
      PROVE  e \in Erd!Es /\ diagram.entities[e] \in Seq(Erd!Field)
  BY GoodShaped, Es_Rs_Drawn
<1>4. ASSUME NEW e \in Erd!Here(diagram), Erd!AddField(e)
      PROVE  Good(diagram')
  <2>1. PICK id \in Erd!Ids : id = Erd!Fresh(diagram, e)
    BY <1>3, FreshTyped
  <2>2. PICK f : f = [id |-> id, name |-> Absent, flags |-> {}, references |-> Absent,
        by |-> Absent]
    OBVIOUS
  <2>3. f \in Erd!Field
    BY <2>2, FieldTyped
  <2>4. Append(diagram.entities[e], f) \in Seq(Erd!Field)
    BY <1>3, <2>3, AppendTyped
  <2>5. Erd!ChangeFields(e, Append(diagram.entities[e], f))
    BY <1>4, <2>1, <2>2 DEF Erd!AddField
  <2> QED
    BY <1>2, <2>4, <2>5
<1>5. ASSUME NEW e \in Erd!Here(diagram), NEW i \in DOMAIN diagram.entities[e],
             NEW name \in Erd!Here(diagram) \cup {Absent}, Erd!RenameField(e, i, name)
      PROVE  Good(diagram')
  <2>1. PICK fields \in Seq(Erd!Field) : fields = diagram.entities[e]
    BY <1>3
  <2>2. PICK f : f = [fields[i] EXCEPT !.name = name]
    OBVIOUS
  <2>3. fields[i] \in Erd!Field /\ name \in Erd!Es \cup {Absent}
    BY <2>1, Es_Rs_Drawn
  <2>4. f \in Erd!Field
    BY <2>2, <2>3, FieldNamed
  <2>5. Erd!ReplaceById(fields, f) \in Seq(Erd!Field)
    BY <2>4, ReplaceTyped
  <2>6. Erd!ChangeFields(e, Erd!ReplaceById(fields, f))
    BY <1>5, <2>1, <2>2 DEF Erd!RenameField
  <2> QED
    BY <1>2, <2>5, <2>6
<1>6. ASSUME NEW e \in Erd!Here(diagram), NEW id, Erd!RemoveField(e, id)
      PROVE  Good(diagram')
  <2>1. Erd!Without(diagram.entities[e], id) \in Seq(Erd!Field)
    BY <1>3, WithoutTyped
  <2> QED
    BY <1>2, <1>6, <2>1 DEF Erd!RemoveField
<1>7. ASSUME NEW e \in Erd!Here(diagram), NEW id,
      NEW flag \in {"PK", "FK", "UQ"}, Erd!ToggleFlag(e, id, flag)
      PROVE  Good(diagram')
  <2>1. PICK new : new = [i \in DOMAIN diagram.entities[e] |->
                            IF diagram.entities[e][i].id = id
                              THEN [diagram.entities[e][i] EXCEPT !.flags =
                                    Erd!SymDiff(@, {flag})]
                              ELSE diagram.entities[e][i]]
    OBVIOUS
  <2>2. new \in Seq(Erd!Field)
    BY <1>3, <2>1, ToggledTyped
  <2>3. Erd!ChangeFields(e, new)
    BY <1>7, <2>1 DEF Erd!ToggleFlag
  <2> QED
    BY <1>2, <2>2, <2>3
<1>8. ASSUME NEW e \in Erd!Here(diagram), Erd!RemoveEntity(e)
      PROVE  Good(diagram')
  <2>1. PICK g : g = diagram'
    OBVIOUS
  <2>2. PICK rs : rs = [r \in Erd!Rs |->
                          IF r \in Erd!Links(diagram) /\ e \in {diagram.relations[r].source,
                                                               diagram.relations[r].target}
                            THEN Absent ELSE diagram.relations[r]]
    OBVIOUS
  <2>3. PICK es : es = [diagram.entities EXCEPT ![e] = Absent]
    OBVIOUS
  <2>4. g = [entities |-> es, relations |-> rs]
    BY <1>8, <2>1, <2>2, <2>3 DEF Erd!RemoveEntity, Erd!Change, Erd!Becomes
  <2>5. g.entities = es /\ g.relations = rs /\ Shaped(g)
    BY <2>2, <2>4 DEF Shaped
  <2>6. /\ es \in [Erd!Es -> Seq(Erd!Field) \cup {Absent}]
        /\ \A x \in Erd!Es : x # e => es[x] = diagram.entities[x]
    BY <2>3, GoodShaped
  <2>7. \A x \in Erd!Here(diagram) : x # e => x \in Erd!Here(g)
    BY <2>5, <2>6 DEF Erd!Here
  <2>8. ASSUME NEW r \in Erd!Links(g)
        PROVE  /\ g.relations[r] \in Erd!Relation
               /\ g.relations[r].source \in Erd!Here(g)
               /\ g.relations[r].target \in Erd!Here(g)
               /\ g.relations[r].card = "N:N" => r \in DOMAIN JoinOf
    <3>1. /\ r \in Erd!Links(diagram) /\ g.relations[r] = diagram.relations[r]
          /\ diagram.relations[r].source # e /\ diagram.relations[r].target # e
      BY <2>2, <2>5 DEF Erd!Links
    <3> QED
      BY <2>7, <3>1, GoodShaped
  <2>9. Good(g)
    BY <2>5, <2>6, <2>8, GoodByParts
  <2> QED
    BY <2>1, <2>9
<1>9. ASSUME NEW r \in Erd!Links(diagram)
      PROVE  /\ r \in Erd!Rs /\ diagram.relations[r] \in Erd!Relation
             /\ diagram.relations[r].source \in Erd!Here(diagram)
             /\ diagram.relations[r].target \in Erd!Here(diagram)
             /\ diagram.relations[r].card = "N:N" => r \in DOMAIN JoinOf
  BY GoodShaped
<1>10. ASSUME NEW r \in Erd!Links(diagram),
      NEW rel \in Erd!Relation, Erd!ChangeRelation(r, rel),
              rel.source = diagram.relations[r].source, rel.target =
                    diagram.relations[r].target,
              rel.card = "N:N" => r \in DOMAIN JoinOf
       PROVE  Good(diagram')
  <2>1. diagram' = [diagram EXCEPT !.relations[r] = rel]
    BY <1>10 DEF Erd!ChangeRelation, Erd!Change, Erd!Becomes
  <2>2. Good([diagram EXCEPT !.relations[r] = rel])
    BY <1>10, ChangedGood
  <2> QED
    BY <2>1, <2>2
<1>11. ASSUME NEW r \in Erd!Links(diagram),
      NEW card \in Erd!Presets \cup {"other"}, Erd!SetCard(r, card)
       PROVE  Good(diagram')
  <2>1. PICK was \in Erd!Relation : was = diagram.relations[r]
    BY <1>9
  <2>2. PICK rel : rel = [was EXCEPT !.card = card]
    OBVIOUS
  <2>3. /\ rel \in Erd!Relation /\ rel.source = was.source /\ rel.target = was.target
        /\ rel.card = card
    BY <2>2, CardTyped DEF Erd!Cards
  <2>4. Erd!ChangeRelation(r, rel) /\ (card = "N:N" => r \in DOMAIN JoinOf)
    BY <1>11, <2>1, <2>2 DEF Erd!SetCard
  <2> QED
    BY <1>10, <2>1, <2>3, <2>4
<1>12. ASSUME NEW r \in Erd!Links(diagram), Erd!MarkConceptual(r)
       PROVE  Good(diagram')
  <2>1. PICK was \in Erd!Relation : was = diagram.relations[r]
    BY <1>9
  <2>2. PICK rel : rel = Saying(was, Erd!Conceptual)
    OBVIOUS
  <2>3. /\ rel \in Erd!Relation /\ rel.source = was.source /\ rel.target = was.target
        /\ rel.card = was.card
    BY <2>2, SayingTyped
  <2>4. Erd!ChangeRelation(r, rel)
    BY <1>12, <2>1, <2>2 DEF Erd!MarkConceptual, Saying
  <2> QED
    BY <1>9, <1>10, <2>1, <2>3, <2>4
<1>13. ASSUME NEW r \in Erd!Links(diagram)
       PROVE  Good(Erd!Apply(diagram, Erd!DropRelation(r)))
  <2>1. Erd!DropRelation(r) \in GoodCommands
    BY <1>9 DEF Erd!DropRelation, GoodCommands
  <2> QED
    BY <2>1, ApplyGood
<1>14. ASSUME NEW r \in Erd!Links(diagram), Erd!RemoveRelation(r)
       PROVE  Good(diagram')
  BY <1>13, <1>14 DEF Erd!RemoveRelation, Erd!Change, Erd!Becomes
<1>15. ASSUME NEW r \in Erd!Links(diagram), Erd!Swap(r)
       PROVE  Good(diagram')
  <2>1. PICK d : d = Erd!Apply(diagram, Erd!DropRelation(r))
    OBVIOUS
  <2>2. PICK rel : rel = Erd!Flipped(diagram.relations[r])
    OBVIOUS
  <2>3. rel \in Erd!Relation /\ (rel.card = "N:N" => r \in DOMAIN JoinOf)
    BY <1>9, <2>2, FlippedTyped
  <2>4. Erd!AddRelation(r, rel) \in GoodCommands
    BY <1>9, <2>3, AddRelationTyped
  <2>5. Good(Erd!Apply(d, Erd!AddRelation(r, rel)))
    BY <1>13, <2>1, <2>4, ApplyGood
  <2>6. diagram' = Erd!Apply(d, Erd!AddRelation(r, rel))
    BY <1>15, <2>1, <2>2 DEF Erd!Swap, Erd!Change, Erd!Becomes
  <2> QED
    BY <2>5, <2>6
<1>16. ASSUME NEW s \in Seq(GoodCommands), diagram' = Erd!ApplyAll(diagram, s)
       PROVE  Good(diagram')
  <2>1. Good(Erd!ApplyAll(diagram, s))
    BY ApplyAllGood
  <2> QED
    BY <1>16, <2>1
<1>17. ASSUME NEW r \in Erd!Links(diagram), Erd!ApplyUnique(r)
       PROVE  Good(diagram')
  <2>1. Erd!UniqueFix(diagram, r) \in Seq(GoodCommands)
    BY UniqueTyped
  <2>2. diagram' = Erd!ApplyAll(diagram, Erd!UniqueFix(diagram, r))
    BY <1>17 DEF Erd!ApplyUnique, Erd!Change, Erd!Becomes
  <2> QED
    BY <1>16, <2>1, <2>2
<1>18. ASSUME NEW r \in Erd!Links(diagram), NEW side \in Erd!Sides, NEW at,
      NEW unique \in BOOLEAN,
              at = 0 \/ at \in DOMAIN diagram.entities[Erd!EntityAt(diagram.relations[r],
                    side)],
              Erd!Materialize(r, side, at, unique)
       PROVE  Good(diagram')
  <2>1. PICK rel \in Erd!Relation : rel = diagram.relations[r]
    BY <1>9
  <2>2. PICK e, ref : e = Erd!EntityAt(rel, side) /\ ref = Erd!EntityAt(rel, Erd!Other(side))
    OBVIOUS
  <2>3. e \in Erd!Here(diagram) /\ ref \in Erd!Here(diagram) /\ e \in Erd!Es /\ ref \in Erd!Es
    BY <1>9, <2>1, <2>2, Es_Rs_Drawn DEF Erd!EntityAt
  <2>4. CASE at = 0
    <3>1. Erd!MaterializeFix(diagram, r, rel, side) \in Seq(GoodCommands)
      BY <1>9, <2>1, MaterializeTyped
    <3>2. diagram' = Erd!ApplyAll(diagram, Erd!MaterializeFix(diagram, r, rel, side))
      BY <1>18, <2>1, <2>4 DEF Erd!Materialize, Erd!Change, Erd!Becomes
    <3> QED
      BY <1>16, <3>1, <3>2
  <2>5. CASE at # 0
    <3>1. PICK fields \in Seq(Erd!Field) : fields = diagram.entities[e]
      BY <1>3, <2>3
    <3>2. PICK one \in BOOLEAN : one = (unique \/ rel.card = "1:1")
      OBVIOUS
    <3>3. PICK more : more = {"FK"} \cup IF one THEN {"UQ"} ELSE {}
      OBVIOUS
    <3>4. PICK f : f = [fields[at] EXCEPT !.references = ref, !.by = r, !.flags = @ \cup more]
      OBVIOUS
    <3>5. fields[at] \in Erd!Field /\ more \in SUBSET {"PK", "FK", "UQ"}
      BY <1>18, <2>1, <2>2, <2>5, <3>1, <3>3
    <3>6. f \in Erd!Field /\ f.id \in Erd!Ids
      BY <1>9, <2>3, <3>4, <3>5, FieldLinked
    <3>7. PICK is : is = Erd!AsFk(rel, side, f.id, one)
      OBVIOUS
    <3>8. is \in Erd!Fk
      BY <1>9, <2>1, <3>6, <3>7, AsFkTyped, Es_Rs_Drawn
    <3>9. PICK s : s = <<Erd!PutFields(e, Erd!ReplaceById(fields, f)), Erd!PutRelation(r, is)>>
      OBVIOUS
    <3>10. s \in Seq(GoodCommands)
      BY <1>9, <2>3, <3>6, <3>8, <3>9, ReplaceTyped, PutFieldsTyped, PutRelationTyped, PairTyped
    <3>11. diagram' = Erd!ApplyAll(diagram, s)
      BY <1>18, <2>1, <2>2, <2>5, <3>1, <3>2, <3>3, <3>4, <3>7, <3>9
            DEF Erd!Materialize, Erd!Change, Erd!Becomes
    <3> QED
      BY <1>16, <3>10, <3>11
  <2> QED
    BY <2>4, <2>5
<1> QED
  BY <1>1, <1>4, <1>5, <1>6, <1>7, <1>8, <1>11, <1>12, <1>14, <1>15, <1>17, <1>18 DEF Erd!Edit

\* What else an edit does.
Framed ==
    /\ stale' = stale /\ allowConceptual' = allowConceptual
    /\ edits' = edits + 1
    /\ audit' = IF audit.phase = "shown" THEN Erd!NoAudit ELSE audit
    /\ drawn' \subseteq drawn \cup Drawn

\* Every edit is framed so.
LEMMA EditFrame ==
    ASSUME Erd!Edit
    PROVE  Framed
<1>1. ASSUME NEW d, Erd!Change(d), drawn' = drawn
      PROVE  Framed
  BY <1>1 DEF Erd!Change, Erd!Becomes, Framed
<1>2. ASSUME NEW r \in Drawn, NEW s, NEW t, NEW card, Erd!Draw(r, s, t, card)
      PROVE  Framed
  BY <1>2 DEF Erd!Draw, Erd!Change, Erd!Becomes, Framed
<1>3. ASSUME NEW e, Erd!AddField(e)
      PROVE  Framed
  BY <1>1, <1>3 DEF Erd!AddField, Erd!ChangeFields
<1>4. ASSUME NEW e, Erd!RemoveEntity(e)
      PROVE  Framed
  BY <1>1, <1>4 DEF Erd!RemoveEntity
<1>5. ASSUME NEW e, NEW i, NEW name, Erd!RenameField(e, i, name)
      PROVE  Framed
  BY <1>1, <1>5 DEF Erd!RenameField, Erd!ChangeFields
<1>6. ASSUME NEW e, NEW id, Erd!RemoveField(e, id)
      PROVE  Framed
  BY <1>1, <1>6 DEF Erd!RemoveField, Erd!ChangeFields
<1>7. ASSUME NEW e, NEW id, NEW flag, Erd!ToggleFlag(e, id, flag)
      PROVE  Framed
  BY <1>1, <1>7 DEF Erd!ToggleFlag, Erd!ChangeFields
<1>8. ASSUME NEW r, NEW card, Erd!SetCard(r, card)
      PROVE  Framed
  BY <1>1, <1>8 DEF Erd!SetCard, Erd!ChangeRelation
<1>9. ASSUME NEW r, Erd!MarkConceptual(r)
      PROVE  Framed
  BY <1>1, <1>9 DEF Erd!MarkConceptual, Erd!ChangeRelation
<1>10. ASSUME NEW r, Erd!RemoveRelation(r)
      PROVE  Framed
  BY <1>1, <1>10 DEF Erd!RemoveRelation
<1>11. ASSUME NEW r, Erd!Swap(r)
      PROVE  Framed
  BY <1>1, <1>11 DEF Erd!Swap
<1>12. ASSUME NEW r, Erd!ApplyUnique(r)
      PROVE  Framed
  BY <1>1, <1>12 DEF Erd!ApplyUnique
<1>13. ASSUME NEW r, NEW side, NEW at, NEW unique, Erd!Materialize(r, side, at, unique)
      PROVE  Framed
  BY <1>1, <1>13 DEF Erd!Materialize
<1> QED
  BY <1>2, <1>3, <1>4, <1>5, <1>6, <1>7, <1>8, <1>9, <1>10, <1>11, <1>12, <1>13 DEF Erd!Edit

\* Every step keeps the invariant: a repair of another diagram makes it void.
LEMMA ErdStep == ErdInv /\ [Erd!Next]_Erd!vars => ErdInv'
<1>1. SUFFICES ASSUME ErdInv, [Erd!Next]_Erd!vars PROVE ErdInv'
  OBVIOUS
<1>2. stale \in BOOLEAN /\ allowConceptual \in BOOLEAN /\ (~stale => Ready(diagram, drawn))
  BY <1>1 DEF ErdInv
<1>3. SUFFICES /\ stale' \in BOOLEAN
               /\ allowConceptual' \in BOOLEAN
               /\ ~stale' => Ready(diagram', drawn')
  BY DEF ErdInv, Ready, AllProper, Shaped, Erd!Links, Proper, ShapedRelation, ShapedIs,
        Erd!Named, Erd!IsFk,
         Erd!EntityAt, Erd!Other, Erd!Halves
<1>4. CASE Erd!Edit
  BY <1>2, <1>4, EditIsReady, EditFrame DEF Framed
<1>5. ASSUME NEW x \in Erd!Repairable(diagram), Erd!Repair(x)
      PROVE  /\ stale' \in BOOLEAN /\ allowConceptual' \in BOOLEAN
             /\ ~stale' => Ready(diagram', drawn')
  <2>1. PICK s : s = Erd!FixOf(diagram, x)
    OBVIOUS
  <2>2. /\ diagram' = Erd!ApplyAll(diagram, s) /\ drawn' = drawn
        /\ stale' = stale /\ allowConceptual' = allowConceptual
    BY <1>5, <2>1 DEF Erd!Repair, Erd!Becomes
  <2>3. Ready(diagram, drawn) => Fix(diagram, s)
    BY <2>1, FixOfIsFix DEF Erd!Repairable
  <2>4. Ready(diagram, drawn) => Ready(Erd!ApplyAll(diagram, s), drawn)
    BY <2>3, FixKeepsReady
  <2> QED
    BY <1>2, <2>2, <2>4
<1>6. CASE Erd!RepairAll
  <2>1. PICK s : s = Erd!Batch(diagram)
    OBVIOUS
  <2>2. /\ diagram' = Erd!ApplyAll(diagram, s) /\ drawn' = drawn
        /\ stale' = stale /\ allowConceptual' = allowConceptual
    BY <1>6, <2>1 DEF Erd!RepairAll, Erd!Becomes
  <2>3. Ready(diagram, drawn) => Fix(diagram, s)
    BY <2>1, BatchIsFix
  <2>4. Ready(diagram, drawn) => Ready(Erd!ApplyAll(diagram, s), drawn)
    BY <2>3, FixKeepsReady
  <2> QED
    BY <1>2, <2>2, <2>4
<1>7. ASSUME NEW x \in Erd!Repairable(audit.of), Erd!RepairAudited(x)
      PROVE  /\ stale' \in BOOLEAN /\ allowConceptual' \in BOOLEAN
             /\ ~stale' => Ready(diagram', drawn')
  <2>1. PICK s : s = Erd!FixOf(audit.of, x)
    OBVIOUS
  <2>2. /\ diagram' = Erd!ApplyAll(diagram, s) /\ drawn' = drawn
        /\ stale' = (stale \/ audit.of # diagram) /\ allowConceptual' = allowConceptual
    BY <1>7, <2>1 DEF Erd!RepairAudited, Erd!Becomes
  <2>3. ASSUME ~stale'
        PROVE  Ready(diagram', drawn')
    <3>1. ~stale /\ audit.of = diagram
      BY <1>2, <2>2, <2>3
    <3>2. Ready(diagram, drawn) /\ x \in Erd!Diagnostics(diagram) /\ s = Erd!FixOf(diagram, x)
      BY <1>2, <1>7, <2>1, <3>1 DEF Erd!Repairable
    <3>3. Fix(diagram, s)
      BY <3>2, FixOfIsFix
    <3>4. Ready(Erd!ApplyAll(diagram, s), drawn)
      BY <3>2, <3>3, FixKeepsReady
    <3> QED
      BY <2>2, <3>4
  <2> QED
    BY <1>2, <2>2, <2>3
<1>8. ASSUME UNCHANGED <<diagram, drawn, stale, allowConceptual>>
      PROVE  /\ stale' \in BOOLEAN /\ allowConceptual' \in BOOLEAN
             /\ ~stale' => Ready(diagram', drawn')
  BY <1>2, <1>8
<1>9. CASE Erd!Audit
  BY <1>8, <1>9 DEF Erd!Audit
<1>10. CASE Erd!Show
  BY <1>8, <1>10 DEF Erd!Show
<1>11. CASE UNCHANGED Erd!vars
  BY <1>8, <1>11 DEF Erd!vars
<1> QED
  BY <1>1, <1>4, <1>5, <1>6, <1>7, <1>9, <1>10, <1>11 DEF Erd!Next

\* What it says of the sides.
LEMMA ErdInvSays == ErdInv => Erd!SidesNameEntities
  BY DEF ErdInv, Ready, AllProper, Proper, Erd!SidesNameEntities

\* The types hold when the editor opens ...
LEMMA ErdTypesInitially == Erd!Init => ErdTypes
<1>1. SUFFICES ASSUME Erd!Init PROVE ErdTypes
  OBVIOUS
<1>2. PICK start \in ErdStarts : diagram = start.diagram /\ allowConceptual = start.conceptual
  BY <1>1 DEF Erd!Init
<1>3. Good(diagram) /\ allowConceptual \in BOOLEAN
  BY <1>2, ErdAssumption DEF Erd!ConstantsAssumption, Good
<1>4. /\ audit = [phase |-> "none", of |-> Absent]
      /\ stale = FALSE /\ edits = 0 /\ drawn \subseteq Drawn
  BY <1>1 DEF Erd!Init, Erd!NoAudit
<1>5. audit.phase = "none" /\ audit.of = Absent
  BY <1>4
<1>6. audit = [phase |-> audit.phase, of |-> audit.of]
  BY <1>4, <1>5
<1>7. MaxEdits \in Nat
  BY ErdAssumption DEF Erd!ConstantsAssumption
<1>8. edits \in 0 .. MaxEdits
  BY <1>4, <1>7
<1> QED
  BY <1>3, <1>4, <1>5, <1>6, <1>8 DEF ErdTypes

\* ... and after every step, repairs of another diagram included.
LEMMA ErdTypesStep == ErdTypes /\ [Erd!Next]_Erd!vars => ErdTypes'
<1>1. SUFFICES ASSUME ErdTypes, [Erd!Next]_Erd!vars PROVE ErdTypes'
  OBVIOUS
<1>2. /\ Good(diagram) /\ drawn \subseteq Drawn
      /\ allowConceptual \in BOOLEAN /\ stale \in BOOLEAN
      /\ edits \in 0 .. MaxEdits /\ MaxEdits \in Nat
  BY <1>1, ErdAssumption DEF ErdTypes, Erd!ConstantsAssumption
<1>3. PICK phase, of : audit = [phase |-> phase, of |-> of]
  BY <1>1 DEF ErdTypes
<1>4. /\ audit.phase = phase /\ audit.of = of
      /\ phase \in {"none", "coming", "shown"}
      /\ phase # "none" => Good(of)
  BY <1>1, <1>3 DEF ErdTypes
\* It is enough to show what a step makes of the diagram and of the audit.
<1>5. ASSUME NEW d, Good(d), diagram' = d,
             NEW p, NEW o, audit' = [phase |-> p, of |-> o],
             p \in {"none", "coming", "shown"}, p # "none" => Good(o),
             drawn' \subseteq Drawn, allowConceptual' \in BOOLEAN, stale' \in BOOLEAN,
             edits' \in 0 .. MaxEdits
      PROVE  ErdTypes'
  <2>1. audit'.phase = p /\ audit'.of = o
    BY <1>5
  <2>2. Good(diagram')
    BY <1>5
  <2> QED
    BY <1>5, <2>1, <2>2 DEF ErdTypes, Good, Erd!Sound, Erd!Diagrams, Erd!Links, Erd!Here
<1>6. ASSUME NEW d, Good(d), diagram' = d,
             audit' = IF audit.phase = "shown" THEN Erd!NoAudit ELSE audit,
             drawn' \subseteq Drawn, allowConceptual' \in BOOLEAN, stale' \in BOOLEAN,
             edits' \in 0 .. MaxEdits
      PROVE  ErdTypes'
  <2>1. CASE phase = "shown"
    <3>1. audit' = [phase |-> "none", of |-> Absent]
      BY <1>4, <1>6, <2>1 DEF Erd!NoAudit
    <3> QED
      BY <1>5, <1>6, <3>1
  <2>2. CASE phase # "shown"
    <3>1. audit' = [phase |-> phase, of |-> of]
      BY <1>3, <1>4, <1>6, <2>2
    <3> QED
      BY <1>4, <1>5, <1>6, <3>1
  <2> QED
    BY <2>1, <2>2
<1>7. CASE Erd!Edit
  <2>1. Good(diagram') /\ Framed
    BY <1>2, <1>7, EditIsGood, EditFrame
  <2>2. edits < MaxEdits
    BY <1>7 DEF Erd!Edit
  <2>3. PICK d : d = diagram'
    OBVIOUS
  <2> QED
    BY <1>2, <1>6, <2>1, <2>2, <2>3 DEF Framed
<1>8. ASSUME NEW s \in Seq(GoodCommands), Erd!Becomes(Erd!ApplyAll(diagram, s)),
             UNCHANGED <<drawn, edits>>, stale' \in BOOLEAN
      PROVE  ErdTypes'
  <2>1. PICK d : d = Erd!ApplyAll(diagram, s)
    OBVIOUS
  <2>2. Good(d)
    BY <1>2, <2>1, ApplyAllGood
  <2> QED
    BY <1>2, <1>6, <1>8, <2>1, <2>2 DEF Erd!Becomes
<1>9. ASSUME NEW x \in Erd!Repairable(diagram), Erd!Repair(x)
      PROVE  ErdTypes'
  <2>1. Erd!FixOf(diagram, x) \in Seq(GoodCommands)
    BY <1>2, FixOfTyped DEF Erd!Repairable
  <2> QED
    BY <1>2, <1>8, <1>9, <2>1 DEF Erd!Repair
<1>10. CASE Erd!RepairAll
  <2>1. Erd!Batch(diagram) \in Seq(GoodCommands)
    BY <1>2, BatchTyped
  <2> QED
    BY <1>2, <1>8, <1>10, <2>1 DEF Erd!RepairAll
<1>11. ASSUME audit.phase = "shown", NEW x \in Erd!Repairable(audit.of), Erd!RepairAudited(x)
       PROVE  ErdTypes'
  <2>1. Good(of) /\ x \in Erd!Diagnostics(of)
    BY <1>4, <1>11 DEF Erd!Repairable
  <2>2. Erd!FixOf(of, x) \in Seq(GoodCommands)
    BY <1>2, <2>1, FixOfTyped
  <2> QED
    BY <1>2, <1>4, <1>8, <1>11, <2>2 DEF Erd!RepairAudited
<1>12. CASE Erd!Audit
  <2>1. PICK d : d = diagram
    OBVIOUS
  <2>2. /\ audit' = [phase |-> "coming", of |-> d] /\ diagram' = d
        /\ edits' = edits + 1 /\ edits < MaxEdits
        /\ UNCHANGED <<drawn, allowConceptual, stale>>
    BY <1>12, <2>1 DEF Erd!Audit
  <2> QED
    BY <1>2, <1>5, <2>1, <2>2
<1>13. CASE Erd!Show
  <2>1. PICK d : d = diagram
    OBVIOUS
  <2>2. /\ audit' = [phase |-> "shown", of |-> of] /\ diagram' = d /\ phase = "coming"
        /\ UNCHANGED <<drawn, allowConceptual, stale, edits>>
    BY <1>3, <1>4, <1>13, <2>1 DEF Erd!Show
  <2> QED
    BY <1>2, <1>4, <1>5, <2>1, <2>2
<1>14. CASE UNCHANGED Erd!vars
  BY <1>2, <1>3, <1>4, <1>5, <1>14 DEF Erd!vars
<1> QED
  BY <1>1, <1>7, <1>9, <1>10, <1>11, <1>12, <1>13, <1>14 DEF Erd!Next

\* What they say.
LEMMA ErdTypesSay == ErdTypes => Erd!TypeOK
<1>1. SUFFICES ASSUME ErdTypes PROVE Erd!TypeOK
  OBVIOUS
<1>2. Good(diagram)
  BY <1>1 DEF ErdTypes
<1>3. \A e \in Erd!Here(diagram) : diagram.entities[e] \in Seq(Erd!Field)
  BY <1>2, GoodShaped, Es_Rs_Drawn
<1>4. \A r \in Erd!Links(diagram) :
        /\ diagram.relations[r] \in Erd!Relation
        /\ {diagram.relations[r].source, diagram.relations[r].target}
             \subseteq Erd!Here(diagram)
  BY <1>2, GoodShaped
<1> QED
  BY <1>1, <1>3, <1>4 DEF ErdTypes, Erd!TypeOK

-----------------------------------------------------------------------------
(* The editor of entities beside the rest of MCGraphCommands.               *)

\* A step of MCNext is one of the diagram of entities or leaves it alone.
LEMMA ErdSteps == [MCNext]_<<view, flowVars, processVars, erdVars>> => [Erd!Next]_Erd!vars
  BY DEF MCNext, erdVars, Erd!vars

\* The diagram keeps its types; until a repair of another diagram is applied, a materialized
\* relation names the same entities by its side as by their ids, whatever was drawn, swapped,
\* set or repaired (flipErdRelationPayloadDirection, buildMaterializeFkFix,
\* buildOneToOneUniqueFix, buildConvertToAssociativeFix).
THEOREM ErdSidesAgree == MCSpec => []ErdSidesNameEntities
<1>1. MCInit => ErdTypes /\ ErdInv
  BY ErdTypesInitially, ErdInitially DEF MCInit
<1>2. /\ ErdTypes /\ ErdInv
      /\ [MCNext]_<<view, flowVars, processVars, erdVars>>
      => ErdTypes' /\ ErdInv'
  BY ErdSteps, ErdTypesStep, ErdStep
<1>3. ErdTypes /\ ErdInv => ErdSidesNameEntities
  BY ErdTypesSay, ErdInvSays DEF ErdSidesNameEntities
<1> QED
  BY <1>1, <1>2, <1>3, PTL DEF MCSpec

=============================================================================
