--------------------------- MODULE GraphCommands ---------------------------
(***************************************************************************)
(* The graph of a flow diagram and the commands that edit it.  A tab       *)
(* applies each command to its canvas at once and queues it; the server    *)
(* applies the queue in order to its own graph, to which other tabs write  *)
(* too.  Both use the same command processor; the server also enforces the *)
(* semantic rules of a strict policy without override.                     *)
(*                                                                         *)
(* A node's role stands for its kind, label and data, from which the rules *)
(* of flow diagrams derive it, and its place for its position; an update   *)
(* of several of them is judged as a whole.  The tab shows nodes as they   *)
(* are stored if their data state their role; what it makes of others is   *)
(* ProcessDiagram's subject.  How the queue reaches the server is          *)
(* EditorAutosave's; here the server takes its head in one step.           *)
(***************************************************************************)
EXTENDS Naturals, Sequences

CONSTANTS
    NodeIds, EdgeIds,
    Roles, Places, EdgeKinds,
    Allowed,    \* Allowed[<<r, s>>]: the edge kinds from a node of role r to one of s
    Starts,     \* the graphs the project may have when the tab opens it
    Absent,     \* no element has this id
    MaxWrites   \* commands of this tab and of others

Nodes == [role : Roles, place : Places]
Edges == [source : NodeIds, target : NodeIds, kind : EdgeKinds]
Graphs == [nodes : [NodeIds -> Nodes \cup {Absent}],
           edges : [EdgeIds -> Edges \cup {Absent}]]

Commands ==
    [type : {"addNode"}, id : NodeIds, node : Nodes]
    \cup [type : {"updateNode"}, id : NodeIds, role : Roles]
    \cup [type : {"moveNode"}, id : NodeIds, place : Places]
    \cup [type : {"removeNode"}, id : NodeIds]
    \cup [type : {"addEdge"}, id : EdgeIds, edge : Edges]
    \cup [type : {"updateEdge"}, id : EdgeIds, kind : EdgeKinds]
    \cup [type : {"removeEdge"}, id : EdgeIds]

HasNode(g, n) == g.nodes[n] # Absent
HasEdge(g, e) == g.edges[e] # Absent

\* validateGraphSnapshotInvariants(), for graphs whose ids are distinct.
Valid(g) ==
    /\ \A e \in EdgeIds :
         HasEdge(g, e) => HasNode(g, g.edges[e].source) /\ HasNode(g, g.edges[e].target)
    /\ \A e, f \in EdgeIds :
         HasEdge(g, e) /\ g.edges[e] = g.edges[f] => e = f

\* validateEdgeCreation(): the rules allow this edge between the nodes of g.
AllowedIn(g, edge) ==
    /\ HasNode(g, edge.source)
    /\ HasNode(g, edge.target)
    /\ edge.kind \in Allowed[<<g.nodes[edge.source].role, g.nodes[edge.target].role>>]

\* What a strict policy promises: no edge breaks the rules.
Conforms(g) == \A e \in EdgeIds : HasEdge(g, e) => AllowedIn(g, g.edges[e])

ASSUME AbsentAssumption == Absent \notin Nodes \cup Edges \cup Graphs
ASSUME BoundAssumption == MaxWrites \in Nat
ASSUME StartsAssumption == \A g \in Starts : g \in Graphs /\ Valid(g) /\ Conforms(g)

-----------------------------------------------------------------------------

SetNode(g, n, node) == [g EXCEPT !.nodes = [@ EXCEPT ![n] = node]]
SetEdge(g, e, edge) == [g EXCEPT !.edges = [@ EXCEPT ![e] = edge]]

Incident(g, e, n) ==
    HasEdge(g, e) /\ (g.edges[e].source = n \/ g.edges[e].target = n)

\* Mutant: the cascade follows the edges that leave the node only.
RemoveNodeOutgoing(g, c) ==
    [SetNode(g, c.id, Absent) EXCEPT !.edges =
       [e \in EdgeIds |-> IF HasEdge(g, e) /\ g.edges[e].source = c.id
                            THEN Absent ELSE g.edges[e]]]

\* Removing a node removes its edges.
RemoveNode(g, c) ==
    [SetNode(g, c.id, Absent) EXCEPT !.edges =
       [e \in EdgeIds |-> IF Incident(g, e, c.id) THEN Absent ELSE g.edges[e]]]

UpdateNode(g, c) == SetNode(g, c.id, [g.nodes[c.id] EXCEPT !.role = c.role])
MoveNode(g, c) == SetNode(g, c.id, [g.nodes[c.id] EXCEPT !.place = c.place])
UpdateEdge(g, c) == SetEdge(g, c.id, [g.edges[c.id] EXCEPT !.kind = c.kind])

\* applySingleEditorCommand()
Apply(g, c) ==
    CASE c.type = "addNode" -> SetNode(g, c.id, c.node)
      [] c.type = "updateNode" -> UpdateNode(g, c)
      [] c.type = "moveNode" -> MoveNode(g, c)
      [] c.type = "removeNode" -> RemoveNode(g, c)
      [] c.type = "addEdge" -> SetEdge(g, c.id, c.edge)
      [] c.type = "updateEdge" -> UpdateEdge(g, c)
      [] c.type = "removeEdge" -> SetEdge(g, c.id, Absent)

\* The element c changes is there, the one it adds is not.
Finds(g, c) ==
    CASE c.type = "addNode" -> ~HasNode(g, c.id)
      [] c.type \in {"updateNode", "moveNode", "removeNode"} -> HasNode(g, c.id)
      [] c.type = "addEdge" -> ~HasEdge(g, c.id)
      [] c.type \in {"updateEdge", "removeEdge"} -> HasEdge(g, c.id)

\* applyEditorCommandToSnapshot() succeeds.
Accepts(g, c) == Finds(g, c) /\ Valid(Apply(g, c))

\* Mutant: the rules are checked where edges are written only.
EnforcesOnEdges(g, c) ==
    /\ c.type = "addEdge" => AllowedIn(g, c.edge)
    /\ c.type = "updateEdge" /\ HasEdge(g, c.id) =>
         AllowedIn(g, [g.edges[c.id] EXCEPT !.kind = c.kind])

\* enforceCommandSemantics(): the edges that c writes and the edges of the node that
\* c changes obey the rules.
Enforces(g, c) ==
    /\ c.type = "addEdge" => AllowedIn(g, c.edge)
    /\ c.type = "updateEdge" /\ HasEdge(g, c.id) =>
         AllowedIn(g, [g.edges[c.id] EXCEPT !.kind = c.kind])
    /\ c.type = "updateNode" /\ HasNode(g, c.id) =>
         \A e \in EdgeIds :
           Incident(g, e, c.id) => AllowedIn(UpdateNode(g, c), g.edges[e])

\* The server stores c's result.
ServerAccepts(g, c) == Enforces(g, c) /\ Accepts(g, c)

-----------------------------------------------------------------------------

VARIABLES
    server,   \* the stored graph
    canvas,   \* the tab's graph
    queue,    \* commands the server has not taken yet
    touched,  \* history: ids of what other tabs changed since this tab last took over
              \* the stored graph, and of its edges' ends
    writes    \* number of commands so far, at most MaxWrites

vars == <<server, canvas, queue, touched, writes>>

TypeOK ==
    /\ server \in Graphs
    /\ canvas \in Graphs
    /\ queue \in Seq(Commands)
    /\ touched \in SUBSET (NodeIds \cup EdgeIds)
    /\ writes \in 0 .. MaxWrites

Init ==
    /\ server \in Starts
    /\ canvas = server
    /\ queue = <<>>
    /\ touched = {}
    /\ writes = 0

CountWrite == writes < MaxWrites /\ writes' = writes + 1

\* applyLocalCommandAndQueue().  The editor offers no new edge that breaks the rules;
\* what else breaks them (a node renamed or of another kind) the server finds out.
Edit(c) ==
    /\ CountWrite
    /\ c.type = "addEdge" => AllowedIn(canvas, c.edge)
    /\ Accepts(canvas, c)
    /\ canvas' = Apply(canvas, c)
    /\ queue' = Append(queue, c)
    /\ UNCHANGED <<server, touched>>

\* Mutant: a refused command is dropped.
SyncDroppingRefused ==
    /\ queue # <<>>
    /\ server' = IF ServerAccepts(server, Head(queue))
                   THEN Apply(server, Head(queue)) ELSE server
    /\ queue' = Tail(queue)
    /\ UNCHANGED <<canvas, touched, writes>>

\* The server stores the head of the queue; a command it refuses stays there.
Sync ==
    /\ queue # <<>>
    /\ ServerAccepts(server, Head(queue))
    /\ server' = Apply(server, Head(queue))
    /\ queue' = Tail(queue)
    /\ UNCHANGED <<canvas, touched, writes>>

Ends(edge) == IF edge = Absent THEN {} ELSE {edge.source, edge.target}

\* What c changes in g, and the ends of the edges among it.
Footprint(g, c) ==
    LET h == Apply(g, c)
        changed == {e \in EdgeIds : g.edges[e] # h.edges[e]}
    IN {n \in NodeIds : g.nodes[n] # h.nodes[n]} \cup changed
       \cup UNION {Ends(g.edges[e]) \cup Ends(h.edges[e]) : e \in changed}

\* Mutant: another tab's command is stored unchecked.
PeerWritesUntyped(c) ==
    /\ CountWrite
    /\ ServerAccepts(server, c)
    /\ server' = Apply(server, c)
    /\ touched' = touched \cup {Footprint(server, c)}
    /\ UNCHANGED <<canvas, queue>>

\* Another tab's command is stored.
PeerWrites(c) ==
    /\ CountWrite
    /\ ServerAccepts(server, c)
    /\ server' = Apply(server, c)
    /\ touched' = touched \cup Footprint(server, c)
    /\ UNCHANGED <<canvas, queue>>

\* runDirectWrite(): a change from an inspector goes to the server once the queue is
\* empty, and the stored graph comes back as the canvas.
DirectWrite(c) ==
    /\ CountWrite
    /\ queue = <<>>
    /\ c.type \in {"updateNode", "addEdge", "updateEdge"}
    /\ ServerAccepts(server, c)
    /\ server' = Apply(server, c)
    /\ canvas' = server'
    /\ touched' = {}
    /\ UNCHANGED queue

Next ==
    \/ \E c \in Commands : Edit(c) \/ PeerWrites(c) \/ DirectWrite(c)
    \/ Sync

Spec == Init /\ [][Next]_vars

-----------------------------------------------------------------------------

\* Under a strict policy the stored graph is well formed and obeys the rules.
ServerConforms == Valid(server) /\ Conforms(server)

\* Removing or moving an element the user sees, or one the server stores, is never
\* refused because of what else is in the graph.
RemovalsAccepted ==
    \A g \in {server, canvas} :
      /\ \A n \in NodeIds : HasNode(g, n) =>
           /\ Accepts(g, [type |-> "removeNode", id |-> n])
           /\ \A p \in Places : Accepts(g, [type |-> "moveNode", id |-> n, place |-> p])
      /\ \A e \in EdgeIds :
           HasEdge(g, e) => Accepts(g, [type |-> "removeEdge", id |-> e])

\* g after the commands of s, or Absent if one of them is refused.
Replay(g, s) ==
    LET after[k \in 0 .. Len(s)] ==
          IF k = 0 THEN g
          ELSE IF after[k - 1] # Absent /\ Accepts(after[k - 1], s[k])
                 THEN Apply(after[k - 1], s[k]) ELSE Absent
    IN  after[Len(s)]

CanvasIsReplay == touched = {} => Replay(server, queue) = canvas

\* What c is about: its element, and for an edge the ends.
Mentions(g, c) ==
    {c.id} \cup CASE c.type = "addEdge" -> Ends(c.edge)
                  [] c.type = "updateEdge" -> Ends(g.edges[c.id])
                  [] OTHER -> {}

RefusalsNeedConflict ==
    queue # <<>> /\ ~Accepts(server, Head(queue))
      => Mentions(server, Head(queue)) \cap touched # {}

\* Until another tab writes, the canvas is what the queue makes of the stored graph: what
\* the user was shown as done is neither refused by the command processor nor different
\* once the queue is empty.  And it refuses a queued command only if another tab wrote to
\* what the command is about.
QueueIsFaithful == CanvasIsReplay /\ RefusalsNeedConflict

=============================================================================
