------------------------ MODULE ProcessDiagram_proofs ------------------------
(***************************************************************************)
(* Proofs about the process of MCGraphCommands, for any ids, labels and    *)
(* diagrams to start from: that the server takes what the editor judged,   *)
(* and what a confirmed repair leaves broken.                              *)
(***************************************************************************)
EXTENDS MCGraphCommands_proofs

(* Processes: commands and what they do to a graph.                        *)

Patches == [kind : {"flow-step", "note", "page"}] \cup [label : Process!Labels]
             \cup Process!Contents
Who == {"hand", "repair", "paste"}
ProcessCommands ==
    [type : {"addNode"}, id : Boxes \ {MadeUp}, node : Process!G!Nodes, by : Who]
    \cup [type : {"updateNode"}, id : Boxes, patch : Patches, by : Who]
    \cup [type : {"removeNode"}, id : Boxes, by : Who]
    \cup [type : {"addEdge"}, id : Arrows, edge : Process!G!Edges, by : Who]
    \cup [type : {"updateEdge"}, id : Arrows, kind : Process!ProcessEdges, by : Who]
    \cup [type : {"removeEdge"}, id : Arrows, by : Who]

\* The commands by their type.
LEMMA ProcessFields ==
    ASSUME NEW c \in ProcessCommands
    PROVE  /\ c.by \in Who
           /\ \/ c.type = "addNode" /\ c.id \in Boxes \ {MadeUp} /\ c.node \in Process!G!Nodes
              \/ c.type = "updateNode" /\ c.id \in Boxes /\ c.patch \in Patches
              \/ c.type = "removeNode" /\ c.id \in Boxes
              \/ c.type = "addEdge" /\ c.id \in Arrows /\ c.edge \in Process!G!Edges
              \/ c.type = "updateEdge" /\ c.id \in Arrows /\ c.kind \in Process!ProcessEdges
              \/ c.type = "removeEdge" /\ c.id \in Arrows
  BY DEF ProcessCommands

\* Nothing is no node and no relation.
LEMMA NothingIsNone == Absent \notin Process!G!Nodes \cup Process!G!Edges
  BY ProcessAssumption DEF Process!ConstantsAssumption

\* What replacing a node leaves and changes.
LEMMA BoxFields ==
    ASSUME NEW g \in Process!G!Graphs, NEW n \in Boxes,
           NEW x \in Process!G!Nodes \cup {Absent}
    PROVE  /\ Process!G!SetNode(g, n, x) \in Process!G!Graphs
           /\ Process!G!SetNode(g, n, x).edges = g.edges
           /\ \A m \in Boxes :
                Process!G!SetNode(g, n, x).nodes[m] = IF m = n THEN x ELSE g.nodes[m]
  BY DEF Process!G!SetNode, Process!G!Graphs

\* What replacing a relation leaves and changes.
LEMMA ArrowFields ==
    ASSUME NEW g \in Process!G!Graphs, NEW e \in Arrows,
           NEW x \in Process!G!Edges \cup {Absent}
    PROVE  /\ Process!G!SetEdge(g, e, x) \in Process!G!Graphs
           /\ Process!G!SetEdge(g, e, x).nodes = g.nodes
           /\ \A f \in Arrows :
                Process!G!SetEdge(g, e, x).edges[f] = IF f = e THEN x ELSE g.edges[f]
  BY DEF Process!G!SetEdge, Process!G!Graphs

\* A node or relation that is there is one.
LEMMA BoxesPresent ==
    ASSUME NEW g \in Process!G!Graphs
    PROVE  /\ \A n \in Boxes : Process!G!HasNode(g, n) => g.nodes[n] \in Process!G!Nodes
           /\ \A e \in Arrows : Process!G!HasEdge(g, e) => g.edges[e] \in Process!G!Edges
  BY DEF Process!G!Graphs, Process!G!HasNode, Process!G!HasEdge

\* What removing a node leaves and changes.
LEMMA RemoveBoxFields ==
    ASSUME NEW g \in Process!G!Graphs, NEW c, c.id \in Boxes
    PROVE  /\ Process!G!RemoveNode(g, c) \in Process!G!Graphs
           /\ \A n \in Boxes : Process!G!RemoveNode(g, c).nodes[n] =
                                 IF n = c.id THEN Absent ELSE g.nodes[n]
<1> DEFINE h == Process!G!SetNode(g, c.id, Absent)
           es == [e \in Arrows |->
                    IF Process!G!Incident(g, e, c.id) THEN Absent ELSE g.edges[e]]
<1>1. /\ h \in Process!G!Graphs
      /\ \A n \in Boxes : h.nodes[n] = IF n = c.id THEN Absent ELSE g.nodes[n]
  BY BoxFields
<1>2. Process!G!RemoveNode(g, c) = [h EXCEPT !.edges = es]
  BY DEF Process!G!RemoveNode
<1>3. es \in [Arrows -> Process!G!Edges \cup {Absent}]
  BY DEF Process!G!Graphs
<1> HIDE DEF h, es
<1>4. /\ [h EXCEPT !.edges = es] \in Process!G!Graphs
      /\ [h EXCEPT !.edges = es].nodes = h.nodes
  BY <1>1, <1>3 DEF Process!G!Graphs
<1> QED
  BY <1>1, <1>2, <1>4

\* The content of a node after a patch.
Patched(x, patch) ==
    [kind |-> IF "kind" \in DOMAIN patch THEN patch.kind ELSE x.kind,
     says |-> IF "says" \in DOMAIN patch THEN patch.says ELSE x.says,
     label |-> IF "label" \in DOMAIN patch THEN patch.label ELSE x.label]

\* A patch leaves a content.
LEMMA PatchedTyped ==
    ASSUME NEW x \in Process!Contents, NEW patch \in Patches
    PROVE  Patched(x, patch) \in Process!Contents
<1>1. CASE patch \in [kind : {"flow-step", "note", "page"}]
  <2>1. DOMAIN patch = {"kind"} /\ patch.kind \in {"flow-step", "note", "page"}
    BY <1>1
  <2> QED
    BY <2>1 DEF Patched, Process!Contents
<1>2. CASE patch \in [label : Process!Labels]
  <2>1. DOMAIN patch = {"label"} /\ patch.label \in Process!Labels
    BY <1>2
  <2> QED
    BY <2>1 DEF Patched, Process!Contents
<1>3. CASE patch \in Process!Contents
  <2>1. /\ DOMAIN patch = {"kind", "says", "label"}
        /\ patch.kind \in {"flow-step", "note", "page"}
        /\ patch.says \in Process!FlowRoles \cup {"none"}
        /\ patch.label \in Process!Labels
    BY <1>3 DEF Process!Contents
  <2> QED
    BY <2>1 DEF Patched, Process!Contents
<1> QED
  BY <1>1, <1>2, <1>3 DEF Patches

\* A patch changes its node only.
LEMMA PatchFields ==
    ASSUME NEW g \in Process!G!Graphs, NEW n \in Boxes, Process!G!HasNode(g, n),
           NEW patch \in Patches
    PROVE  /\ Process!WithPatch(g, n, patch) \in Process!G!Graphs
           /\ Process!WithPatch(g, n, patch).edges = g.edges
           /\ Process!Content(Process!WithPatch(g, n, patch), n)
                = Patched(Process!Content(g, n), patch)
           /\ Patched(Process!Content(g, n), patch) \in Process!Contents
           /\ Process!G!HasNode(Process!WithPatch(g, n, patch), n)
           /\ \A m \in Boxes \ {n} : Process!WithPatch(g, n, patch).nodes[m] = g.nodes[m]
<1>1. g.nodes[n] \in Process!G!Nodes
  BY BoxesPresent
<1>2. g.nodes[n].role \in Process!Contents
  BY <1>1 DEF Process!G!Nodes
<1>3. PICK x : x = Patched(g.nodes[n].role, patch)
  OBVIOUS
<1>4. x \in Process!Contents
  BY <1>2, <1>3, PatchedTyped
<1>5. Process!WithPatch(g, n, patch) = [g EXCEPT !.nodes[n].role = x]
  BY <1>3 DEF Process!WithPatch, Patched
<1>6. PICK y : y = [g.nodes[n] EXCEPT !.role = x]
  OBVIOUS
<1>7. y \in Process!G!Nodes /\ y.role = x
  BY <1>1, <1>4, <1>6 DEF Process!G!Nodes
<1>8. [g EXCEPT !.nodes[n].role = x] = Process!G!SetNode(g, n, y)
  BY <1>6 DEF Process!G!SetNode, Process!G!Graphs
<1>9. Process!WithPatch(g, n, patch) = Process!G!SetNode(g, n, y)
  BY <1>5, <1>8
<1>10. /\ Process!G!SetNode(g, n, y) \in Process!G!Graphs
       /\ Process!G!SetNode(g, n, y).edges = g.edges
       /\ \A m \in Boxes :
            Process!G!SetNode(g, n, y).nodes[m] = IF m = n THEN y ELSE g.nodes[m]
  BY <1>7, BoxFields
<1>11. Process!Content(Process!WithPatch(g, n, patch), n) = x
  BY <1>7, <1>9, <1>10 DEF Process!Content
<1>12. Process!G!HasNode(Process!WithPatch(g, n, patch), n)
  BY <1>7, <1>9, <1>10, NothingIsNone DEF Process!G!HasNode
<1> QED
  BY <1>3, <1>4, <1>9, <1>10, <1>11, <1>12 DEF Process!Content

\* What a command that fits leaves is a graph, valid.
LEMMA AfterTyped ==
    ASSUME NEW g \in Process!G!Graphs, NEW c \in ProcessCommands, Process!Fits(g, c)
    PROVE  /\ Process!After(g, c) \in Process!G!Graphs
           /\ Process!G!Valid(Process!After(g, c))
<1>1. Process!G!Finds(g, c) /\ Process!G!Accepts(g, Process!Full(g, c))
  BY DEF Process!Fits
<1>2. Process!G!Valid(Process!After(g, c))
  BY <1>1, Zenon DEF Process!G!Accepts, Process!After
<1>3. CASE c.type = "addNode"
  <2>1. c.id \in Boxes /\ c.node \in Process!G!Nodes
    BY <1>3, ProcessFields
  <2>2. Process!After(g, c) = Process!G!SetNode(g, c.id, c.node)
    BY <1>3 DEF Process!After, Process!Full, Process!G!Apply
  <2> QED
    BY <1>2, <2>1, <2>2, BoxFields
<1>4. CASE c.type = "updateNode"
  <2>1. c.id \in Boxes /\ c.patch \in Patches
    BY <1>4, ProcessFields
  <2>2. Process!G!HasNode(g, c.id)
    BY <1>1, <1>4 DEF Process!G!Finds
  <2>3. PICK x : x = Process!Content(Process!WithPatch(g, c.id, c.patch), c.id)
    OBVIOUS
  <2>4. x \in Process!Contents
    BY <2>1, <2>2, <2>3, PatchFields
  <2>5. PICK f : f = [type |-> "updateNode", id |-> c.id, role |-> x]
    OBVIOUS
  <2>6. Process!Full(g, c) = f
    BY <1>4, <2>2, <2>3, <2>5, Zenon DEF Process!Full
  <2>7. f.type = "updateNode" /\ f.id = c.id /\ f.role = x
    BY <2>5
  <2>8. PICK y : y = [g.nodes[c.id] EXCEPT !.role = x]
    OBVIOUS
  <2>9. y \in Process!G!Nodes
    <3>1. g.nodes[c.id] \in Process!G!Nodes
      BY <2>1, <2>2, BoxesPresent
    <3> QED
      BY <3>1, <2>4, <2>8 DEF Process!G!Nodes
  <2>10. Process!After(g, c) = Process!G!SetNode(g, c.id, y)
    BY <2>6, <2>7, <2>8 DEF Process!After, Process!G!Apply, Process!G!UpdateNode
  <2> QED
    BY <1>2, <2>1, <2>9, <2>10, BoxFields
<1>5. CASE c.type = "removeNode"
  <2>1. c.id \in Boxes
    BY <1>5, ProcessFields
  <2>2. Process!After(g, c) = Process!G!RemoveNode(g, c)
    BY <1>5 DEF Process!After, Process!Full, Process!G!Apply
  <2> QED
    BY <1>2, <2>1, <2>2, RemoveBoxFields
<1>6. CASE c.type = "addEdge"
  <2>1. c.id \in Arrows /\ c.edge \in Process!G!Edges
    BY <1>6, ProcessFields
  <2>2. Process!After(g, c) = Process!G!SetEdge(g, c.id, c.edge)
    BY <1>6 DEF Process!After, Process!Full, Process!G!Apply
  <2> QED
    BY <1>2, <2>1, <2>2, ArrowFields
<1>7. CASE c.type = "updateEdge"
  <2>1. c.id \in Arrows /\ c.kind \in Process!ProcessEdges
    BY <1>7, ProcessFields
  <2>2. Process!G!HasEdge(g, c.id)
    BY <1>1, <1>7 DEF Process!G!Finds
  <2>3. PICK y : y = [g.edges[c.id] EXCEPT !.kind = c.kind]
    OBVIOUS
  <2>4. y \in Process!G!Edges
    <3>1. g.edges[c.id] \in Process!G!Edges
      BY <2>1, <2>2, BoxesPresent
    <3> QED
      BY <3>1, <2>1, <2>3 DEF Process!G!Edges
  <2>5. Process!After(g, c) = Process!G!SetEdge(g, c.id, y)
    BY <1>7, <2>3 DEF Process!After, Process!Full, Process!G!Apply, Process!G!UpdateEdge
  <2> QED
    BY <1>2, <2>1, <2>4, <2>5, ArrowFields
<1>8. CASE c.type = "removeEdge"
  <2>1. c.id \in Arrows
    BY <1>8, ProcessFields
  <2>2. Process!After(g, c) = Process!G!SetEdge(g, c.id, Absent)
    BY <1>8 DEF Process!After, Process!Full, Process!G!Apply
  <2> QED
    BY <1>2, <2>1, <2>2, ArrowFields
<1> QED
  BY <1>3, <1>4, <1>5, <1>6, <1>7, <1>8, ProcessFields

-----------------------------------------------------------------------------
(* Processes: what the tab makes of a graph.                               *)

\* A content with the role stated is of the same role.
LEMMA StatingTyped ==
    ASSUME NEW x \in Process!Contents
    PROVE  /\ Process!Stating(x) \in Process!Contents
           /\ Process!RoleOf(Process!Stating(x)) = Process!RoleOf(x)
           /\ Process!Stating(x).kind = x.kind /\ Process!Stating(x).label = x.label
           /\ x.kind = "page" => Process!Stating(x) = x
           /\ x.kind = "flow-step" => Process!Stating(x).says = Process!RoleOf(x)
           /\ x.kind = "flow-step" /\ x.says # "none" => Process!RoleOf(x) = x.says
<1>1. PICK r : r = Process!RoleOf(x)
  OBVIOUS
<1>2. /\ x.kind = "note" => r = "flow-note"
      /\ x.kind = "page" => r = "none"
      /\ x.kind = "flow-step" /\ x.says \in Process!FlowRoles => r = x.says
      /\ x.kind = "flow-step" /\ x.says \notin Process!FlowRoles => r = Infers[x.label]
  BY <1>1 DEF Process!RoleOf
<1>3. /\ x.kind \in {"flow-step", "note", "page"} /\ x.label \in Process!Labels
      /\ x.says \in Process!FlowRoles \cup {"none"}
  BY DEF Process!Contents
<1>4. Infers[x.label] \in Process!FlowRoles /\ "flow-note" \in Process!FlowRoles
  BY <1>3, ProcessAssumption DEF Process!ConstantsAssumption, Process!FlowRoles
<1>5. CASE x.kind = "page"
  <2>1. Process!Stating(x) = x
    BY <1>5 DEF Process!Stating
  <2> QED
    BY <1>5, <2>1
<1>6. CASE x.kind # "page"
  <2>1. r \in Process!FlowRoles
    BY <1>2, <1>3, <1>4, <1>6
  <2>2. PICK y : y = [x EXCEPT !.says = r]
    OBVIOUS
  <2>3. Process!Stating(x) = y
    BY <1>1, <1>6, <2>2 DEF Process!Stating
  <2>4. y \in Process!Contents /\ y.kind = x.kind /\ y.label = x.label /\ y.says = r
    BY <2>1, <2>2 DEF Process!Contents
  <2>5. CASE x.kind = "note"
    <3>1. Process!RoleOf(y) = "flow-note"
      BY <2>4, <2>5 DEF Process!RoleOf
    <3> QED
      BY <1>1, <1>2, <2>3, <2>4, <2>5, <3>1
  <2>6. CASE x.kind = "flow-step"
    <3>1. Process!RoleOf(y) = r
      BY <2>1, <2>4, <2>6 DEF Process!RoleOf
    <3> QED
      BY <1>1, <1>2, <1>3, <2>3, <2>4, <2>6, <3>1
  <2> QED
    BY <1>3, <1>6, <2>5, <2>6
<1> QED
  BY <1>5, <1>6

NodesOf(g) == {n \in Boxes : Process!G!HasNode(g, n)}

\* A role has a content.
LEMMA ShapeTyped ==
    ASSUME NEW role \in Process!FlowRoles
    PROVE  Process!Shape(role) \in Process!Contents
<1>1. \E l \in Process!Labels : Infers[l] = "flow-step"
  BY ProcessAssumption DEF Process!ConstantsAssumption
<1>2. PICK l : l = CHOOSE any \in Process!Labels : Infers[any] = "flow-step"
  OBVIOUS
<1>3. l \in Process!Labels
  BY <1>1, <1>2
<1>4. PICK k \in {"note", "flow-step"} :
        k = IF role = "flow-note" THEN "note" ELSE "flow-step"
  OBVIOUS
<1>5. Process!Shape(role) = [kind |-> k, says |-> role, label |-> l]
  BY <1>2, <1>4, Zenon DEF Process!Shape
<1> QED
  BY <1>3, <1>5 DEF Process!Contents

\* Only contents change, but for what is made up of nothing.
LEMMA NormalizedFields ==
    ASSUME NEW g \in Process!G!Graphs, Process!G!Valid(g)
    PROVE  /\ Process!Normalized(g) \in Process!G!Graphs
           /\ Process!G!Valid(Process!Normalized(g))
           /\ Process!Normalized(g).edges = g.edges
           /\ NodesOf(g) \subseteq NodesOf(Process!Normalized(g))
           /\ NodesOf(Process!Normalized(g)) \subseteq NodesOf(g) \cup {MadeUp}
           /\ NodesOf(g) # {} => NodesOf(Process!Normalized(g)) = NodesOf(g)
           /\ \A n \in NodesOf(g) :
                /\ Process!Content(g, n) \in Process!Contents
                /\ Process!Content(Process!Normalized(g), n)
                     = Process!Stating(Process!Content(g, n))
<1>1. PICK h : h = Process!Normalized(g)
  OBVIOUS
<1>2. MadeUp \in Boxes
  BY ProcessAssumption DEF Process!ConstantsAssumption
<1>3. CASE NodesOf(g) = {}
  <2>1. \A n \in Boxes : ~Process!G!HasNode(g, n)
    BY <1>3 DEF NodesOf
  <2>2. PICK x : x = [role |-> Process!Shape("flow-start"), place |-> 1]
    OBVIOUS
  <2>3. x \in Process!G!Nodes
    <3>1. "flow-start" \in Process!FlowRoles
      BY DEF Process!FlowRoles
    <3> QED
      BY <2>2, <3>1, ShapeTyped DEF Process!G!Nodes
  <2>4. h = Process!G!SetNode(g, MadeUp, x)
    BY <1>1, <2>1, <2>2, Zenon DEF Process!Normalized
  <2>5. /\ h \in Process!G!Graphs /\ h.edges = g.edges
        /\ \A n \in Boxes : h.nodes[n] = IF n = MadeUp THEN x ELSE g.nodes[n]
    BY <1>2, <2>3, <2>4, BoxFields
  <2>6. \A e \in Arrows : ~Process!G!HasEdge(h, e)
    <3>1. ASSUME NEW e \in Arrows, Process!G!HasEdge(g, e)
          PROVE  FALSE
      <4>1. Process!G!HasNode(g, g.edges[e].source) /\ g.edges[e].source \in Boxes
        BY <3>1, BoxesPresent DEF Process!G!Valid, Process!G!Edges
      <4> QED
        BY <2>1, <4>1
    <3> QED
      BY <2>5, <3>1 DEF Process!G!HasEdge
  <2>7. Process!G!Valid(h)
    BY <2>6 DEF Process!G!Valid
  <2>8. NodesOf(h) \subseteq {MadeUp}
    BY <2>1, <2>5 DEF NodesOf, Process!G!HasNode
  <2> QED
    BY <1>1, <1>3, <2>5, <2>7, <2>8
<1>4. CASE NodesOf(g) # {}
  <2>1. ~\A n \in Boxes : ~Process!G!HasNode(g, n)
    BY <1>4 DEF NodesOf
  <2> DEFINE stating(n) == IF Process!G!HasNode(g, n)
                             THEN [g.nodes[n] EXCEPT !.role = Process!Stating(g.nodes[n].role)]
                             ELSE Absent
  <2>2. PICK ns : ns = [n \in Boxes |-> stating(n)]
    OBVIOUS
  <2>3. h = [g EXCEPT !.nodes = ns]
    <3>1. h = [g EXCEPT !.nodes = [n \in Boxes |-> stating(n)]]
      BY <1>1, <2>1, Zenon DEF Process!Normalized, Process!Content
    <3> QED
      BY <2>2, <3>1
  <2>4. ASSUME NEW n \in Boxes
        PROVE  /\ stating(n) \in Process!G!Nodes \cup {Absent}
               /\ Process!G!HasNode(g, n) =>
                    /\ stating(n) # Absent
                    /\ g.nodes[n].role \in Process!Contents
                    /\ stating(n).role = Process!Stating(g.nodes[n].role)
    <3>1. CASE Process!G!HasNode(g, n)
      <4>1. g.nodes[n] \in Process!G!Nodes /\ g.nodes[n].role \in Process!Contents
        BY <3>1, BoxesPresent DEF Process!G!Nodes
      <4>2. PICK y \in Process!Contents : y = Process!Stating(g.nodes[n].role)
        BY <4>1, StatingTyped
      <4>3. PICK z : z = [g.nodes[n] EXCEPT !.role = y]
        OBVIOUS
      <4>4. z \in Process!G!Nodes /\ z.role = y
        BY <4>1, <4>3 DEF Process!G!Nodes
      <4>5. stating(n) = z
        BY <3>1, <4>2, <4>3
      <4> HIDE DEF stating
      <4> QED
        BY <4>1, <4>2, <4>4, <4>5, NothingIsNone
    <3>2. CASE ~Process!G!HasNode(g, n)
      BY <3>2
    <3> QED
      BY <3>1, <3>2
  <2> HIDE DEF stating
  <2>5. ns \in [Boxes -> Process!G!Nodes \cup {Absent}]
    BY <2>2, <2>4
  <2>6. h \in Process!G!Graphs /\ h.edges = g.edges /\ h.nodes = ns
    BY <2>3, <2>5 DEF Process!G!Graphs
  <2>7. \A n \in Boxes : Process!G!HasNode(h, n) <=> Process!G!HasNode(g, n)
    <3>1. ASSUME NEW n \in Boxes, ~Process!G!HasNode(g, n)
          PROVE  stating(n) = Absent
      BY <3>1 DEF stating
    <3> QED
      BY <2>2, <2>4, <2>6, <3>1 DEF Process!G!HasNode
  <2>8. Process!G!Valid(h)
    <3>1. ASSUME NEW e \in Arrows, Process!G!HasEdge(h, e)
          PROVE  /\ Process!G!HasNode(h, h.edges[e].source)
                 /\ Process!G!HasNode(h, h.edges[e].target)
      <4>1. Process!G!HasEdge(g, e) /\ h.edges[e] = g.edges[e]
        BY <2>6, <3>1 DEF Process!G!HasEdge
      <4>2. /\ Process!G!HasNode(g, g.edges[e].source)
            /\ Process!G!HasNode(g, g.edges[e].target)
            /\ g.edges[e].source \in Boxes /\ g.edges[e].target \in Boxes
        BY <4>1, BoxesPresent DEF Process!G!Valid, Process!G!Edges
      <4> QED
        BY <2>7, <4>1, <4>2
    <3>2. \A e, f \in Arrows : Process!G!HasEdge(h, e) /\ h.edges[e] = h.edges[f] => e = f
      BY <2>6 DEF Process!G!Valid, Process!G!HasEdge
    <3> QED
      BY <3>1, <3>2 DEF Process!G!Valid
  <2>9. NodesOf(h) = NodesOf(g)
    BY <2>7 DEF NodesOf
  <2>10. \A n \in NodesOf(g) :
           /\ Process!Content(g, n) \in Process!Contents
           /\ Process!Content(h, n) = Process!Stating(Process!Content(g, n))
    BY <2>2, <2>4, <2>6 DEF NodesOf, Process!Content
  <2> QED
    BY <1>1, <2>6, <2>8, <2>9, <2>10
<1> QED
  BY <1>3, <1>4

\* What the tab shows after c.
Shows(g, c) == Process!Normalized(Process!After(g, c))

\* It is a graph, valid.
LEMMA ShowsTyped ==
    ASSUME NEW g \in Process!G!Graphs, NEW c \in ProcessCommands, Process!Fits(g, c)
    PROVE  Shows(g, c) \in Process!G!Graphs /\ Process!G!Valid(Shows(g, c))
  BY AfterTyped, NormalizedFields DEF Shows

-----------------------------------------------------------------------------
(* Processes: the commands of a list that fit.                             *)

\* The step of Fitting.
NextFit(y, c) ==
    IF Process!Fits(y.graph, c)
      THEN [graph |-> Shows(y.graph, c), done |-> Append(y.done, c)]
      ELSE y

\* The recursive function of Fitting, over the first n commands of s.
FitsAlong(f, g, s, n) ==
    f = [k \in 0 .. n |-> IF k = 0 THEN [graph |-> g, done |-> <<>>]
                                   ELSE NextFit(f[k - 1], s[k])]

\* There is such a function.
LEMMA FitsAlongExists ==
    ASSUME NEW n \in Nat, NEW g, NEW s
    PROVE  \E f : FitsAlong(f, g, s, n)
<1> DEFINE S == {m \in 0 .. n : \E f : FitsAlong(f, g, s, m)}
<1>0. PICK first : first = [graph |-> g, done |-> <<>>]
  OBVIOUS
<1>1. 0 \in S
  <2>1. PICK f : f = [k \in 0 .. 0 |-> first]
    OBVIOUS
  <2>2. f = [k \in 0 .. 0 |-> IF k = 0 THEN first ELSE NextFit(f[k - 1], s[k])]
    BY <2>1
  <2>3. FitsAlong(f, g, s, 0)
    BY <1>0, <2>2 DEF FitsAlong
  <2> QED
    BY <2>3
<1>2. ASSUME NEW m \in 1 .. n, m - 1 \in S
      PROVE  m \in S
  <2>1. PICK f : FitsAlong(f, g, s, m - 1)
    BY <1>2
  <2>2. PICK last : last = NextFit(f[m - 1], s[m])
    OBVIOUS
  <2>3. PICK h : h = [k \in 0 .. m |-> IF k = m THEN last ELSE f[k]]
    OBVIOUS
  <2>4. \A k \in 0 .. (m - 1) : f[k] = IF k = 0 THEN first ELSE NextFit(f[k - 1], s[k])
    BY <1>0, <2>1 DEF FitsAlong
  <2>5. ASSUME NEW k \in 0 .. m
        PROVE  h[k] = IF k = 0 THEN first ELSE NextFit(h[k - 1], s[k])
    <3>1. CASE k = m
      <4>1. m - 1 \in 0 .. m /\ m - 1 # m /\ m # 0
        OBVIOUS
      <4>2. h[m - 1] = f[m - 1] /\ h[m] = last
        BY <2>3, <4>1
      <4> QED
        BY <2>2, <3>1, <4>1, <4>2
    <3>2. CASE k # m
      <4>1. k \in 0 .. (m - 1) /\ h[k] = f[k]
        BY <2>3, <3>2
      <4>2. CASE k = 0
        BY <2>4, <4>1, <4>2
      <4>3. CASE k # 0
        <5>1. k - 1 \in 0 .. m /\ k - 1 # m
          BY <4>3
        <5>2. h[k - 1] = f[k - 1]
          BY <2>3, <5>1
        <5>3. f[k] = NextFit(f[k - 1], s[k])
          BY <2>4, <4>1, <4>3
        <5> QED
          BY <4>1, <4>3, <5>2, <5>3
      <4> QED
        BY <4>2, <4>3
    <3> QED
      BY <3>1, <3>2
  <2>6. h = [k \in 0 .. m |-> h[k]]
    BY <2>3
  <2>7. FitsAlong(h, g, s, m)
    BY <1>0, <2>5, <2>6 DEF FitsAlong
  <2> QED
    BY <2>7
<1>3. n \in S
  <2> HIDE DEF S
  <2>1. Hereditary(S, n)
    BY <1>1, <1>2 DEF Hereditary
  <2> QED
    BY <2>1, UpTo
<1> QED
  BY <1>3

\* The graphs, and the commands that fit, after each of the first n commands of s.
Fit(f, g, s, n) ==
    /\ f[0] = [graph |-> g, done |-> <<>>]
    /\ \A k \in 1 .. n : f[k] = NextFit(f[k - 1], s[k])

\* Fitting is the last of them.
LEMMA FittingIsLast ==
    ASSUME NEW g, NEW s, NEW n \in Nat, Len(s) = n
    PROVE  \E f : Fit(f, g, s, n) /\ Process!Fitting(g, s) = f[n]
<1>1. PICK f : f = CHOOSE any : FitsAlong(any, g, s, n)
  OBVIOUS
<1>2. FitsAlong(f, g, s, n)
  BY <1>1, FitsAlongExists
<1>3. Process!Fitting(g, s) = f[n]
  BY <1>1 DEF Process!Fitting, FitsAlong, NextFit, Shows
<1>4. \A k \in 0 .. n : f[k] = IF k = 0 THEN [graph |-> g, done |-> <<>>]
                                         ELSE NextFit(f[k - 1], s[k])
  BY <1>2 DEF FitsAlong
<1>5. Fit(f, g, s, n)
  BY <1>4 DEF Fit
<1> QED
  BY <1>3, <1>5

\* One more command.
LEMMA NextFitTyped ==
    ASSUME NEW y, y.graph \in Process!G!Graphs, Process!G!Valid(y.graph),
           y.done \in Seq(ProcessCommands), NEW c \in ProcessCommands
    PROVE  /\ NextFit(y, c).graph \in Process!G!Graphs
           /\ Process!G!Valid(NextFit(y, c).graph)
           /\ NextFit(y, c).done \in Seq(ProcessCommands)
           /\ Process!Fits(y.graph, c) =>
                /\ NextFit(y, c).graph = Shows(y.graph, c)
                /\ NextFit(y, c).done = Append(y.done, c)
           /\ ~Process!Fits(y.graph, c) => NextFit(y, c) = y
<1>1. CASE Process!Fits(y.graph, c)
  <2>1. PICK h \in Process!G!Graphs : h = Shows(y.graph, c) /\ Process!G!Valid(h)
    BY <1>1, ShowsTyped
  <2>2. PICK d \in Seq(ProcessCommands) : d = Append(y.done, c)
    BY AppendProperties
  <2>3. NextFit(y, c) = [graph |-> h, done |-> d]
    BY <1>1, <2>1, <2>2 DEF NextFit
  <2>4. NextFit(y, c).graph = h /\ NextFit(y, c).done = d
    BY <2>3
  <2> QED
    BY <1>1, <2>1, <2>2, <2>4
<1>2. CASE ~Process!Fits(y.graph, c)
  <2>1. NextFit(y, c) = y
    BY <1>2 DEF NextFit
  <2> QED
    BY <1>2, <2>1
<1> QED
  BY <1>1, <1>2

\* A valid graph stays one.
LEMMA FitTyped ==
    ASSUME NEW g \in Process!G!Graphs, Process!G!Valid(g), NEW s \in Seq(ProcessCommands),
           NEW n \in Nat, Len(s) = n, NEW f, Fit(f, g, s, n), NEW k \in 0 .. n
    PROVE  /\ f[k].graph \in Process!G!Graphs
           /\ Process!G!Valid(f[k].graph)
           /\ f[k].done \in Seq(ProcessCommands)
<1> DEFINE Ok(m) == /\ f[m].graph \in Process!G!Graphs
                    /\ Process!G!Valid(f[m].graph)
                    /\ f[m].done \in Seq(ProcessCommands)
           S == {m \in 0 .. k : Ok(m)}
<1>1. 0 \in S
  <2>1. f[0] = [graph |-> g, done |-> <<>>]
    BY DEF Fit
  <2>2. f[0].graph = g /\ f[0].done = <<>>
    BY <2>1
  <2>3. f[0].done \in Seq(ProcessCommands)
    BY <2>2
  <2>4. Ok(0)
    BY <2>2, <2>3, Zenon
  <2>5. 0 \in 0 .. k
    OBVIOUS
  <2> QED
    BY <2>4, <2>5
<1>2. ASSUME NEW m \in 1 .. k, m - 1 \in S
      PROVE  m \in S
  <2>1. Ok(m - 1)
    BY <1>2
  <2>2. m \in 1 .. n /\ s[m] \in ProcessCommands
    OBVIOUS
  <2>3. f[m] = NextFit(f[m - 1], s[m])
    BY <2>2 DEF Fit
  <2>4. Ok(m)
    BY <2>1, <2>2, <2>3, NextFitTyped
  <2> QED
    BY <2>4
<1>3. k \in S
  <2> HIDE DEF S
  <2>1. Hereditary(S, k)
    BY <1>1, <1>2 DEF Hereditary
  <2> QED
    BY <2>1, UpTo
<1> QED
  BY <1>3

-----------------------------------------------------------------------------
(* Processes: the queue.                                                   *)

Plain == {"addNode", "removeNode", "addEdge", "removeEdge"}

\* c sets the kind of its node, and nothing else.
SetsKindAlone(c) == c.type = "updateNode" /\ DOMAIN c.patch = {"kind"}

\* The server takes c of the graph g, or is free to refuse it; a kind alone is of a page.
Judged(technical, g, c) ==
    /\ \/ c.by = "repair"
       \/ c.by = "hand" /\ c.type = "updateNode"
       \/ c.by = "paste" /\ technical
       \/ c.type \in Plain /\ Process!ServerTakes(g, c)
    /\ SetsKindAlone(c) => Process!Content(g, c.id).kind = "page"

\* The graphs from g to h on the way through the commands of s.
Track(technical, g, s, h, track) ==
    /\ track \in [0 .. Len(s) -> Process!G!Graphs]
    /\ track[0] = g /\ track[Len(s)] = h
    /\ \A k \in 1 .. Len(s) : /\ Process!Fits(track[k - 1], s[k])
                              /\ track[k] = Shows(track[k - 1], s[k])
                              /\ Judged(technical, track[k - 1], s[k])

\* The commands of s, each as it was judged, lead from g to h.
Leads(technical, g, s, h) == \E track : Track(technical, g, s, h, track)

\* No command leads nowhere else.
LEMMA LeadsNowhere ==
    ASSUME NEW technical, NEW g \in Process!G!Graphs
    PROVE  Leads(technical, g, <<>>, g)
<1>1. PICK t : t = [k \in 0 .. 0 |-> g]
  OBVIOUS
<1>2. Len(<<>>) = 0
  OBVIOUS
<1>3. t \in [0 .. 0 -> Process!G!Graphs] /\ t[0] = g
  BY <1>1
<1>4. Track(technical, g, <<>>, g, t)
  BY <1>2, <1>3 DEF Track
<1> QED
  BY <1>4 DEF Leads

\* One more command that fits.
LEMMA LeadsAppend ==
    ASSUME NEW technical, NEW s \in Seq(ProcessCommands), NEW g, NEW h,
           NEW c \in ProcessCommands, Leads(technical, g, s, h), Process!Fits(h, c),
           Shows(h, c) \in Process!G!Graphs, Judged(technical, h, c)
    PROVE  Leads(technical, g, Append(s, c), Shows(h, c))
<1>1. PICK t : Track(technical, g, s, h, t)
  BY DEF Leads
<1>2. PICK n \in Nat : n = Len(s)
  OBVIOUS
<1>3. /\ t \in [0 .. n -> Process!G!Graphs] /\ t[0] = g /\ t[n] = h
      /\ \A k \in 1 .. n : /\ Process!Fits(t[k - 1], s[k])
                           /\ t[k] = Shows(t[k - 1], s[k])
                           /\ Judged(technical, t[k - 1], s[k])
  BY <1>1, <1>2 DEF Track
<1>4. PICK x \in Process!G!Graphs : x = Shows(h, c)
  OBVIOUS
<1>5. PICK u : u = [k \in 0 .. n + 1 |-> IF k = n + 1 THEN x ELSE t[k]]
  OBVIOUS
<1>6. PICK r \in Seq(ProcessCommands) : r = Append(s, c)
  BY AppendProperties
<1>7. /\ Len(r) = n + 1 /\ r[n + 1] = c
      /\ \A k \in 1 .. n : r[k] = s[k]
  BY <1>2, <1>6
<1>8. u \in [0 .. n + 1 -> Process!G!Graphs] /\ u[0] = g /\ u[n + 1] = x
  BY <1>3, <1>5
<1>9. ASSUME NEW k \in 1 .. n + 1
      PROVE  /\ Process!Fits(u[k - 1], r[k])
             /\ u[k] = Shows(u[k - 1], r[k])
             /\ Judged(technical, u[k - 1], r[k])
  <2>1. CASE k = n + 1
    <3>1. u[k - 1] = h /\ u[k] = x /\ r[k] = c
      BY <1>3, <1>5, <1>7, <2>1
    <3> QED
      BY <1>4, <3>1
  <2>2. CASE k # n + 1
    <3>1. k \in 1 .. n /\ k - 1 \in 0 .. n
      BY <2>2
    <3>2. u[k - 1] = t[k - 1] /\ u[k] = t[k] /\ r[k] = s[k]
      BY <1>5, <1>7, <3>1
    <3> QED
      BY <1>3, <3>1, <3>2
  <2> QED
    BY <2>1, <2>2
<1>10. Track(technical, g, r, x, u)
  BY <1>7, <1>8, <1>9 DEF Track
<1> QED
  BY <1>4, <1>6, <1>10 DEF Leads

\* The first command fits and was judged, and the others lead on from what it leaves.
LEMMA LeadsTail ==
    ASSUME NEW technical, NEW s \in Seq(ProcessCommands), NEW g, NEW h,
           Leads(technical, g, s, h), s # <<>>
    PROVE  /\ Head(s) \in ProcessCommands
           /\ Process!Fits(g, Head(s)) /\ Judged(technical, g, Head(s))
           /\ Leads(technical, Shows(g, Head(s)), Tail(s), h)
<1>1. PICK t : Track(technical, g, s, h, t)
  BY DEF Leads
<1>2. PICK n \in Nat : n + 1 = Len(s)
  <2>1. Len(s) \in Nat /\ Len(s) # 0
    OBVIOUS
  <2> QED
    BY <2>1
<1>3. /\ t \in [0 .. n + 1 -> Process!G!Graphs] /\ t[0] = g /\ t[n + 1] = h
      /\ \A k \in 1 .. n + 1 : /\ Process!Fits(t[k - 1], s[k])
                               /\ t[k] = Shows(t[k - 1], s[k])
                               /\ Judged(technical, t[k - 1], s[k])
  BY <1>1, <1>2 DEF Track
<1>4. PICK c \in ProcessCommands : c = Head(s) /\ c = s[1]
  BY <1>2
<1>5. /\ Process!Fits(g, c) /\ Judged(technical, g, c)
      /\ t[1] = Shows(g, c) /\ t[1] \in Process!G!Graphs
  <2>1. 1 \in 1 .. n + 1 /\ 1 \in 0 .. n + 1 /\ 1 - 1 = 0
    OBVIOUS
  <2>2. /\ Process!Fits(t[1 - 1], s[1]) /\ t[1] = Shows(t[1 - 1], s[1])
        /\ Judged(technical, t[1 - 1], s[1])
    BY <1>3, <2>1
  <2> QED
    BY <1>3, <1>4, <2>1, <2>2
<1>6. PICK r \in Seq(ProcessCommands) : r = Tail(s)
  BY HeadTailProperties
<1>7. Len(r) = n /\ \A k \in 1 .. n : r[k] = s[k + 1]
  BY <1>2, <1>6
<1>8. PICK u : u = [k \in 0 .. n |-> t[k + 1]]
  OBVIOUS
<1>9. u \in [0 .. n -> Process!G!Graphs] /\ u[0] = t[1] /\ u[n] = h
  BY <1>3, <1>8
<1>10. ASSUME NEW k \in 1 .. n
       PROVE  /\ Process!Fits(u[k - 1], r[k])
              /\ u[k] = Shows(u[k - 1], r[k])
              /\ Judged(technical, u[k - 1], r[k])
  <2>1. k + 1 \in 1 .. n + 1 /\ k - 1 \in 0 .. n /\ (k + 1) - 1 = k /\ (k - 1) + 1 = k
    OBVIOUS
  <2>2. /\ Process!Fits(t[(k + 1) - 1], s[k + 1])
        /\ t[k + 1] = Shows(t[(k + 1) - 1], s[k + 1])
        /\ Judged(technical, t[(k + 1) - 1], s[k + 1])
    BY <1>3, <2>1
  <2>3. u[k - 1] = t[k] /\ u[k] = t[k + 1] /\ r[k] = s[k + 1]
    BY <1>7, <1>8, <2>1
  <2> QED
    BY <2>1, <2>2, <2>3
<1>11. Track(technical, t[1], r, h, u)
  BY <1>7, <1>9, <1>10 DEF Track
<1> QED
  BY <1>4, <1>5, <1>6, <1>11 DEF Leads

\* The commands of a list that fit, each judged on the graph it fits, lead on.
LEMMA LeadsAlong ==
    ASSUME NEW technical, NEW first, NEW q \in Seq(ProcessCommands),
           NEW g \in Process!G!Graphs, Process!G!Valid(g), Leads(technical, first, q, g),
           NEW s \in Seq(ProcessCommands), NEW n \in Nat, Len(s) = n, NEW f, Fit(f, g, s, n),
           \A k \in 1 .. n : Process!Fits(f[k - 1].graph, s[k]) =>
                               Judged(technical, f[k - 1].graph, s[k])
    PROVE  Leads(technical, first, q \o f[n].done, f[n].graph)
<1> DEFINE Ok(m) == Leads(technical, first, q \o f[m].done, f[m].graph)
           S == {m \in 0 .. n : Ok(m)}
<1>1. 0 \in S
  <2>1. f[0] = [graph |-> g, done |-> <<>>]
    BY DEF Fit
  <2>2. f[0].graph = g /\ f[0].done = <<>>
    BY <2>1
  <2>3. q \o f[0].done = q
    BY <2>2
  <2>4. Ok(0)
    BY <2>2, <2>3, Zenon
  <2>5. 0 \in 0 .. n
    OBVIOUS
  <2> QED
    BY <2>4, <2>5
<1>2. ASSUME NEW m \in 1 .. n, m - 1 \in S
      PROVE  m \in S
  <2>1. Ok(m - 1) /\ m - 1 \in 0 .. n
    BY <1>2
  <2>2. PICK c \in ProcessCommands : c = s[m]
    OBVIOUS
  <2>3. PICK y : y = f[m - 1]
    OBVIOUS
  <2>4. f[m] = NextFit(y, c)
    BY <2>2, <2>3 DEF Fit
  <2>5. /\ y.graph \in Process!G!Graphs /\ Process!G!Valid(y.graph)
        /\ y.done \in Seq(ProcessCommands)
    BY <2>1, <2>3, FitTyped
  <2>6. CASE Process!Fits(y.graph, c)
    <3>1. Judged(technical, y.graph, c)
      BY <2>2, <2>3, <2>6
    <3>2. /\ f[m].graph = Shows(y.graph, c)
          /\ f[m].graph \in Process!G!Graphs
          /\ f[m].done = Append(y.done, c)
      BY <2>4, <2>5, <2>6, NextFitTyped
    <3>3. PICK d \in Seq(ProcessCommands) : d = q \o y.done
      BY <2>5, ConcatProperties
    <3>4. q \o f[m].done = Append(d, c)
      BY <2>5, <3>2, <3>3
    <3>5. Leads(technical, first, d, y.graph)
      BY <2>1, <2>3, <3>3, Zenon
    <3>6. Leads(technical, first, Append(d, c), f[m].graph)
      BY <2>6, <3>1, <3>2, <3>5, LeadsAppend
    <3>7. Ok(m)
      BY <3>4, <3>6, Zenon
    <3> QED
      BY <3>7
  <2>7. CASE ~Process!Fits(y.graph, c)
    <3>1. f[m] = y
      BY <2>4, <2>5, <2>7, NextFitTyped
    <3>2. Ok(m)
      BY <2>1, <2>3, <3>1, Zenon
    <3> QED
      BY <3>2
  <2> QED
    BY <2>6, <2>7
<1>3. n \in S
  <2> HIDE DEF S
  <2>1. Hereditary(S, n)
    BY <1>1, <1>2 DEF Hereditary
  <2> QED
    BY <2>1, UpTo
<1> QED
  BY <1>3

-----------------------------------------------------------------------------
(* Processes: what the server takes.                                       *)

\* The server takes what it does not judge.
LEMMA TakesPlain ==
    ASSUME NEW g, NEW c \in ProcessCommands, Process!Fits(g, c),
           c.type \in {"addNode", "removeNode", "removeEdge"}
    PROVE  Process!ServerTakes(g, c)
<1>1. Process!Full(g, c) = c
  BY DEF Process!Full
<1>2. Process!KindChangeIsFree(g, c)
  BY DEF Process!KindChangeIsFree
<1>3. Process!G!Enforces(g, c)
  BY DEF Process!G!Enforces
<1> QED
  BY <1>1, <1>2, <1>3, Zenon DEF Process!ServerTakes

\* A relation that fits ends at nodes.
LEMMA EndsThere ==
    ASSUME NEW g \in Process!G!Graphs, NEW c \in ProcessCommands, c.type = "addEdge",
           Process!Fits(g, c)
    PROVE  /\ c.edge \in Process!G!Edges
           /\ Process!G!HasNode(g, c.edge.source)
           /\ Process!G!HasNode(g, c.edge.target)
<1>1. c.id \in Arrows /\ c.edge \in Process!G!Edges
  BY ProcessFields
<1>2. PICK h : h = Process!G!SetEdge(g, c.id, c.edge)
  OBVIOUS
<1>3. h.nodes = g.nodes /\ h.edges[c.id] = c.edge
  BY <1>1, <1>2, ArrowFields
<1>4. Process!After(g, c) = h
  BY <1>2 DEF Process!After, Process!Full, Process!G!Apply
<1>5. Process!G!Valid(h)
  BY <1>4, AfterTyped
<1>6. Process!G!HasEdge(h, c.id)
  BY <1>1, <1>3, NothingIsNone DEF Process!G!HasEdge
<1>7. /\ Process!G!HasNode(h, c.edge.source)
      /\ Process!G!HasNode(h, c.edge.target)
  BY <1>1, <1>3, <1>5, <1>6 DEF Process!G!Valid
<1> QED
  BY <1>1, <1>3, <1>7 DEF Process!G!HasNode

\* The rules, by the roles of the ends.
LEMMA AllowedByRoles ==
    ASSUME NEW g \in Process!G!Graphs, NEW edge \in Process!G!Edges,
           Process!G!HasNode(g, edge.source), Process!G!HasNode(g, edge.target)
    PROVE  Process!G!AllowedIn(g, edge) <=>
             edge.kind \in Process!KindsBetween(
                             Process!RoleOf(Process!Content(g, edge.source)),
                             Process!RoleOf(Process!Content(g, edge.target)))
<1>1. edge.source \in Boxes /\ edge.target \in Boxes
  BY DEF Process!G!Edges
<1>2. /\ g.nodes[edge.source].role \in Process!Contents
      /\ g.nodes[edge.target].role \in Process!Contents
  BY <1>1, BoxesPresent DEF Process!G!Nodes
<1>3. PICK x \in Process!Contents, y \in Process!Contents :
        x = g.nodes[edge.source].role /\ y = g.nodes[edge.target].role
  BY <1>2
<1>4. Process!Rules[<<x, y>>] = Process!KindsBetween(Process!RoleOf(x), Process!RoleOf(y))
  BY DEF Process!Rules
<1> QED
  BY <1>3, <1>4 DEF Process!G!AllowedIn, Process!Content

\* The server takes a relation that the rules allow.
LEMMA TakesAllowed ==
    ASSUME NEW g \in Process!G!Graphs, NEW c \in ProcessCommands, c.type = "addEdge",
           Process!Fits(g, c),
           c.edge.kind \in Process!KindsBetween(
                             Process!RoleOf(Process!Content(g, c.edge.source)),
                             Process!RoleOf(Process!Content(g, c.edge.target)))
    PROVE  Process!ServerTakes(g, c)
<1>1. Process!Full(g, c) = c
  BY DEF Process!Full
<1>2. Process!KindChangeIsFree(g, c)
  BY DEF Process!KindChangeIsFree
<1>3. Process!G!AllowedIn(g, c.edge)
  BY EndsThere, AllowedByRoles
<1>4. Process!G!Enforces(g, c)
  BY <1>3 DEF Process!G!Enforces
<1> QED
  BY <1>1, <1>2, <1>4, Zenon DEF Process!ServerTakes

-----------------------------------------------------------------------------
(* Processes: nodes.                                                       *)

AddedBy(s) == {n \in Boxes : \E i \in DOMAIN s : s[i].type = "addNode" /\ s[i].id = n}

\* The nodes that a command leaves, and their contents.
LEMMA AfterNodes ==
    ASSUME NEW g \in Process!G!Graphs, NEW c \in ProcessCommands, Process!Fits(g, c)
    PROVE  /\ c.type # "addNode" => NodesOf(Process!After(g, c)) \subseteq NodesOf(g)
           /\ c.type = "addNode" =>
                /\ c.id \in Boxes
                /\ NodesOf(Process!After(g, c)) = NodesOf(g) \cup {c.id}
                /\ Process!Content(Process!After(g, c), c.id) = c.node.role
                /\ \A n \in Boxes \ {c.id} : Process!After(g, c).nodes[n] = g.nodes[n]
                /\ Process!After(g, c).edges = g.edges
           /\ c.type = "updateNode" =>
                /\ c.id \in NodesOf(g) /\ NodesOf(Process!After(g, c)) = NodesOf(g)
                /\ Process!Content(g, c.id) \in Process!Contents
                /\ Process!Content(Process!After(g, c), c.id)
                     = Patched(Process!Content(g, c.id), c.patch)
                /\ \A n \in Boxes \ {c.id} : Process!After(g, c).nodes[n] = g.nodes[n]
                /\ Process!After(g, c).edges = g.edges
           /\ c.type = "removeNode" =>
                /\ c.id \in NodesOf(g) /\ NodesOf(Process!After(g, c)) = NodesOf(g) \ {c.id}
                /\ \A n \in Boxes \ {c.id} : Process!After(g, c).nodes[n] = g.nodes[n]
           /\ c.type \in {"addEdge", "updateEdge", "removeEdge"} =>
                Process!After(g, c).nodes = g.nodes
<1>1. Process!G!Finds(g, c)
  BY DEF Process!Fits
<1>2. CASE c.type = "addNode"
  <2>1. c.id \in Boxes /\ c.node \in Process!G!Nodes
    BY <1>2, ProcessFields
  <2>2. PICK h : h = Process!G!SetNode(g, c.id, c.node)
    OBVIOUS
  <2>3. Process!After(g, c) = h
    BY <1>2, <2>2 DEF Process!After, Process!Full, Process!G!Apply
  <2>4. /\ h.edges = g.edges
        /\ \A m \in Boxes : h.nodes[m] = IF m = c.id THEN c.node ELSE g.nodes[m]
    BY <2>1, <2>2, BoxFields
  <2>5. h.nodes[c.id] # Absent
    BY <2>1, <2>4, NothingIsNone
  <2>6. NodesOf(h) = NodesOf(g) \cup {c.id}
    BY <2>1, <2>4, <2>5 DEF NodesOf, Process!G!HasNode
  <2> QED
    BY <1>2, <2>1, <2>3, <2>4, <2>6 DEF Process!Content
<1>3. CASE c.type = "updateNode"
  <2>1. c.id \in Boxes /\ c.patch \in Patches
    BY <1>3, ProcessFields
  <2>2. Process!G!HasNode(g, c.id)
    BY <1>1, <1>3 DEF Process!G!Finds
  <2>3. PICK x : x = Process!Content(Process!WithPatch(g, c.id, c.patch), c.id)
    OBVIOUS
  <2>4. /\ x \in Process!Contents /\ Process!Content(g, c.id) \in Process!Contents
        /\ x = Patched(Process!Content(g, c.id), c.patch)
    <3>1. g.nodes[c.id] \in Process!G!Nodes
      BY <2>1, <2>2, BoxesPresent
    <3>2. Process!Content(g, c.id) \in Process!Contents
      BY <3>1 DEF Process!G!Nodes, Process!Content
    <3> QED
      BY <2>1, <2>2, <2>3, <3>2, PatchFields
  <2>5. PICK y : y = [g.nodes[c.id] EXCEPT !.role = x]
    OBVIOUS
  <2>6. y \in Process!G!Nodes /\ y.role = x
    <3>1. g.nodes[c.id] \in Process!G!Nodes
      BY <2>1, <2>2, BoxesPresent
    <3> QED
      BY <2>4, <2>5, <3>1 DEF Process!G!Nodes
  <2>7. PICK h : h = Process!G!SetNode(g, c.id, y)
    OBVIOUS
  <2>8. Process!After(g, c) = h
    <3>1. PICK f : f = [type |-> "updateNode", id |-> c.id, role |-> x]
      OBVIOUS
    <3>2. Process!Full(g, c) = f
      BY <1>3, <2>2, <2>3, <3>1, Zenon DEF Process!Full
    <3>3. f.type = "updateNode" /\ f.id = c.id /\ f.role = x
      BY <3>1
    <3> QED
      BY <2>5, <2>7, <3>2, <3>3 DEF Process!After, Process!G!Apply, Process!G!UpdateNode
  <2>9. /\ h.edges = g.edges
        /\ \A m \in Boxes : h.nodes[m] = IF m = c.id THEN y ELSE g.nodes[m]
    BY <2>1, <2>6, <2>7, BoxFields
  <2>10. y # Absent
    BY <2>6, NothingIsNone
  <2>11. NodesOf(h) = NodesOf(g) /\ c.id \in NodesOf(g)
    BY <2>1, <2>2, <2>9, <2>10 DEF NodesOf, Process!G!HasNode
  <2>12. Process!Content(h, c.id) = x
    BY <2>1, <2>6, <2>9 DEF Process!Content
  <2> QED
    BY <1>3, <2>4, <2>8, <2>9, <2>11, <2>12
<1>4. CASE c.type = "removeNode"
  <2>1. c.id \in Boxes
    BY <1>4, ProcessFields
  <2>2. PICK h : h = Process!G!RemoveNode(g, c)
    OBVIOUS
  <2>3. Process!After(g, c) = h
    BY <1>4, <2>2 DEF Process!After, Process!Full, Process!G!Apply
  <2>4. \A n \in Boxes : h.nodes[n] = IF n = c.id THEN Absent ELSE g.nodes[n]
    BY <2>1, <2>2, RemoveBoxFields
  <2>5. Process!G!HasNode(g, c.id)
    BY <1>1, <1>4 DEF Process!G!Finds
  <2> QED
    BY <1>4, <2>1, <2>3, <2>4, <2>5 DEF NodesOf, Process!G!HasNode
<1>5. CASE c.type \in {"addEdge", "updateEdge", "removeEdge"}
  <2>1. PICK y : Process!After(g, c) = Process!G!SetEdge(g, c.id, y)
    BY <1>5 DEF Process!After, Process!Full, Process!G!Apply, Process!G!UpdateEdge
  <2>2. PICK h : h = Process!After(g, c)
    OBVIOUS
  <2>3. h.nodes = g.nodes
    BY <2>1, <2>2 DEF Process!G!SetEdge, Process!G!Graphs
  <2> QED
    BY <1>5, <2>2, <2>3 DEF NodesOf, Process!G!HasNode
<1> QED
  BY <1>2, <1>3, <1>4, <1>5, ProcessFields

\* The same, as the tab shows them: of the roles they are of.
LEMMA ShowsNodes ==
    ASSUME NEW g \in Process!G!Graphs, NEW c \in ProcessCommands, Process!Fits(g, c)
    PROVE  /\ Shows(g, c).edges = Process!After(g, c).edges
           /\ NodesOf(Process!After(g, c)) \subseteq NodesOf(Shows(g, c))
           /\ NodesOf(Shows(g, c)) \subseteq NodesOf(Process!After(g, c)) \cup {MadeUp}
           /\ NodesOf(Process!After(g, c)) # {} =>
                NodesOf(Shows(g, c)) = NodesOf(Process!After(g, c))
           /\ \A n \in NodesOf(Process!After(g, c)) :
                /\ Process!Content(Shows(g, c), n)
                     = Process!Stating(Process!Content(Process!After(g, c), n))
                /\ Process!RoleOf(Process!Content(Shows(g, c), n))
                     = Process!RoleOf(Process!Content(Process!After(g, c), n))
<1>1. PICK h : h = Process!After(g, c)
  OBVIOUS
<1>2. h \in Process!G!Graphs /\ Process!G!Valid(h) /\ Shows(g, c) = Process!Normalized(h)
  BY <1>1, AfterTyped DEF Shows
<1>3. \A n \in NodesOf(h) :
        /\ Process!Content(h, n) \in Process!Contents
        /\ Process!Content(Process!Normalized(h), n) = Process!Stating(Process!Content(h, n))
  BY <1>2, NormalizedFields
<1>4. \A n \in NodesOf(h) : Process!RoleOf(Process!Content(Process!Normalized(h), n))
                              = Process!RoleOf(Process!Content(h, n))
  BY <1>3, StatingTyped
<1> QED
  BY <1>1, <1>2, <1>3, <1>4, NormalizedFields

\* A list of commands makes no nodes but those it adds, and one that is made up.
LEMMA FitNodes ==
    ASSUME NEW g \in Process!G!Graphs, Process!G!Valid(g), NEW s \in Seq(ProcessCommands),
           NEW n \in Nat, Len(s) = n, NEW f, Fit(f, g, s, n)
    PROVE  /\ NodesOf(f[n].graph) \subseteq NodesOf(g) \cup AddedBy(s) \cup {MadeUp}
           /\ AddedBy(f[n].done) \subseteq AddedBy(s)
<1> DEFINE Ok(m) == /\ NodesOf(f[m].graph) \subseteq NodesOf(g) \cup AddedBy(s) \cup {MadeUp}
                    /\ AddedBy(f[m].done) \subseteq AddedBy(s)
           S == {m \in 0 .. n : Ok(m)}
<1>1. 0 \in S
  <2>1. f[0] = [graph |-> g, done |-> <<>>]
    BY DEF Fit
  <2>2. f[0].graph = g /\ f[0].done = <<>>
    BY <2>1
  <2>3. AddedBy(<<>>) = {}
    BY DEF AddedBy
  <2>4. Ok(0)
    BY <2>2, <2>3
  <2>5. 0 \in 0 .. n
    OBVIOUS
  <2> QED
    BY <2>4, <2>5
<1>2. ASSUME NEW m \in 1 .. n, m - 1 \in S
      PROVE  m \in S
  <2>1. Ok(m - 1) /\ m - 1 \in 0 .. n
    BY <1>2
  <2>2. PICK c \in ProcessCommands : c = s[m]
    OBVIOUS
  <2>3. PICK y : y = f[m - 1]
    OBVIOUS
  <2>4. f[m] = NextFit(y, c)
    BY <2>2, <2>3 DEF Fit
  <2>5. /\ y.graph \in Process!G!Graphs /\ Process!G!Valid(y.graph)
        /\ y.done \in Seq(ProcessCommands)
    BY <2>1, <2>3, FitTyped
  <2>6. c.type = "addNode" => c.id \in AddedBy(s)
    <3>1. m \in DOMAIN s
      OBVIOUS
    <3> QED
      BY <2>2, <3>1, ProcessFields DEF AddedBy
  <2>7. CASE Process!Fits(y.graph, c)
    <3>1. /\ f[m].graph = Shows(y.graph, c)
          /\ f[m].done = Append(y.done, c)
      BY <2>4, <2>5, <2>7, NextFitTyped
    <3>2. NodesOf(f[m].graph) \subseteq NodesOf(g) \cup AddedBy(s) \cup {MadeUp}
      <4>1. PICK N : N = NodesOf(Process!After(y.graph, c))
        OBVIOUS
      <4>2. /\ c.type # "addNode" => N \subseteq NodesOf(y.graph)
            /\ c.type = "addNode" => N = NodesOf(y.graph) \cup {c.id}
        BY <2>5, <2>7, <4>1, AfterNodes
      <4>3. NodesOf(f[m].graph) \subseteq N \cup {MadeUp}
        BY <2>5, <2>7, <3>1, <4>1, ShowsNodes
      <4> QED
        BY <2>1, <2>3, <2>6, <4>2, <4>3
    <3>3. ASSUME NEW b1 \in AddedBy(f[m].done)
          PROVE  b1 \in AddedBy(s)
      <4>1. PICK i \in DOMAIN Append(y.done, c) :
              Append(y.done, c)[i].type = "addNode" /\ Append(y.done, c)[i].id = b1
        BY <3>1, <3>3 DEF AddedBy
      <4>2. CASE i = Len(y.done) + 1
        <5>1. Append(y.done, c)[i] = c
          BY <2>5, <4>2
        <5> QED
          BY <2>6, <4>1, <5>1
      <4>3. CASE i # Len(y.done) + 1
        <5>1. i \in DOMAIN y.done /\ Append(y.done, c)[i] = y.done[i]
          BY <2>5, <4>1, <4>3
        <5>2. b1 \in AddedBy(y.done)
          BY <3>3, <4>1, <5>1 DEF AddedBy
        <5> QED
          BY <2>1, <2>3, <5>2
      <4> QED
        BY <4>2, <4>3
    <3>4. Ok(m)
      BY <3>2, <3>3
    <3> QED
      BY <3>4
  <2>8. CASE ~Process!Fits(y.graph, c)
    <3>1. f[m] = y
      BY <2>4, <2>5, <2>8, NextFitTyped
    <3>2. Ok(m)
      BY <2>1, <2>3, <3>1, Zenon
    <3> QED
      BY <3>2
  <2> QED
    BY <2>7, <2>8
<1>3. n \in S
  <2> HIDE DEF S
  <2>1. Hereditary(S, n)
    BY <1>1, <1>2 DEF Hereditary
  <2> QED
    BY <2>1, UpTo
<1> QED
  BY <1>3

\* Whether n of h is a node of g, or of the role of one that s added.
FromList(g, h, s, n) ==
    \/ n \in NodesOf(g) \cup {MadeUp}
    \/ \E i \in DOMAIN s :
         /\ s[i].type = "addNode" /\ s[i].id = n
         /\ Process!RoleOf(Process!Content(h, n)) = Process!RoleOf(s[i].node.role)

\* What a list that only adds leaves of the nodes.
LEMMA FitContents ==
    ASSUME NEW g \in Process!G!Graphs, Process!G!Valid(g), NEW s \in Seq(ProcessCommands),
           \A i \in DOMAIN s : s[i].type \in {"addNode", "addEdge"},
           NEW n \in Nat, Len(s) = n, NEW f, Fit(f, g, s, n), NEW k \in 0 .. n
    PROVE  \A b1 \in NodesOf(f[k].graph) : FromList(g, f[k].graph, s, b1)
<1> DEFINE Ok(m) == \A b1 \in NodesOf(f[m].graph) : FromList(g, f[m].graph, s, b1)
           S == {m \in 0 .. k : Ok(m)}
<1>1. 0 \in S
  <2>1. f[0] = [graph |-> g, done |-> <<>>]
    BY DEF Fit
  <2>2. f[0].graph = g
    BY <2>1
  <2>3. Ok(0)
    BY <2>2 DEF FromList
  <2>4. 0 \in 0 .. k
    OBVIOUS
  <2> QED
    BY <2>3, <2>4
<1>2. ASSUME NEW m \in 1 .. k, m - 1 \in S
      PROVE  m \in S
  <2>1. Ok(m - 1) /\ m - 1 \in 0 .. n /\ m \in 1 .. n /\ m \in DOMAIN s
    BY <1>2
  <2>2. PICK c \in ProcessCommands : c = s[m]
    BY <2>1
  <2>3. PICK y : y = f[m - 1]
    OBVIOUS
  <2>4. f[m] = NextFit(y, c)
    BY <2>1, <2>2, <2>3 DEF Fit
  <2>5. /\ y.graph \in Process!G!Graphs /\ Process!G!Valid(y.graph)
        /\ y.done \in Seq(ProcessCommands)
    BY <2>1, <2>3, FitTyped
  <2>6. CASE Process!Fits(y.graph, c)
    <3>1. PICK u, v : /\ u = Process!After(y.graph, c) /\ v = Shows(y.graph, c)
                      /\ f[m].graph = v
      BY <2>4, <2>5, <2>6, NextFitTyped
    <3>2. c.type \in {"addNode", "addEdge"}
      BY <2>1, <2>2
    <3>3. /\ NodesOf(v) \subseteq NodesOf(u) \cup {MadeUp}
          /\ \A x \in NodesOf(u) : Process!RoleOf(Process!Content(v, x))
                                     = Process!RoleOf(Process!Content(u, x))
      BY <2>5, <2>6, <3>1, ShowsNodes
    <3>4. /\ c.type = "addNode" =>
               /\ NodesOf(u) = NodesOf(y.graph) \cup {c.id}
               /\ Process!Content(u, c.id) = c.node.role
               /\ \A x \in Boxes \ {c.id} : u.nodes[x] = y.graph.nodes[x]
          /\ c.type = "addEdge" =>
               NodesOf(u) \subseteq NodesOf(y.graph) /\ u.nodes = y.graph.nodes
      BY <2>5, <2>6, <3>1, AfterNodes
    <3>5. ASSUME NEW b1 \in NodesOf(v)
          PROVE  FromList(g, v, s, b1)
      <4>1. CASE b1 = MadeUp
        BY <4>1 DEF FromList
      <4>2. CASE b1 # MadeUp /\ c.type = "addNode" /\ b1 = c.id
        <5>1. Process!RoleOf(Process!Content(v, b1)) = Process!RoleOf(c.node.role)
          BY <3>3, <3>4, <3>5, <4>2
        <5> QED
          BY <2>1, <2>2, <4>2, <5>1 DEF FromList
      <4>3. CASE b1 # MadeUp /\ ~(c.type = "addNode" /\ b1 = c.id)
        <5>1. b1 \in Boxes /\ b1 \in NodesOf(u)
          BY <3>3, <3>5, <4>3 DEF NodesOf
        <5>2. b1 \in NodesOf(y.graph) /\ u.nodes[b1] = y.graph.nodes[b1]
          BY <3>2, <3>4, <4>3, <5>1
        <5>3. Process!RoleOf(Process!Content(v, b1))
                = Process!RoleOf(Process!Content(y.graph, b1))
          BY <3>3, <5>1, <5>2 DEF Process!Content
        <5>4. FromList(g, y.graph, s, b1)
          BY <2>1, <2>3, <5>2
        <5> QED
          BY <5>3, <5>4 DEF FromList
      <4> QED
        BY <4>1, <4>2, <4>3
    <3> QED
      BY <2>1, <3>1, <3>5
  <2>7. CASE ~Process!Fits(y.graph, c)
    <3>1. f[m] = y
      BY <2>4, <2>5, <2>7, NextFitTyped
    <3>2. Ok(m)
      BY <2>1, <2>3, <3>1
    <3> QED
      BY <3>2
  <2> QED
    BY <2>6, <2>7
<1>3. k \in S
  <2> HIDE DEF S
  <2>1. Hereditary(S, k)
    BY <1>1, <1>2 DEF Hereditary
  <2> QED
    BY <2>1, UpTo
<1> QED
  BY <1>3

\* What two lists add together.
LEMMA AddedByBoth ==
    ASSUME NEW s \in Seq(ProcessCommands), NEW q \in Seq(ProcessCommands)
    PROVE  AddedBy(s \o q) \subseteq AddedBy(s) \cup AddedBy(q)
<1>1. SUFFICES ASSUME NEW n \in AddedBy(s \o q)
               PROVE  n \in AddedBy(s) \cup AddedBy(q)
  OBVIOUS
<1>2. PICK i \in DOMAIN (s \o q) : (s \o q)[i].type = "addNode" /\ (s \o q)[i].id = n
  BY DEF AddedBy
<1>3. n \in Boxes
  BY DEF AddedBy
<1>4. CASE i <= Len(s)
  <2>1. i \in DOMAIN s /\ (s \o q)[i] = s[i]
    BY <1>2, <1>4
  <2> QED
    BY <1>2, <1>3, <2>1 DEF AddedBy
<1>5. CASE ~(i <= Len(s))
  <2>1. i - Len(s) \in DOMAIN q /\ (s \o q)[i] = q[i - Len(s)]
    BY <1>2, <1>5
  <2> QED
    BY <1>2, <1>3, <2>1 DEF AddedBy
<1> QED
  BY <1>4, <1>5

\* What applyLocalCommandAndQueue() does to the canvas g and the queue q that led to it.
LEMMA LocallyFits ==
    ASSUME NEW technical, NEW only, NEW first, NEW q \in Seq(ProcessCommands),
           NEW g \in Process!G!Graphs, Process!G!Valid(g),
           only => Leads(technical, first, q, g),
           NEW s \in Seq(ProcessCommands),
           \A f : Fit(f, g, s, Len(s)) =>
                    \A k \in 1 .. Len(s) : Process!Fits(f[k - 1].graph, s[k]) =>
                                             Judged(technical, f[k - 1].graph, s[k])
    PROVE  LET x == Process!Fitting(g, s)
           IN  /\ x.graph \in Process!G!Graphs /\ Process!G!Valid(x.graph)
               /\ x.done \in Seq(ProcessCommands)
               /\ q \o x.done \in Seq(ProcessCommands)
               /\ NodesOf(x.graph) \subseteq NodesOf(g) \cup AddedBy(s) \cup {MadeUp}
               /\ AddedBy(q \o x.done) \subseteq AddedBy(q) \cup AddedBy(s)
               /\ only => Leads(technical, first, q \o x.done, x.graph)
<1>1. PICK n \in Nat : Len(s) = n
  OBVIOUS
<1>2. PICK f : Fit(f, g, s, n) /\ Process!Fitting(g, s) = f[n]
  BY <1>1, FittingIsLast
<1>3. PICK x : x = f[n]
  OBVIOUS
<1>4. /\ x.graph \in Process!G!Graphs /\ Process!G!Valid(x.graph)
      /\ x.done \in Seq(ProcessCommands)
  <2>1. n \in 0 .. n
    OBVIOUS
  <2> QED
    BY <1>1, <1>2, <1>3, <2>1, FitTyped
<1>5. /\ NodesOf(x.graph) \subseteq NodesOf(g) \cup AddedBy(s) \cup {MadeUp}
      /\ AddedBy(x.done) \subseteq AddedBy(s)
  BY <1>1, <1>2, <1>3, FitNodes
<1>6. q \o x.done \in Seq(ProcessCommands)
  BY <1>4, ConcatProperties
<1>7. AddedBy(q \o x.done) \subseteq AddedBy(q) \cup AddedBy(s)
  BY <1>4, <1>5, AddedByBoth
<1>8. ASSUME only PROVE Leads(technical, first, q \o x.done, x.graph)
  <2>1. \A k \in 1 .. n : Process!Fits(f[k - 1].graph, s[k]) =>
                            Judged(technical, f[k - 1].graph, s[k])
    BY <1>1, <1>2
  <2>2. Leads(technical, first, q \o f[n].done, f[n].graph)
    BY <1>1, <1>2, <1>8, <2>1, LeadsAlong
  <2> QED
    BY <1>3, <2>2, Zenon
<1> QED
  BY <1>2, <1>3, <1>4, <1>5, <1>6, <1>7, <1>8

-----------------------------------------------------------------------------
(* Processes: the state of a tab.                                          *)

\* A repair that is offered.
PendingOk(p) ==
    /\ p.id \in Boxes /\ p.patch \in Process!Contents
    /\ p.plan.fallback => p.patch.kind = "page"
    /\ DOMAIN p.plan.edges \subseteq Arrows
    /\ \A e \in DOMAIN p.plan.edges : p.plan.edges[e] \in Process!ProcessEdges \cup {"none"}

\* The nodes of the two graphs, those on their way and the one that is made up.
Seen(g, h, q) == NodesOf(g) \cup NodesOf(h) \cup AddedBy(q) \cup {MadeUp}

\* The rules allow the relation c between the nodes that the list adds.
Agreed(s, c) ==
    \A i, j \in DOMAIN s :
      /\ s[i].type = "addNode" /\ s[i].id = c.edge.source
      /\ s[j].type = "addNode" /\ s[j].id = c.edge.target
      => c.edge.kind \in Process!KindsBetween(Process!RoleOf(s[i].node.role),
                                             Process!RoleOf(s[j].node.role))

\* A list that adds new nodes, and relations among them.
Copies(s, seen) ==
    /\ s \in Seq(ProcessCommands)
    /\ \A i \in DOMAIN s : s[i].by = "paste" /\ s[i].type \in {"addNode", "addEdge"}
    /\ AddedBy(s) \cap seen = {}
    /\ \A i, j \in DOMAIN s : s[i].type = "addNode" /\ s[j].type = "addNode"
                                /\ s[i].id = s[j].id => s[i] = s[j]
    /\ \A i \in DOMAIN s : s[i].type = "addEdge" =>
         s[i].edge.source \in AddedBy(s) /\ s[i].edge.target \in AddedBy(s)

\* Copies the server was asked about; what it let pass is allowed but in a technical session.
PasteOk(p, technical, seen) ==
    /\ Copies(p.commands, seen)
    /\ ~p.blocked /\ ~technical =>
         \A i \in DOMAIN p.commands :
           p.commands[i].type = "addEdge" => Agreed(p.commands, p.commands[i])

ProcessTypes ==
    /\ stored \in Process!G!Graphs /\ Process!G!Valid(stored)
    /\ MadeUp \notin NodesOf(stored)
    /\ shown \in Process!G!Graphs /\ Process!G!Valid(shown)
    /\ waiting \in Seq(ProcessCommands)
    /\ alone \in BOOLEAN
    /\ pending # Absent => PendingOk(pending)
    /\ session \in [technical : BOOLEAN, partial : BOOLEAN]
    /\ changes \in 0 .. MaxChanges

\* The content y may be what the tab shows for the stored x: no note need be as it was, and
\* no step that states no role.
AlikeContent(x, y) ==
    /\ x.kind = y.kind /\ x.label = y.label
    /\ x.kind = "page" => x = y
    /\ x.kind = "flow-step" /\ x.says # "none" => x = y

\* So may h for the stored g; what the tab made up is not stored.
SameButStated(g, h) ==
    /\ MadeUp \notin NodesOf(g)
    /\ g.edges = h.edges
    /\ NodesOf(g) \subseteq NodesOf(h) /\ NodesOf(h) \subseteq NodesOf(g) \cup {MadeUp}
    /\ \A n \in NodesOf(g) : AlikeContent(Process!Content(g, n), Process!Content(h, n))

\* The commands of s lead to h from a graph that may be shown for the stored g.
LeadsFrom(technical, g, s, h) ==
    \E g0 \in Process!G!Graphs :
      Process!G!Valid(g0) /\ SameButStated(g, g0) /\ Leads(technical, g0, s, h)

\* As long as the tab is alone, its queue leads from what it shows for the stored graph to
\* its canvas, and each command in it was judged.
ProcessInv ==
    /\ ProcessTypes
    /\ paste # Absent => PasteOk(paste, session.technical, Seen(stored, shown, waiting))
    /\ alone => LeadsFrom(session.technical, stored, waiting, shown)

\* Fewer nodes in use, the same copies.
LEMMA CopiesOfFewer ==
    ASSUME NEW p, NEW technical, NEW seen, NEW fewer, PasteOk(p, technical, seen),
           fewer \cap AddedBy(p.commands) \subseteq seen
    PROVE  PasteOk(p, technical, fewer)
  BY DEF PasteOk, Copies

\* What a list adds to the canvas and to the queue keeps the invariant.
LEMMA LocallyKeeps ==
    ASSUME ProcessInv, NEW s \in Seq(ProcessCommands), Process!Locally(s),
           stored' = stored, alone' = alone, session' = session,
           pending' \in {pending, Absent}, paste' \in {paste, Absent},
           changes' \in 0 .. MaxChanges,
           paste' # Absent => AddedBy(s) \cap AddedBy(paste.commands) = {},
           \A f : Fit(f, shown, s, Len(s)) =>
                    \A k \in 1 .. Len(s) :
                      Process!Fits(f[k - 1].graph, s[k]) =>
                        Judged(session.technical, f[k - 1].graph, s[k])
    PROVE  ProcessInv'
<1>1. PICK x : x = Process!Fitting(shown, s)
  OBVIOUS
<1>2. shown' = x.graph /\ waiting' = waiting \o x.done
  BY <1>1 DEF Process!Locally
<1>3. /\ x.graph \in Process!G!Graphs /\ Process!G!Valid(x.graph)
      /\ waiting \o x.done \in Seq(ProcessCommands)
      /\ NodesOf(x.graph) \subseteq NodesOf(shown) \cup AddedBy(s) \cup {MadeUp}
      /\ AddedBy(waiting \o x.done) \subseteq AddedBy(waiting) \cup AddedBy(s)
      /\ alone => LeadsFrom(session.technical, stored, waiting \o x.done, x.graph)
  <2>1. /\ shown \in Process!G!Graphs /\ Process!G!Valid(shown)
        /\ waiting \in Seq(ProcessCommands)
        /\ alone => LeadsFrom(session.technical, stored, waiting, shown)
    BY DEF ProcessInv, ProcessTypes
  <2>2. PICK g0 : alone => /\ g0 \in Process!G!Graphs /\ Process!G!Valid(g0)
                           /\ SameButStated(stored, g0)
                           /\ Leads(session.technical, g0, waiting, shown)
    BY <2>1, Zenon DEF LeadsFrom
  <2>3. alone => Leads(session.technical, g0, waiting, shown)
    BY <2>2
  <2>4. LET y == Process!Fitting(shown, s)
        IN  /\ y.graph \in Process!G!Graphs /\ Process!G!Valid(y.graph)
            /\ waiting \o y.done \in Seq(ProcessCommands)
            /\ NodesOf(y.graph) \subseteq NodesOf(shown) \cup AddedBy(s) \cup {MadeUp}
            /\ AddedBy(waiting \o y.done) \subseteq AddedBy(waiting) \cup AddedBy(s)
            /\ alone => Leads(session.technical, g0, waiting \o y.done, y.graph)
    BY <2>1, <2>3, LocallyFits
  <2>5. alone => LeadsFrom(session.technical, stored, waiting \o x.done, x.graph)
    BY <1>1, <2>2, <2>4, Zenon DEF LeadsFrom
  <2> QED
    BY <1>1, <2>4, <2>5
<1>4. ProcessTypes'
  BY <1>2, <1>3 DEF ProcessInv, ProcessTypes
<1>5. (alone => LeadsFrom(session.technical, stored, waiting, shown))'
  BY <1>2, <1>3
<1>6. ASSUME paste' # Absent
      PROVE  PasteOk(paste, session.technical, Seen(stored, shown, waiting))'
  <2>1. paste' = paste /\ PasteOk(paste, session.technical, Seen(stored, shown, waiting))
    BY <1>6 DEF ProcessInv
  <2>2. Seen(stored', shown', waiting') \subseteq Seen(stored, shown, waiting) \cup AddedBy(s)
    BY <1>2, <1>3 DEF Seen
  <2>3. Seen(stored', shown', waiting') \cap AddedBy(paste.commands)
          \subseteq Seen(stored, shown, waiting)
    BY <1>6, <2>2
  <2>4. PasteOk(paste, session.technical, Seen(stored', shown', waiting'))
    BY <2>1, <2>3, CopiesOfFewer
  <2> QED
    BY <2>1, <2>4
<1> QED
  BY <1>4, <1>5, <1>6 DEF ProcessInv

\* A command of one, judged.
LEMMA JudgedOne ==
    ASSUME NEW technical, NEW g \in Process!G!Graphs, NEW c \in ProcessCommands,
           c.by = "hand",
           c.type \in {"addNode", "updateNode", "removeNode", "removeEdge"}, ~SetsKindAlone(c)
    PROVE  \A f : Fit(f, g, <<c>>, Len(<<c>>)) =>
             \A k \in 1 .. Len(<<c>>) :
               Process!Fits(f[k - 1].graph, <<c>>[k]) =>
                 Judged(technical, f[k - 1].graph, <<c>>[k])
<1>1. Len(<<c>>) = 1
  OBVIOUS
<1>2. SUFFICES ASSUME NEW f, NEW k \in 1 .. 1, Process!Fits(f[k - 1].graph, <<c>>[k])
               PROVE  Judged(technical, f[k - 1].graph, <<c>>[k])
  BY <1>1
<1>3. k = 1 /\ <<c>>[k] = c
  OBVIOUS
<1>4. CASE c.type = "updateNode"
  BY <1>3, <1>4 DEF Judged
<1>5. CASE c.type # "updateNode"
  <2>1. Process!ServerTakes(f[k - 1].graph, c)
    BY <1>2, <1>3, <1>5, TakesPlain
  <2> QED
    BY <1>3, <1>5, <2>1 DEF Judged, Plain, SetsKindAlone
<1> QED
  BY <1>4, <1>5

-----------------------------------------------------------------------------
(* Processes: new ids.                                                     *)

\* The instance's Cardinality and IsFiniteSet are those of FiniteSets.
LEMMA ProcessCardinality == ASSUME NEW S PROVE Process!Cardinality(S) = Cardinality(S)
  BY Zenon DEF Cardinality, Process!Cardinality
LEMMA ProcessFinite == ASSUME NEW S PROVE Process!IsFiniteSet(S) <=> IsFiniteSet(S)
  BY Zenon DEF IsFiniteSet, Process!IsFiniteSet

\* A finite set, in some order.
LEMMA InSomeOrder ==
    ASSUME NEW S, IsFiniteSet(S)
    PROVE  /\ Process!SetToSeq(S) \in Seq(S)
           /\ \A i, j \in DOMAIN Process!SetToSeq(S) :
                Process!SetToSeq(S)[i] = Process!SetToSeq(S)[j] => i = j
<1>1. PICK n \in Nat : n = Cardinality(S)
  BY FS_CardinalityType
<1>2. PICK f \in [1 .. n -> S] : \A i, j \in 1 .. n : f[i] = f[j] => i = j
  <2>1. Bijection(1 .. n, S) # {}
    BY <1>1, FS_CardinalityType, Zenon DEF ExistsBijection
  <2>2. PICK f : f \in [1 .. n -> S] /\ IsInjective(f)
    BY <2>1, Zenon DEF Bijection, Injection
  <2> QED
    BY <2>2 DEF IsInjective
<1>3. \A h \in [1 .. n -> S] :
        Process!IsInjective(h) <=> \A i, j \in 1 .. n : h[i] = h[j] => i = j
  BY DEF Process!IsInjective
<1>4. \E h \in [1 .. n -> S] : Process!IsInjective(h)
  BY <1>2, <1>3
<1>5. PICK h : h = CHOOSE any \in [1 .. n -> S] : Process!IsInjective(any)
  OBVIOUS
<1>6. h \in [1 .. n -> S] /\ Process!IsInjective(h)
  BY <1>4, <1>5, Zenon
<1>7. Process!SetToSeq(S) = h
  BY <1>1, <1>5, ProcessCardinality, Zenon DEF Process!SetToSeq
<1>8. h \in Seq(S) /\ DOMAIN h = 1 .. n
  BY <1>6
<1> QED
  BY <1>3, <1>6, <1>7, <1>8

\* New ids are in no graph, no queue and no copies, and not made up.
LEMMA FreshAreNew ==
    ASSUME NEW S, S \in {Boxes, Arrows}
    PROVE  /\ Process!FreshIn(S) \in Seq(S \ (Process!Used \cup {MadeUp}))
           /\ Process!FreshIn(S) # <<>> =>
                Head(Process!FreshIn(S)) \in S \ (Process!Used \cup {MadeUp})
           /\ \A i, j \in DOMAIN Process!FreshIn(S) :
                Process!FreshIn(S)[i] = Process!FreshIn(S)[j] => i = j
<1>1. IsFiniteSet(S)
  BY ProcessAssumption, ProcessFinite DEF Process!ConstantsAssumption
<1>2. PICK T : T = S \ (Process!Used \cup {MadeUp})
  OBVIOUS
<1>3. IsFiniteSet(T)
  BY <1>1, <1>2, FS_Difference
<1>4. PICK q : q = Process!SetToSeq(T)
  OBVIOUS
<1>5. q \in Seq(T) /\ \A i, j \in DOMAIN q : q[i] = q[j] => i = j
  BY <1>3, <1>4, InSomeOrder
<1>6. Process!FreshIn(S) = q
  BY <1>2, <1>4 DEF Process!FreshIn
<1>7. q # <<>> => Head(q) \in T
  BY <1>5
<1> QED
  BY <1>2, <1>5, <1>6, <1>7

\* What is not used is no node and on no way.
LEMMA UnusedBox ==
    ASSUME NEW n \in Boxes \ {MadeUp}, n \notin Process!Used
    PROVE  /\ n \notin Seen(stored, shown, waiting)
           /\ paste # Absent => n \notin AddedBy(paste.commands)
  BY DEF Process!Used, Seen, NodesOf, AddedBy

\* Nor is it a relation of the canvas.
LEMMA UnusedArrow ==
    ASSUME NEW e \in Arrows, e \notin Process!Used
    PROVE  ~Process!G!HasEdge(shown, e)
  BY DEF Process!Used

-----------------------------------------------------------------------------
(* Processes: what the user edits.                                         *)

\* The commands are well typed.
LEMMA AddNodeTyped ==
    ASSUME NEW n \in Boxes \ {MadeUp}, NEW x \in Process!Contents
    PROVE  /\ Process!AddNode(n, x) \in ProcessCommands
           /\ Process!AddNode(n, x).type = "addNode" /\ Process!AddNode(n, x).id = n
           /\ Process!AddNode(n, x).node.role = x /\ Process!AddNode(n, x).by = "hand"
  BY DEF Process!AddNode, ProcessCommands, Who, Process!G!Nodes

\* A command that adds a relation is one.
LEMMA AddEdgeTyped ==
    ASSUME NEW e \in Arrows, NEW i \in Boxes, NEW j \in Boxes, NEW k \in Process!ProcessEdges
    PROVE  /\ Process!AddEdge(e, i, j, k) \in ProcessCommands
           /\ Process!AddEdge(e, i, j, k).type = "addEdge"
           /\ Process!AddEdge(e, i, j, k).id = e /\ Process!AddEdge(e, i, j, k).by = "hand"
           /\ Process!AddEdge(e, i, j, k).edge.source = i
           /\ Process!AddEdge(e, i, j, k).edge.target = j
           /\ Process!AddEdge(e, i, j, k).edge.kind = k
  BY DEF Process!AddEdge, ProcessCommands, Who, Process!G!Edges

\* A command that removes a node is one.
LEMMA DropNodeTyped ==
    ASSUME NEW n \in Boxes
    PROVE  /\ Process!DropNode(n) \in ProcessCommands
           /\ Process!DropNode(n).type = "removeNode" /\ Process!DropNode(n).by = "hand"
  BY DEF Process!DropNode, ProcessCommands, Who

\* A command that removes a relation is one.
LEMMA DropEdgeTyped ==
    ASSUME NEW e \in Arrows
    PROVE  /\ Process!DropEdge(e) \in ProcessCommands
           /\ Process!DropEdge(e).type = "removeEdge" /\ Process!DropEdge(e).by = "hand"
  BY DEF Process!DropEdge, ProcessCommands, Who

\* A command that changes a node is one.
LEMMA PatchNodeTyped ==
    ASSUME NEW n \in Boxes, NEW patch \in Patches
    PROVE  /\ Process!PatchNode(n, patch) \in ProcessCommands
           /\ Process!PatchNode(n, patch).type = "updateNode"
           /\ Process!PatchNode(n, patch).by = "hand"
           /\ Process!PatchNode(n, patch).id = n
           /\ Process!PatchNode(n, patch).patch = patch
  BY DEF Process!PatchNode, ProcessCommands, Who

\* A command that retypes a relation is one.
LEMMA RetypeTyped ==
    ASSUME NEW e \in Arrows, NEW k \in Process!ProcessEdges
    PROVE  /\ Process!Retype(e, k) \in ProcessCommands
           /\ Process!Retype(e, k).type = "updateEdge" /\ Process!Retype(e, k).by = "hand"
  BY DEF Process!Retype, ProcessCommands, Who

\* Another change may be asked for.
LEMMA AskCounts == ASSUME ProcessInv, Process!Ask PROVE changes' \in 0 .. MaxChanges
<1>1. MaxChanges \in Nat
  BY ProcessAssumption DEF Process!ConstantsAssumption
<1> QED
  BY <1>1 DEF ProcessInv, ProcessTypes, Process!Ask

\* A removal or a new name, of what is there.
LEMMA EditCanvasKeeps ==
    ASSUME ProcessInv, NEW c \in ProcessCommands, c.by = "hand", ~SetsKindAlone(c),
           c.type \in {"updateNode", "removeNode", "removeEdge"}, Process!EditCanvas(c)
    PROVE  ProcessInv'
<1>1. /\ Process!Locally(<<c>>)
      /\ stored' = stored /\ alone' = alone /\ session' = session
      /\ pending' = pending /\ paste' = paste
  BY DEF Process!EditCanvas
<1>2. changes' \in 0 .. MaxChanges
  BY AskCounts DEF Process!EditCanvas
<1>3. AddedBy(<<c>>) = {}
  BY DEF AddedBy
<1>4. <<c>> \in Seq(ProcessCommands)
  OBVIOUS
<1>5. shown \in Process!G!Graphs
  BY DEF ProcessInv, ProcessTypes
<1>6. \A f : Fit(f, shown, <<c>>, Len(<<c>>)) =>
        \A k \in 1 .. Len(<<c>>) :
          Process!Fits(f[k - 1].graph, <<c>>[k]) =>
            Judged(session.technical, f[k - 1].graph, <<c>>[k])
  BY <1>5, JudgedOne
<1> QED
  BY <1>1, <1>2, <1>3, <1>4, <1>6, LocallyKeeps

-----------------------------------------------------------------------------
(* Processes: what is inserted.                                            *)

\* Between two roles there is nothing, or references, or one or both of the main kinds.
LEMMA KindsAre ==
    ASSUME NEW r, NEW t
    PROVE  /\ Process!KindsBetween(r, t) \subseteq Process!ProcessEdges
           /\ \/ Process!KindsBetween(r, t) = {}
              \/ Process!KindsBetween(r, t) = {"references"}
              \/ Process!KindsBetween(r, t) = {"flows-to", "depends-on"}
              \/ Process!KindsBetween(r, t) = {"flows-to"}
<1> USE DEF Process!KindsBetween, Process!ProcessEdges, Process!MainKinds
<1>1. CASE "none" \in {r, t}
  BY <1>1
<1>2. CASE "none" \notin {r, t} /\ "flow-note" \in {r, t}
  BY <1>2
<1>3. CASE "none" \notin {r, t} /\ "flow-note" \notin {r, t}
           /\ (r = "flow-end" \/ t \notin Process!Forward)
  BY <1>3
<1>4. CASE "none" \notin {r, t} /\ "flow-note" \notin {r, t}
           /\ ~(r = "flow-end" \/ t \notin Process!Forward)
  <2>1. CASE r = "flow-decision"
    <3>1. Process!KindsBetween(r, t) = {"flows-to", "depends-on"}
      BY <1>4, <2>1
    <3> QED
      BY <3>1
  <2>2. CASE r # "flow-decision"
    <3>1. Process!KindsBetween(r, t) = {"flows-to"}
      BY <1>4, <2>2
    <3> QED
      BY <3>1
  <2> QED
    BY <2>1, <2>2
<1> QED
  BY <1>1, <1>2, <1>3, <1>4

\* The recommended kind is one that is allowed, if any is.
LEMMA RecommendedAllowed ==
    ASSUME NEW g, NEW edge
    PROVE  LET kinds == Process!KindsBetween(
                          Process!RoleOf(Process!Content(g, edge.source)),
                          Process!RoleOf(Process!Content(g, edge.target)))
           IN  /\ kinds # {} => Process!Recommended(g, edge) \in kinds
               /\ kinds = {} => Process!Recommended(g, edge) = "none"
<1>1. PICK r, t : /\ r = Process!RoleOf(Process!Content(g, edge.source))
                  /\ t = Process!RoleOf(Process!Content(g, edge.target))
  OBVIOUS
<1>2. PICK kinds : kinds = Process!KindsBetween(r, t)
  OBVIOUS
<1>3. PICK k : k = Process!Recommended(g, edge)
  OBVIOUS
<1>4. k = IF "references" \in kinds THEN "references"
          ELSE IF r = "flow-decision" /\ "depends-on" \in kinds THEN "depends-on"
          ELSE IF "flows-to" \in kinds THEN "flows-to"
          ELSE "none"
  BY <1>1, <1>2, <1>3, Zenon DEF Process!Recommended
<1>5. \/ kinds = {} \/ kinds = {"references"} \/ kinds = {"flows-to", "depends-on"}
      \/ kinds = {"flows-to"}
  BY <1>2, KindsAre
<1>6. (kinds # {} => k \in kinds) /\ (kinds = {} => k = "none")
  BY <1>4, <1>5
<1> QED
  BY <1>1, <1>2, <1>3, <1>6

\* The relation to a node that is inserted is one the rules allow.
LEMMA ConnectingAllowed ==
    ASSUME NEW g, NEW i, NEW n, NEW kind
    PROVE  \/ Process!Connecting(g, i, n, kind) = <<>>
           \/ \E k \in Process!KindsBetween(Process!RoleOf(Process!Content(g, i)),
                                            Process!RoleOf(Process!Content(g, n))) :
                Process!Connecting(g, i, n, kind)
                  = <<Process!AddEdge(Head(Process!FreshIn(Arrows)), i, n, k)>>
<1>1. PICK kinds : kinds = Process!KindsBetween(Process!RoleOf(Process!Content(g, i)),
                                               Process!RoleOf(Process!Content(g, n)))
  OBVIOUS
<1>2. PICK edge : edge = [source |-> i, target |-> n]
  OBVIOUS
<1>3. edge.source = i /\ edge.target = n
  BY <1>2
<1>4. PICK best : best = Process!Recommended(g, edge)
  OBVIOUS
<1>5. kinds # {} => best \in kinds
  BY <1>1, <1>3, <1>4, RecommendedAllowed
<1>6. PICK k : k = IF kind \in kinds /\ session.technical THEN kind ELSE best
  OBVIOUS
<1>7. Process!Connecting(g, i, n, kind)
        = IF kinds = {} THEN <<>>
          ELSE <<Process!AddEdge(Head(Process!FreshIn(Arrows)), i, n, k)>>
  BY <1>1, <1>2, <1>4, <1>6, Zenon DEF Process!Connecting
<1>8. kinds # {} => k \in kinds
  BY <1>5, <1>6
<1> QED
  BY <1>1, <1>7, <1>8, Zenon

\* What is where in two lists, one after the other.
LEMMA ConcatAt ==
    ASSUME NEW C, NEW t \in Seq(C), NEW u \in Seq(C)
    PROVE  /\ t \o u \in Seq(C) /\ Len(t \o u) = Len(t) + Len(u)
           /\ \A i \in 1 .. Len(t) : (t \o u)[i] = t[i]
           /\ \A i \in 1 .. Len(u) : (t \o u)[Len(t) + i] = u[i]
<1>1. PICK v : v = t \o u
  OBVIOUS
<1>2. PICK m \in Nat, n \in Nat : m = Len(t) /\ n = Len(u)
  OBVIOUS
<1>3. /\ v \in Seq(C) /\ Len(v) = m + n
      /\ \A i \in 1 .. (m + n) : v[i] = IF i <= m THEN t[i] ELSE u[i - m]
  BY <1>1, <1>2, ConcatProperties
<1>4. \A i \in 1 .. m : v[i] = t[i]
  BY <1>3
<1>5. \A i \in 1 .. n : v[m + i] = u[i]
  <2>1. ASSUME NEW i \in 1 .. n
        PROVE  m + i \in 1 .. (m + n) /\ ~(m + i <= m) /\ (m + i) - m = i
    OBVIOUS
  <2> QED
    BY <1>3, <2>1
<1> QED
  BY <1>1, <1>2, <1>3, <1>4, <1>5

\* Two commands.
LEMMA Pair ==
    ASSUME NEW c \in ProcessCommands, NEW d \in ProcessCommands
    PROVE  \E s \in Seq(ProcessCommands) :
             s = <<c>> \o <<d>> /\ Len(s) = 2 /\ s[1] = c /\ s[2] = d
<1>1. /\ <<c>> \in Seq(ProcessCommands) /\ Len(<<c>>) = 1 /\ <<c>>[1] = c
      /\ <<d>> \in Seq(ProcessCommands) /\ Len(<<d>>) = 1 /\ <<d>>[1] = d
  OBVIOUS
<1>2. ASSUME NEW q \in Seq(ProcessCommands), NEW t \in Seq(ProcessCommands),
             Len(q) = 1, Len(t) = 1
      PROVE  /\ q \o t \in Seq(ProcessCommands) /\ Len(q \o t) = 2
             /\ (q \o t)[1] = q[1] /\ (q \o t)[2] = t[1]
  <2>1. PICK v : v = q \o t
    OBVIOUS
  <2>2. /\ v \in Seq(ProcessCommands) /\ Len(v) = Len(q) + Len(t)
        /\ \A i \in 1 .. Len(q) : v[i] = q[i]
        /\ \A i \in 1 .. Len(t) : v[Len(q) + i] = t[i]
    BY <2>1, ConcatAt
  <2>3. Len(v) = 2 /\ v[1] = q[1] /\ v[2] = t[1]
    <3>1. 1 \in 1 .. Len(q) /\ 1 \in 1 .. Len(t) /\ Len(q) + 1 = 2 /\ Len(q) + Len(t) = 2
      BY <1>2
    <3>2. v[1] = q[1] /\ v[Len(q) + 1] = t[1]
      BY <2>2, <3>1, Zenon
    <3> QED
      BY <2>2, <3>1, <3>2, Zenon
  <2> QED
    BY <2>1, <2>2, <2>3, Zenon
<1>3. /\ <<c>> \o <<d>> \in Seq(ProcessCommands) /\ Len(<<c>> \o <<d>>) = 2
      /\ (<<c>> \o <<d>>)[1] = <<c>>[1] /\ (<<c>> \o <<d>>)[2] = <<d>>[1]
  BY <1>1, <1>2, Zenon
<1> QED
  BY <1>1, <1>3, Zenon

\* A node, alone or with a relation to what it was inserted at.
LEMMA InsertKeeps ==
    ASSUME ProcessInv, NEW content \in Process!Contents, NEW i \in Boxes \cup {Absent},
           NEW kind, Process!Insert(content, i, kind),
           stored' = stored, alone' = alone, session' = session, pending' = pending,
           paste' = paste, changes' \in 0 .. MaxChanges
    PROVE  ProcessInv'
<1>1. PICK n : n = Head(Process!FreshIn(Boxes))
  OBVIOUS
<1>2. PICK e : e = Head(Process!FreshIn(Arrows))
  OBVIOUS
<1>3. n \in Boxes \ {MadeUp} /\ n \notin Process!Used /\ e \in Arrows
  BY <1>1, <1>2, FreshAreNew DEF Process!Insert
<1>4. PICK c : c = Process!AddNode(n, content)
  OBVIOUS
<1>5. /\ c \in ProcessCommands /\ c.type = "addNode" /\ c.id = n /\ c.by = "hand"
  BY <1>3, <1>4, AddNodeTyped
<1>6. PICK g : g = Process!After(shown, c)
  OBVIOUS
<1>7. Process!Locally(<<c>> \o IF i = Absent THEN <<>>
                               ELSE Process!Connecting(g, i, n, kind))
  BY <1>1, <1>4, <1>6 DEF Process!Insert
<1>8. shown \in Process!G!Graphs /\ Process!G!Valid(shown)
  BY DEF ProcessInv, ProcessTypes
<1>9. n \notin NodesOf(shown) /\ (paste # Absent => n \notin AddedBy(paste.commands))
  BY <1>3, UnusedBox DEF Seen
<1>10. CASE Process!Locally(<<c>>)
  <2>5. ~SetsKindAlone(c)
    BY <1>5 DEF SetsKindAlone
  <2>1. \A f : Fit(f, shown, <<c>>, Len(<<c>>)) =>
          \A k \in 1 .. Len(<<c>>) :
            Process!Fits(f[k - 1].graph, <<c>>[k]) =>
              Judged(session.technical, f[k - 1].graph, <<c>>[k])
    BY <1>5, <1>8, <2>5, JudgedOne
  <2>2. <<c>> \in Seq(ProcessCommands)
    BY <1>5
  <2>3. AddedBy(<<c>>) \subseteq {n}
    BY <1>5 DEF AddedBy
  <2>4. paste' # Absent => AddedBy(<<c>>) \cap AddedBy(paste.commands) = {}
    BY <1>9, <2>3
  <2> QED
    BY <1>10, <2>1, <2>2, <2>4, LocallyKeeps
<1>11. ASSUME i # Absent,
              NEW k \in Process!KindsBetween(Process!RoleOf(Process!Content(g, i)),
                                            Process!RoleOf(Process!Content(g, n))),
              Process!Locally(<<c>> \o <<Process!AddEdge(e, i, n, k)>>)
       PROVE  ProcessInv'
  <2>1. PICK d : d = Process!AddEdge(e, i, n, k)
    OBVIOUS
  <2>2. /\ d \in ProcessCommands /\ d.type = "addEdge"
        /\ d.edge.source = i /\ d.edge.target = n /\ d.edge.kind = k
    <3>1. k \in Process!ProcessEdges /\ i \in Boxes
      BY <1>11, KindsAre
    <3>4. PICK from \in Boxes, kk \in Process!ProcessEdges : from = i /\ kk = k
      BY <3>1
    <3>2. /\ Process!AddEdge(e, i, n, k) \in ProcessCommands
          /\ Process!AddEdge(e, i, n, k).type = "addEdge"
          /\ Process!AddEdge(e, i, n, k).edge.source = i
          /\ Process!AddEdge(e, i, n, k).edge.target = n
          /\ Process!AddEdge(e, i, n, k).edge.kind = k
      BY <1>3, <3>4, AddEdgeTyped
    <3> QED
      BY <2>1, <3>2
  <2>3. PICK s \in Seq(ProcessCommands) :
          s = <<c>> \o <<d>> /\ Len(s) = 2 /\ s[1] = c /\ s[2] = d
    BY <1>5, <2>2, Pair
  <2>4. ASSUME NEW f, Fit(f, shown, s, 2), NEW m \in 1 .. 2,
               Process!Fits(f[m - 1].graph, s[m])
        PROVE  Judged(session.technical, f[m - 1].graph, s[m])
    <3>1. f[0] = [graph |-> shown, done |-> <<>>] /\ f[1] = NextFit(f[1 - 1], s[1])
      BY <2>4 DEF Fit
    <3>2. f[0].graph = shown /\ f[0].done = <<>> /\ f[0].done \in Seq(ProcessCommands)
      BY <3>1
    <3>3. CASE m = 1
      <4>1. Process!ServerTakes(f[m - 1].graph, s[m])
        BY <1>5, <2>3, <2>4, <3>3, TakesPlain
      <4> QED
        BY <1>5, <2>3, <3>3, <4>1 DEF Judged, Plain, SetsKindAlone
    <3>4. CASE m = 2
      <4>1. PICK h : h = f[1].graph
        OBVIOUS
      <4>2. Process!Fits(h, d)
        BY <2>3, <2>4, <3>4, <4>1
      <4>3. f[1] = NextFit(f[0], c)
        BY <2>3, <3>1
      <4>4. h \in Process!G!Graphs
        BY <1>5, <1>8, <3>2, <4>1, <4>3, NextFitTyped
      <4>5. CASE Process!Fits(shown, c)
        <5>1. h = Shows(shown, c)
          BY <1>5, <1>6, <1>8, <3>2, <4>1, <4>3, <4>5, NextFitTyped
        <5>2. n \in NodesOf(g)
          BY <1>5, <1>6, <1>8, <4>5, AfterNodes
        <5>3. /\ NodesOf(h) = NodesOf(g)
              /\ \A x \in NodesOf(g) : Process!RoleOf(Process!Content(h, x))
                                         = Process!RoleOf(Process!Content(g, x))
          BY <1>5, <1>6, <1>8, <4>5, <5>1, <5>2, ShowsNodes
        <5>4. i \in Boxes /\ Process!G!HasNode(h, i)
          BY <1>11, <2>2, <4>2, <4>4, EndsThere
        <5>5. i \in NodesOf(g)
          BY <5>3, <5>4 DEF NodesOf
        <5>6. k \in Process!KindsBetween(Process!RoleOf(Process!Content(h, i)),
                                         Process!RoleOf(Process!Content(h, n)))
          BY <1>11, <5>2, <5>3, <5>5
        <5>7. Process!ServerTakes(h, d)
          BY <2>2, <4>2, <4>4, <5>6, TakesAllowed
        <5> QED
          BY <2>2, <2>3, <3>4, <4>1, <5>7 DEF Judged, Plain, SetsKindAlone
      <4>6. CASE ~Process!Fits(shown, c)
        <5>1. h = shown
          BY <1>5, <1>8, <3>2, <4>1, <4>3, <4>6, NextFitTyped
        <5>2. Process!G!HasNode(shown, n)
          BY <2>2, <4>2, <4>4, <5>1, EndsThere
        <5> QED
          BY <1>3, <1>9, <5>2 DEF NodesOf
      <4> QED
        BY <4>5, <4>6
    <3> QED
      BY <3>3, <3>4
  <2>5. AddedBy(s) \subseteq {n}
    BY <1>5, <2>2, <2>3 DEF AddedBy
  <2>6. paste' # Absent => AddedBy(s) \cap AddedBy(paste.commands) = {}
    BY <1>9, <2>5
  <2>7. Process!Locally(s)
    BY <1>11, <2>1, <2>3
  <2> QED
    BY <2>3, <2>4, <2>6, <2>7, LocallyKeeps
<1>12. CASE i = Absent
  <2>1. <<c>> \o <<>> = <<c>>
    BY <1>5
  <2> QED
    BY <1>7, <1>10, <1>12, <2>1
<1>13. CASE i # Absent
  <2>1. CASE Process!Connecting(g, i, n, kind) = <<>>
    <3>1. <<c>> \o <<>> = <<c>>
      BY <1>5
    <3> QED
      BY <1>7, <1>10, <1>13, <2>1, <3>1
  <2>2. CASE Process!Connecting(g, i, n, kind) # <<>>
    <3>1. PICK k \in Process!KindsBetween(Process!RoleOf(Process!Content(g, i)),
                                          Process!RoleOf(Process!Content(g, n))) :
            Process!Connecting(g, i, n, kind) = <<Process!AddEdge(e, i, n, k)>>
      <4>1. \/ Process!Connecting(g, i, n, kind) = <<>>
            \/ \E k \in Process!KindsBetween(Process!RoleOf(Process!Content(g, i)),
                                              Process!RoleOf(Process!Content(g, n))) :
                 Process!Connecting(g, i, n, kind)
                   = <<Process!AddEdge(Head(Process!FreshIn(Arrows)), i, n, k)>>
        BY ConnectingAllowed
      <4> QED
        BY <1>2, <2>2, <4>1
    <3>2. Process!Locally(<<c>> \o <<Process!AddEdge(e, i, n, k)>>)
      BY <1>7, <1>13, <3>1
    <3> QED
      BY <1>11, <1>13, <3>1, <3>2
  <2> QED
    BY <2>1, <2>2
<1> QED
  BY <1>12, <1>13

\* Hosts are nodes.
LEMMA HostsAreBoxes ==
    ASSUME ProcessInv, NEW n \in Boxes, NEW host \in Process!Hosts(n)
    PROVE  host \in Boxes
<1>1. shown \in Process!G!Graphs
  BY DEF ProcessInv, ProcessTypes
<1>2. ASSUME NEW x \in Arrows, Process!G!Incident(shown, x, n)
      PROVE  shown.edges[x].source \in Boxes /\ shown.edges[x].target \in Boxes
  BY <1>1, <1>2, BoxesPresent DEF Process!G!Incident, Process!G!Edges
<1> QED
  BY <1>2 DEF Process!Hosts

\* What is offered has a role.
LEMMA OffersTyped ==
    ASSUME NEW n, NEW i \in DOMAIN Process!OffersAt(n)
    PROVE  Process!OffersAt(n)[i].role \in Process!FlowRoles
<1>1. ASSUME NEW role, NEW j \in DOMAIN Process!Offers(role)
      PROVE  Process!Offers(role)[j].role \in Process!FlowRoles
  <2>1. CASE role = "flow-decision"
    BY <1>1, <2>1 DEF Process!Offers, Process!FlowRoles
  <2>2. CASE role = "flow-end"
    BY <1>1, <2>2 DEF Process!Offers, Process!FlowRoles
  <2>3. CASE role \notin {"flow-decision", "flow-end"}
    BY <1>1, <2>3 DEF Process!Offers, Process!FlowRoles
  <2> QED
    BY <2>1, <2>2, <2>3
<1> QED
  BY <1>1 DEF Process!OffersAt

\* Quick actions.
LEMMA QuickActionKeeps ==
    ASSUME ProcessInv, NEW n \in Boxes, Process!QuickAction(n)
    PROVE  ProcessInv'
<1>1. changes' \in 0 .. MaxChanges
  BY AskCounts DEF Process!QuickAction
<1>2. PICK host \in Process!Hosts(n) : \E i \in DOMAIN Process!OffersAt(host) :
        Process!Insert(Process!Shape(Process!OffersAt(host)[i].role), host,
                       Process!OffersAt(host)[i].kind)
  BY DEF Process!QuickAction
<1>6. PICK i \in DOMAIN Process!OffersAt(host) :
        Process!Insert(Process!Shape(Process!OffersAt(host)[i].role), host,
                       Process!OffersAt(host)[i].kind)
  BY <1>2
<1>3. /\ stored' = stored /\ alone' = alone /\ session' = session
      /\ pending' = pending /\ paste' = paste
  BY DEF Process!QuickAction
<1>4. host \in Boxes
  BY HostsAreBoxes
<1>5. Process!Shape(Process!OffersAt(host)[i].role) \in Process!Contents
  BY OffersTyped, ShapeTyped
<1> QED
  BY <1>1, <1>6, <1>3, <1>4, <1>5, InsertKeeps

\* The dialog.
LEMMA InsertDraftedKeeps ==
    ASSUME ProcessInv, NEW role \in Process!FlowRoles, Process!InsertDrafted(role)
    PROVE  ProcessInv'
<1>1. changes' \in 0 .. MaxChanges
  BY AskCounts DEF Process!InsertDrafted
<1>2. /\ stored' = stored /\ alone' = alone /\ session' = session
      /\ pending' = pending /\ paste' = paste
  BY DEF Process!InsertDrafted
<1>3. Process!Shape(role) \in Process!Contents
  BY ShapeTyped
<1>4. CASE Process!Insert(Process!Shape(role), Absent, Absent)
  BY <1>1, <1>2, <1>3, <1>4, InsertKeeps
<1>5. CASE \E n \in Process!OnCanvas : \E host \in Process!Hosts(n) :
             Process!Insert(Process!Shape(role), host, Head(Process!OffersAt(host)).kind)
  <2>1. PICK n \in Process!OnCanvas : \E host \in Process!Hosts(n) :
          Process!Insert(Process!Shape(role), host, Head(Process!OffersAt(host)).kind)
    BY <1>5
  <2>2. n \in Boxes
    BY DEF Process!OnCanvas
  <2>3. PICK host \in Process!Hosts(n) :
          Process!Insert(Process!Shape(role), host, Head(Process!OffersAt(host)).kind)
    BY <2>1
  <2>4. host \in Boxes
    BY <2>2, HostsAreBoxes
  <2> QED
    BY <1>1, <1>2, <1>3, <2>3, <2>4, InsertKeeps
<1> QED
  BY <1>4, <1>5 DEF Process!InsertDrafted

-----------------------------------------------------------------------------
(* Processes: what is stored and what is shown for it.                     *)

\* What the tab makes of a content is alike.
LEMMA AlikeStating ==
    ASSUME NEW x \in Process!Contents, NEW y \in Process!Contents, AlikeContent(x, y)
    PROVE  AlikeContent(x, Process!Stating(y))
<1>1. PICK z \in Process!Contents :
        /\ z = Process!Stating(y) /\ z.kind = y.kind /\ z.label = y.label
        /\ y.kind = "page" => z = y
        /\ y.kind = "flow-step" /\ y.says # "none" => z.says = y.says
  BY StatingTyped
<1>2. CASE x.kind = "flow-step" /\ x.says # "none"
  <2>1. x = y
    BY <1>2 DEF AlikeContent
  <2>2. z = x
    BY <1>1, <1>2, <2>1 DEF Process!Contents
  <2> QED
    BY <1>1, <2>2 DEF AlikeContent
<1>3. CASE ~(x.kind = "flow-step" /\ x.says # "none")
  BY <1>1, <1>3 DEF AlikeContent
<1> QED
  BY <1>2, <1>3

\* So is the same change of both, but for a kind alone, of which the data show more than
\* before: then the node must have been a page.
LEMMA AlikePatched ==
    ASSUME NEW x \in Process!Contents, NEW y \in Process!Contents, AlikeContent(x, y),
           NEW patch \in Patches, DOMAIN patch = {"kind"} => x.kind = "page"
    PROVE  AlikeContent(Patched(x, patch), Patched(y, patch))
<1>1. CASE patch \in [kind : {"flow-step", "note", "page"}]
  <2>1. DOMAIN patch = {"kind"}
    BY <1>1
  <2>2. x = y
    BY <2>1 DEF AlikeContent
  <2> QED
    BY <2>2 DEF AlikeContent
<1>2. CASE patch \in [label : Process!Labels]
  <2>1. DOMAIN patch = {"label"}
    BY <1>2
  <2>2. PICK u, v : u = Patched(x, patch) /\ v = Patched(y, patch)
    OBVIOUS
  <2>3. /\ u.kind = x.kind /\ u.says = x.says /\ u.label = patch.label
        /\ v.kind = y.kind /\ v.label = patch.label
    BY <2>1, <2>2 DEF Patched
  <2>4. x = y => u = v
    BY <2>2
  <2> QED
    BY <2>2, <2>3, <2>4 DEF AlikeContent
<1>3. CASE patch \in Process!Contents
  <2>1. DOMAIN patch = {"kind", "says", "label"}
    BY <1>3 DEF Process!Contents
  <2>2. Patched(x, patch) = Patched(y, patch)
    BY <2>1 DEF Patched
  <2> QED
    BY <2>2 DEF AlikeContent
<1> QED
  BY <1>1, <1>2, <1>3 DEF Patches

\* Contents alike are of the same role, but for a step that states none.
LEMMA AlikeRoles ==
    ASSUME NEW x \in Process!Contents, NEW y \in Process!Contents, AlikeContent(x, y),
           ~(x.kind = "flow-step" /\ x.says = "none")
    PROVE  Process!RoleOf(x) = Process!RoleOf(y)
<1>1. CASE x.kind = "note"
  BY <1>1 DEF AlikeContent, Process!RoleOf
<1>2. CASE x.kind # "note"
  <2>1. x = y
    BY <1>2 DEF AlikeContent, Process!Contents
  <2> QED
    BY <2>1
<1> QED
  BY <1>1, <1>2

\* What the tab shows of a stored graph.
LEMMA AlikeNormalized ==
    ASSUME NEW g \in Process!G!Graphs, Process!G!Valid(g), MadeUp \notin NodesOf(g)
    PROVE  SameButStated(g, Process!Normalized(g))
<1>1. ASSUME NEW n \in NodesOf(g)
      PROVE  AlikeContent(Process!Content(g, n), Process!Content(Process!Normalized(g), n))
  <2>1. PICK x \in Process!Contents :
          /\ x = Process!Content(g, n)
          /\ Process!Content(Process!Normalized(g), n) = Process!Stating(x)
    BY NormalizedFields
  <2>2. AlikeContent(x, x)
    BY DEF AlikeContent
  <2> QED
    BY <2>1, <2>2, AlikeStating
<1> QED
  BY <1>1, NormalizedFields DEF SameButStated

\* A command leaves the same relations of the same ones.
LEMMA AfterEdges ==
    ASSUME NEW g \in Process!G!Graphs, NEW h \in Process!G!Graphs, g.edges = h.edges,
           NEW c \in ProcessCommands, Process!Fits(g, c), Process!Fits(h, c)
    PROVE  Process!After(g, c).edges = Process!After(h, c).edges
<1>1. CASE c.type \in {"addNode", "updateNode"}
  BY <1>1, AfterNodes
<1>2. CASE c.type = "removeNode"
  <2>1. ASSUME NEW x \in Process!G!Graphs, x.edges = g.edges
        PROVE  Process!G!RemoveNode(x, c).edges =
                 [e \in Arrows |-> IF g.edges[e] # Absent /\ (g.edges[e].source = c.id
                                                              \/ g.edges[e].target = c.id)
                                     THEN Absent ELSE g.edges[e]]
    <3>1. PICK y : y = Process!G!SetNode(x, c.id, Absent)
      OBVIOUS
    <3>2. PICK es : es = [e \in Arrows |->
                            IF Process!G!Incident(x, e, c.id) THEN Absent ELSE x.edges[e]]
      OBVIOUS
    <3>3. Process!G!RemoveNode(x, c) = [y EXCEPT !.edges = es]
      BY <3>1, <3>2 DEF Process!G!RemoveNode
    <3>4. "edges" \in DOMAIN y
      BY <3>1 DEF Process!G!SetNode, Process!G!Graphs
    <3>5. Process!G!RemoveNode(x, c).edges = es
      BY <3>3, <3>4
    <3> QED
      BY <2>1, <3>2, <3>5 DEF Process!G!Incident, Process!G!HasEdge
  <2>2. /\ Process!After(g, c) = Process!G!RemoveNode(g, c)
        /\ Process!After(h, c) = Process!G!RemoveNode(h, c)
    BY <1>2 DEF Process!After, Process!Full, Process!G!Apply
  <2> QED
    BY <2>1, <2>2
<1>3. CASE c.type \in {"addEdge", "updateEdge", "removeEdge"}
  <2>1. PICK y : /\ Process!After(g, c) = Process!G!SetEdge(g, c.id, y)
                 /\ Process!After(h, c) = Process!G!SetEdge(h, c.id, y)
    BY <1>3 DEF Process!After, Process!Full, Process!G!Apply, Process!G!UpdateEdge
  <2>2. ASSUME NEW x \in Process!G!Graphs, x.edges = g.edges
        PROVE  Process!G!SetEdge(x, c.id, y).edges = [g.edges EXCEPT ![c.id] = y]
    BY <2>2 DEF Process!G!SetEdge, Process!G!Graphs
  <2> QED
    BY <2>1, <2>2
<1> QED
  BY <1>1, <1>2, <1>3, ProcessFields

\* A command that fits both leaves both alike.
LEMMA AlikeAfter ==
    ASSUME NEW g \in Process!G!Graphs, NEW h \in Process!G!Graphs, SameButStated(g, h),
           NEW c \in ProcessCommands, Process!Fits(g, c), Process!Fits(h, c),
           SetsKindAlone(c) => Process!Content(h, c.id).kind = "page"
    PROVE  SameButStated(Process!After(g, c), Shows(h, c))
<1>1. PICK u, v, w : /\ u = Process!After(g, c) /\ v = Process!After(h, c)
                     /\ w = Shows(h, c)
  OBVIOUS
<1>2. /\ MadeUp \notin NodesOf(g) /\ g.edges = h.edges
      /\ NodesOf(g) \subseteq NodesOf(h) /\ NodesOf(h) \subseteq NodesOf(g) \cup {MadeUp}
      /\ \A n \in NodesOf(g) : AlikeContent(Process!Content(g, n), Process!Content(h, n))
  BY DEF SameButStated
<1>3. u.edges = v.edges
  BY <1>1, <1>2, AfterEdges
<1>4. /\ w.edges = v.edges
      /\ NodesOf(v) \subseteq NodesOf(w) /\ NodesOf(w) \subseteq NodesOf(v) \cup {MadeUp}
      /\ \A n \in NodesOf(v) : Process!Content(w, n) = Process!Stating(Process!Content(v, n))
  BY <1>1, ShowsNodes
<1>5. /\ u \in Process!G!Graphs /\ v \in Process!G!Graphs
  BY <1>1, AfterTyped
<1>6. ASSUME NEW x \in Process!G!Graphs, NEW n \in NodesOf(x)
      PROVE  Process!Content(x, n) \in Process!Contents
  BY <1>6, BoxesPresent DEF NodesOf, Process!Content, Process!G!Nodes
<1>7. ASSUME NEW n \in NodesOf(u), n \in NodesOf(v),
             AlikeContent(Process!Content(u, n), Process!Content(v, n))
      PROVE  AlikeContent(Process!Content(u, n), Process!Content(w, n))
  <2>1. Process!Content(u, n) \in Process!Contents /\ Process!Content(v, n) \in Process!Contents
    BY <1>5, <1>6, <1>7
  <2> QED
    BY <1>4, <1>7, <2>1, AlikeStating
<1>8. ASSUME NEW n \in NodesOf(g), u.nodes[n] = g.nodes[n], v.nodes[n] = h.nodes[n]
      PROVE  AlikeContent(Process!Content(u, n), Process!Content(v, n))
  BY <1>2, <1>8 DEF Process!Content
<1>9. SUFFICES /\ MadeUp \notin NodesOf(u) /\ NodesOf(u) \subseteq NodesOf(v)
               /\ NodesOf(v) \subseteq NodesOf(u) \cup {MadeUp}
               /\ \A n \in NodesOf(u) :
                    AlikeContent(Process!Content(u, n), Process!Content(v, n))
  <2>1. ASSUME MadeUp \notin NodesOf(u), NodesOf(u) \subseteq NodesOf(v),
               NodesOf(v) \subseteq NodesOf(u) \cup {MadeUp},
               \A n \in NodesOf(u) :
                 AlikeContent(Process!Content(u, n), Process!Content(v, n))
        PROVE  SameButStated(u, w)
    <3>1. \A n \in NodesOf(u) : AlikeContent(Process!Content(u, n), Process!Content(w, n))
      BY <1>7, <2>1
    <3>2. NodesOf(u) \subseteq NodesOf(w) /\ NodesOf(w) \subseteq NodesOf(u) \cup {MadeUp}
      BY <1>4, <2>1
    <3> QED
      BY <1>3, <1>4, <2>1, <3>1, <3>2 DEF SameButStated
  <2> QED
    BY <1>1, <2>1
<1>10. \A n \in NodesOf(g) : n \in Boxes
  BY DEF NodesOf
<1>11. CASE c.type = "addNode"
  <2>1. /\ NodesOf(u) = NodesOf(g) \cup {c.id} /\ NodesOf(v) = NodesOf(h) \cup {c.id}
        /\ Process!Content(u, c.id) = c.node.role /\ Process!Content(v, c.id) = c.node.role
        /\ \A n \in Boxes \ {c.id} : u.nodes[n] = g.nodes[n] /\ v.nodes[n] = h.nodes[n]
    BY <1>1, <1>11, AfterNodes
  <2>2. c.id # MadeUp
    BY <1>11, ProcessFields
  <2>3. ASSUME NEW n \in NodesOf(u)
        PROVE  AlikeContent(Process!Content(u, n), Process!Content(v, n))
    <3>1. CASE n = c.id
      BY <2>1, <3>1 DEF AlikeContent
    <3>2. CASE n # c.id
      BY <1>8, <1>10, <2>1, <3>2
    <3> QED
      BY <3>1, <3>2
  <2> QED
    BY <1>2, <2>1, <2>2, <2>3
<1>12. CASE c.type = "updateNode"
  <2>1. /\ NodesOf(u) = NodesOf(g) /\ NodesOf(v) = NodesOf(h) /\ c.id \in NodesOf(g)
        /\ Process!Content(u, c.id) = Patched(Process!Content(g, c.id), c.patch)
        /\ Process!Content(v, c.id) = Patched(Process!Content(h, c.id), c.patch)
        /\ Process!Content(g, c.id) \in Process!Contents
        /\ Process!Content(h, c.id) \in Process!Contents
        /\ \A n \in Boxes \ {c.id} : u.nodes[n] = g.nodes[n] /\ v.nodes[n] = h.nodes[n]
    BY <1>1, <1>12, AfterNodes
  <2>2. AlikeContent(Process!Content(g, c.id), Process!Content(h, c.id))
    BY <1>2, <2>1
  <2>3. DOMAIN c.patch = {"kind"} => Process!Content(g, c.id).kind = "page"
    BY <1>12, <2>2 DEF SetsKindAlone, AlikeContent
  <2>4. c.patch \in Patches
    BY <1>12, ProcessFields
  <2>5. AlikeContent(Process!Content(u, c.id), Process!Content(v, c.id))
    BY <2>1, <2>2, <2>3, <2>4, AlikePatched
  <2>6. ASSUME NEW n \in NodesOf(u)
        PROVE  AlikeContent(Process!Content(u, n), Process!Content(v, n))
    <3>1. CASE n = c.id
      BY <2>5, <3>1
    <3>2. CASE n # c.id
      BY <1>8, <1>10, <2>1, <3>2
    <3> QED
      BY <3>1, <3>2
  <2> QED
    BY <1>2, <2>1, <2>6
<1>13. CASE c.type = "removeNode"
  <2>1. /\ NodesOf(u) = NodesOf(g) \ {c.id} /\ NodesOf(v) = NodesOf(h) \ {c.id}
        /\ \A n \in Boxes \ {c.id} : u.nodes[n] = g.nodes[n] /\ v.nodes[n] = h.nodes[n]
    BY <1>1, <1>13, AfterNodes
  <2>2. \A n \in NodesOf(u) : AlikeContent(Process!Content(u, n), Process!Content(v, n))
    BY <1>8, <1>10, <2>1
  <2> QED
    BY <1>2, <2>1, <2>2
<1>14. CASE c.type \in {"addEdge", "updateEdge", "removeEdge"}
  <2>1. u.nodes = g.nodes /\ v.nodes = h.nodes
    BY <1>1, <1>14, AfterNodes
  <2>2. NodesOf(u) = NodesOf(g) /\ NodesOf(v) = NodesOf(h)
    BY <2>1 DEF NodesOf, Process!G!HasNode
  <2>3. \A n \in NodesOf(u) : AlikeContent(Process!Content(u, n), Process!Content(v, n))
    BY <1>8, <2>1, <2>2
  <2> QED
    BY <1>2, <2>2, <2>3
<1> QED
  BY <1>11, <1>12, <1>13, <1>14, ProcessFields

-----------------------------------------------------------------------------
(* Processes: what is written at once, and the repair of a kind.           *)

\* A change that the server takes becomes the canvas; there was no queue.
LEMMA StoredKeeps ==
    ASSUME ProcessInv, NEW c \in ProcessCommands, c.type # "addNode", Process!Stored(c),
           session' = session, paste' = paste, changes' \in 0 .. MaxChanges
    PROVE  ProcessInv'
<1>1. /\ waiting = <<>> /\ waiting' = waiting /\ pending' = pending /\ alone' = TRUE
      /\ Process!Fits(stored, c)
      /\ stored' = Process!After(stored, c) /\ shown' = Process!Normalized(stored')
  BY DEF Process!Stored, Process!ServerTakes
<1>2. ProcessTypes
  BY DEF ProcessInv
<1>3. stored \in Process!G!Graphs
  BY <1>2 DEF ProcessTypes
<1>4. stored' \in Process!G!Graphs /\ Process!G!Valid(stored')
  BY <1>1, <1>3, AfterTyped
<1>5. NodesOf(stored') \subseteq NodesOf(stored)
  BY <1>1, <1>3, AfterNodes
<1>9. MadeUp \notin NodesOf(stored')
  BY <1>2, <1>5 DEF ProcessTypes
<1>10. /\ shown' \in Process!G!Graphs /\ Process!G!Valid(shown')
       /\ NodesOf(shown') \subseteq NodesOf(stored') \cup {MadeUp}
  BY <1>1, <1>4, NormalizedFields
<1>6. ProcessTypes'
  BY <1>1, <1>2, <1>4, <1>9, <1>10 DEF ProcessTypes
<1>7. LeadsFrom(session.technical, stored, waiting, shown)'
  <2>1. Leads(session.technical, shown', <<>>, shown')
    BY <1>10, LeadsNowhere
  <2>2. SameButStated(stored', shown')
    BY <1>1, <1>4, <1>9, AlikeNormalized
  <2>3. LeadsFrom(session.technical, stored', <<>>, shown')
    BY <1>10, <2>1, <2>2 DEF LeadsFrom
  <2> QED
    BY <1>1, <2>3
<1>8. ASSUME paste' # Absent
      PROVE  PasteOk(paste, session.technical, Seen(stored, shown, waiting))'
  <2>1. PasteOk(paste, session.technical, Seen(stored, shown, waiting))
    BY <1>8 DEF ProcessInv
  <2>2. Seen(stored', shown', waiting') \subseteq Seen(stored, shown, waiting)
    BY <1>1, <1>5, <1>10 DEF Seen
  <2>3. PasteOk(paste, session.technical, Seen(stored', shown', waiting'))
    BY <2>1, <2>2, CopiesOfFewer
  <2> QED
    BY <2>3
<1> QED
  BY <1>6, <1>7, <1>8 DEF ProcessInv

\* Only what is offered, or what was asked, changes: the rest of the invariant holds.
LEMMA DialogKeeps ==
    ASSUME ProcessInv, stored' = stored, shown' = shown, waiting' = waiting, alone' = alone,
           session' = session, paste' = paste, changes' \in 0 .. MaxChanges,
           pending' # Absent => PendingOk(pending')
    PROVE  ProcessInv'
<1>1. ProcessTypes'
  BY DEF ProcessInv, ProcessTypes
<1> QED
  BY <1>1 DEF ProcessInv

\* What a repair does to a relation is known.
LEMMA OfferRepairKeeps ==
    ASSUME ProcessInv, NEW n \in Boxes, NEW patch \in Process!Contents,
           Process!OfferRepair(n, patch),
           session' = session, paste' = paste, changes' \in 0 .. MaxChanges
    PROVE  ProcessInv'
<1>1. PICK plan : plan = Process!RepairPlan(stored, n, patch.kind)
  OBVIOUS
<1>2. PICK h : h = Process!WithPatch(stored, n, [kind |-> patch.kind])
  OBVIOUS
<1>3. PICK S : S = Process!BrokenBy(stored, n, patch.kind)
  OBVIOUS
<1>4. S \subseteq Arrows
  BY <1>3 DEF Process!BrokenBy, Process!Broken
<1>5. plan.edges = [e \in S |-> Process!Recommended(h, h.edges[e])]
  BY <1>1, <1>2, <1>3 DEF Process!RepairPlan
<1>6. ASSUME NEW e \in S
      PROVE  Process!Recommended(h, h.edges[e]) \in Process!ProcessEdges \cup {"none"}
  <2>1. PICK edge : edge = h.edges[e]
    OBVIOUS
  <2>2. PICK kinds : kinds = Process!KindsBetween(
                               Process!RoleOf(Process!Content(h, edge.source)),
                               Process!RoleOf(Process!Content(h, edge.target)))
    OBVIOUS
  <2>3. /\ kinds # {} => Process!Recommended(h, edge) \in kinds
        /\ kinds = {} => Process!Recommended(h, edge) = "none"
    BY <2>2, RecommendedAllowed
  <2>4. kinds \subseteq Process!ProcessEdges
    BY <2>2, KindsAre
  <2> QED
    BY <2>1, <2>3, <2>4
<1>7. pending' = [id |-> n, patch |-> patch, plan |-> plan]
  BY <1>1 DEF Process!OfferRepair
<1>8. pending'.id = n /\ pending'.patch = patch /\ pending'.plan = plan
  BY <1>7
<1>11. plan.fallback = (patch.kind = "page")
  BY <1>1 DEF Process!RepairPlan
<1>9. PendingOk(pending')
  BY <1>4, <1>5, <1>6, <1>8, <1>11 DEF PendingOk
<1>10. /\ stored' = stored /\ shown' = shown /\ waiting' = waiting /\ alone' = alone
  BY DEF Process!OfferRepair
<1> QED
  BY <1>9, <1>10, DialogKeeps

\* What the inspector sets is a content.
LEMMA InspectedTyped ==
    ASSUME ProcessInv, NEW n \in Process!OnCanvas
    PROVE  Process!Inspected(n) \subseteq Process!Contents
<1>1. shown \in Process!G!Graphs /\ n \in Boxes /\ Process!G!HasNode(shown, n)
  BY DEF ProcessInv, ProcessTypes, Process!OnCanvas
<1>2. PICK now \in Process!Contents : now = Process!Content(shown, n)
  BY <1>1, BoxesPresent DEF Process!Content, Process!G!Nodes
<1>3. ASSUME NEW k \in {"flow-step", "note", "page"}
      PROVE  [now EXCEPT !.kind = k] \in Process!Contents
  BY DEF Process!Contents
<1>4. ASSUME NEW r \in Process!FlowRoles
      PROVE  [Process!Shape(r) EXCEPT !.label = now.label] \in Process!Contents
  <2>1. PICK x \in Process!Contents : x = Process!Shape(r)
    BY ShapeTyped
  <2>2. [x EXCEPT !.label = now.label] \in Process!Contents
    BY DEF Process!Contents
  <2> QED
    BY <2>1, <2>2
<1> QED
  BY <1>2, <1>3, <1>4 DEF Process!Inspected

\* From the inspector.
LEMMA ApplyNodeKeeps ==
    ASSUME ProcessInv, NEW n \in Process!OnCanvas, NEW content \in Process!Inspected(n),
           Process!ApplyNode(n, content)
    PROVE  ProcessInv'
<1>1. n \in Boxes /\ content \in Process!Contents
  BY InspectedTyped DEF Process!OnCanvas
<1>2. changes' \in 0 .. MaxChanges /\ session' = session /\ paste' = paste
  BY AskCounts DEF Process!ApplyNode
<1>3. CASE Process!Stored(Process!PatchNode(n, content))
  <2>1. content \in Patches
    BY <1>1 DEF Patches
  <2>2. /\ Process!PatchNode(n, content) \in ProcessCommands
        /\ Process!PatchNode(n, content).type = "updateNode"
    BY <1>1, <2>1, PatchNodeTyped
  <2> QED
    BY <1>2, <1>3, <2>2, StoredKeeps
<1>4. CASE Process!OfferRepair(n, content)
  BY <1>1, <1>2, <1>4, OfferRepairKeeps
<1> QED
  BY <1>3, <1>4 DEF Process!ApplyNode

\* A relation, drawn or of another kind.
LEMMA ConnectKeeps ==
    ASSUME ProcessInv, NEW s \in Boxes, NEW t \in Boxes, NEW k \in Process!ProcessEdges,
           Process!Connect(s, t, k)
    PROVE  ProcessInv'
<1>1. PICK e \in Arrows : e = Head(Process!FreshIn(Arrows))
  BY FreshAreNew DEF Process!Connect
<1>2. /\ Process!AddEdge(e, s, t, k) \in ProcessCommands
      /\ Process!AddEdge(e, s, t, k).type = "addEdge"
  BY AddEdgeTyped
<1>3. Process!Stored(Process!AddEdge(e, s, t, k))
  BY <1>1 DEF Process!Connect
<1>4. changes' \in 0 .. MaxChanges /\ session' = session /\ paste' = paste
  BY AskCounts DEF Process!Connect
<1> QED
  BY <1>2, <1>3, <1>4, StoredKeeps

\* Retyping a relation on the server.
LEMMA ApplyEdgeKeeps ==
    ASSUME ProcessInv, NEW e \in Arrows, NEW k \in Process!ProcessEdges,
           Process!ApplyEdge(e, k)
    PROVE  ProcessInv'
<1>1. /\ Process!Retype(e, k) \in ProcessCommands
      /\ Process!Retype(e, k).type = "updateEdge"
  BY RetypeTyped
<1>2. changes' \in 0 .. MaxChanges /\ session' = session /\ paste' = paste
  BY AskCounts DEF Process!ApplyEdge
<1>3. Process!Stored(Process!Retype(e, k))
  BY DEF Process!ApplyEdge
<1> QED
  BY <1>1, <1>2, <1>3, StoredKeeps

\* The dialog is closed.
LEMMA CancelKeeps == ASSUME ProcessInv, Process!CancelRepair PROVE ProcessInv'
<1>1. changes' \in 0 .. MaxChanges
  BY DEF Process!CancelRepair, ProcessInv, ProcessTypes
<1> QED
  BY <1>1, DialogKeeps DEF Process!CancelRepair

-----------------------------------------------------------------------------
(* Processes: the server and others.                                       *)

\* The head of the queue is stored.
LEMMA SyncKeeps == ASSUME ProcessInv, Process!Sync PROVE ProcessInv'
<1>1. /\ waiting # <<>> /\ Process!Fits(stored, Head(waiting))
      /\ stored' = Process!After(stored, Head(waiting)) /\ waiting' = Tail(waiting)
      /\ shown' = shown /\ alone' = alone /\ pending' = pending /\ paste' = paste
      /\ session' = session /\ changes' = changes
  BY DEF Process!Sync, Process!ServerTakes
<1>2. ProcessTypes
  BY DEF ProcessInv
<1>3. stored \in Process!G!Graphs /\ waiting \in Seq(ProcessCommands)
  BY <1>2 DEF ProcessTypes
<1>4. PICK c \in ProcessCommands : c = Head(waiting)
  BY <1>1, <1>3
<1>5. stored' \in Process!G!Graphs /\ Process!G!Valid(stored')
  BY <1>1, <1>3, <1>4, AfterTyped
<1>6. waiting' \in Seq(ProcessCommands)
  BY <1>1, <1>3
<1>11. /\ c.type # "addNode" => NodesOf(stored') \subseteq NodesOf(stored)
       /\ c.type = "addNode" => NodesOf(stored') = NodesOf(stored) \cup {c.id}
  BY <1>1, <1>3, <1>4, AfterNodes
<1>12. MadeUp \notin NodesOf(stored')
  <2>1. c.type = "addNode" => c.id # MadeUp
    BY ProcessFields
  <2> QED
    BY <1>2, <1>11, <2>1 DEF ProcessTypes
<1>7. ProcessTypes'
  BY <1>1, <1>2, <1>5, <1>6, <1>12 DEF ProcessTypes
<1>8. ASSUME alone'
      PROVE  LeadsFrom(session.technical, stored, waiting, shown)'
  <2>1. LeadsFrom(session.technical, stored, waiting, shown)
    BY <1>1, <1>8 DEF ProcessInv
  <2>2. PICK g0 \in Process!G!Graphs :
          /\ Process!G!Valid(g0) /\ SameButStated(stored, g0)
          /\ Leads(session.technical, g0, waiting, shown)
    BY <2>1 DEF LeadsFrom
  <2>3. /\ Process!Fits(g0, c) /\ Judged(session.technical, g0, c)
        /\ Leads(session.technical, Shows(g0, c), Tail(waiting), shown)
    BY <1>1, <1>3, <1>4, <2>2, LeadsTail
  <2>4. SetsKindAlone(c) => Process!Content(g0, c.id).kind = "page"
    BY <2>3 DEF Judged
  <2>5. SameButStated(stored', Shows(g0, c))
    BY <1>1, <1>3, <1>4, <2>2, <2>3, <2>4, AlikeAfter
  <2>6. Shows(g0, c) \in Process!G!Graphs /\ Process!G!Valid(Shows(g0, c))
    BY <2>2, <2>3, ShowsTyped
  <2>7. LeadsFrom(session.technical, stored', Tail(waiting), shown)
    BY <2>3, <2>5, <2>6 DEF LeadsFrom
  <2> QED
    BY <1>1, <2>7
<1>9. Seen(stored', shown', waiting') \subseteq Seen(stored, shown, waiting)
  <2>1. AddedBy(Tail(waiting)) \subseteq AddedBy(waiting)
    <3>1. ASSUME NEW i \in DOMAIN Tail(waiting)
          PROVE  i + 1 \in DOMAIN waiting /\ Tail(waiting)[i] = waiting[i + 1]
      BY <1>1, <1>3
    <3> QED
      BY <3>1 DEF AddedBy
  <2>2. c.type = "addNode" => c.id \in AddedBy(waiting)
    <3>1. 1 \in DOMAIN waiting /\ waiting[1] = c
      BY <1>1, <1>3, <1>4
    <3> QED
      BY <3>1, ProcessFields DEF AddedBy
  <2>3. NodesOf(stored') \subseteq NodesOf(stored) \cup AddedBy(waiting)
    BY <1>11, <2>2
  <2> QED
    BY <1>1, <2>1, <2>3 DEF Seen
<1>10. ASSUME paste' # Absent
       PROVE  PasteOk(paste, session.technical, Seen(stored, shown, waiting))'
  <2>1. PasteOk(paste, session.technical, Seen(stored, shown, waiting))
    BY <1>1, <1>10 DEF ProcessInv
  <2>2. PasteOk(paste, session.technical, Seen(stored', shown', waiting'))
    BY <1>9, <2>1, CopiesOfFewer
  <2> QED
    BY <1>1, <2>2
<1> QED
  BY <1>7, <1>8, <1>10 DEF ProcessInv

\* Another tab's change is stored.
LEMMA PeerKeeps ==
    ASSUME ProcessInv, NEW c \in ProcessCommands, c.type # "addNode", Process!PeerWrites(c)
    PROVE  ProcessInv'
<1>1. /\ Process!Fits(stored, c) /\ stored' = Process!After(stored, c)
      /\ alone' = FALSE /\ changes' = changes + 1 /\ changes < MaxChanges
      /\ shown' = shown /\ waiting' = waiting /\ pending' = pending /\ paste' = paste
      /\ session' = session
  BY DEF Process!PeerWrites, Process!ServerTakes
<1>2. ProcessTypes
  BY DEF ProcessInv
<1>3. stored \in Process!G!Graphs
  BY <1>2 DEF ProcessTypes
<1>4. stored' \in Process!G!Graphs /\ Process!G!Valid(stored')
  BY <1>1, <1>3, AfterTyped
<1>5. changes' \in 0 .. MaxChanges
  <2>1. MaxChanges \in Nat
    BY ProcessAssumption DEF Process!ConstantsAssumption
  <2> QED
    BY <1>1, <1>2, <2>1 DEF ProcessTypes
<1>7. NodesOf(stored') \subseteq NodesOf(stored)
  BY <1>1, <1>3, AfterNodes
<1>6. ProcessTypes'
  BY <1>1, <1>2, <1>4, <1>5, <1>7 DEF ProcessTypes
<1>8. ASSUME paste' # Absent
      PROVE  PasteOk(paste, session.technical, Seen(stored, shown, waiting))'
  <2>1. PasteOk(paste, session.technical, Seen(stored, shown, waiting))
    BY <1>1, <1>8 DEF ProcessInv
  <2>2. Seen(stored', shown', waiting') \subseteq Seen(stored, shown, waiting)
    BY <1>1, <1>7 DEF Seen
  <2>3. PasteOk(paste, session.technical, Seen(stored', shown', waiting'))
    BY <2>1, <2>2, CopiesOfFewer
  <2> QED
    BY <1>1, <2>3
<1> QED
  BY <1>1, <1>6, <1>8 DEF ProcessInv

-----------------------------------------------------------------------------
(* Processes: confirmed repairs.                                           *)

\* The recursive function of Kept.
KeepsAlong(f, s, S, n) ==
    f = [k \in 0 .. n |->
           IF k = 0 THEN <<>>
           ELSE IF s[k] \in S THEN Append(f[k - 1], s[k]) ELSE f[k - 1]]

\* There is such a function.
LEMMA KeepsAlongExists ==
    ASSUME NEW T, NEW s \in Seq(T), NEW S, NEW n \in Nat, Len(s) = n
    PROVE  \E f : KeepsAlong(f, s, S, n)
<1>2. \A k \in 1 .. n : s[k] \in T
  OBVIOUS
<1> DEFINE Put(t, c) == IF c \in S THEN Append(t, c) ELSE t
<1>3. ASSUME NEW t \in Seq(T), NEW c \in T
      PROVE  Put(t, c) \in Seq(T)
  BY AppendProperties
<1>4. PICK F : F = [p \in Seq(T) \X (1 .. n) |-> Put(p[1], s[p[2]])]
  OBVIOUS
<1>5. ASSUME NEW t \in Seq(T), NEW k \in 1 .. n
      PROVE  F[<<t, k>>] = Put(t, s[k])
  BY <1>4
<1>6. F \in [Seq(T) \X (1 .. n) -> Seq(T)]
  <2>1. ASSUME NEW p \in Seq(T) \X (1 .. n)
        PROVE  Put(p[1], s[p[2]]) \in Seq(T)
    <3>1. p[1] \in Seq(T) /\ s[p[2]] \in T
      BY <1>2
    <3> QED
      BY <1>3, <3>1
  <2> QED
    BY <1>4, <2>1
<1>7. PICK U, first : U = Seq(T) /\ first = <<>>
  OBVIOUS
<1>8. PICK f \in [0 .. n -> U] : Follows(f, n, first, F)
  <2>1. F \in [U \X (1 .. n) -> U] /\ first \in U
    BY <1>6, <1>7
  <2> QED
    BY <2>1, Iterates
<1>9. ASSUME NEW k \in 0 .. n
      PROVE  f[k] = IF k = 0 THEN <<>> ELSE Put(f[k - 1], s[k])
  <2>1. CASE k = 0
    BY <1>7, <1>8, <2>1 DEF Follows
  <2>2. CASE k # 0
    <3>1. k \in 1 .. n /\ k - 1 \in 0 .. n
      BY <2>2
    <3>2. f[k - 1] \in Seq(T) /\ f[k] = F[<<f[k - 1], k>>]
      BY <1>7, <1>8, <2>2, <3>1 DEF Follows
    <3> QED
      BY <1>5, <2>2, <3>1, <3>2
  <2> QED
    BY <2>1, <2>2
<1>10. f = [k \in 0 .. n |-> f[k]]
  BY <1>8
<1>11. KeepsAlong(f, s, S, n)
  BY <1>9, <1>10 DEF KeepsAlong
<1> QED
  BY <1>11

\* What t keeps of the first m elements of s.
KeepsOf(t, s, S, m) ==
    /\ \A i \in DOMAIN t : t[i] \in S /\ \E j \in 1 .. m : s[j] = t[i]
    /\ \A j \in 1 .. m : s[j] \in S => \E i \in DOMAIN t : t[i] = s[j]

\* Kept is what s has of S.
LEMMA KeptHas ==
    ASSUME NEW T, NEW s \in Seq(T), NEW S
    PROVE  /\ Process!Kept(s, S) \in Seq(T)
           /\ KeepsOf(Process!Kept(s, S), s, S, Len(s))
<1>1. PICK n \in Nat : Len(s) = n
  OBVIOUS
<1>2. PICK f : f = CHOOSE any : KeepsAlong(any, s, S, n)
  OBVIOUS
<1>3. KeepsAlong(f, s, S, n)
  BY <1>1, <1>2, KeepsAlongExists
<1>4. Process!Kept(s, S) = f[n]
  BY <1>1, <1>2 DEF Process!Kept, KeepsAlong
<1>5. \A k \in 0 .. n : f[k] = IF k = 0 THEN <<>>
                               ELSE IF s[k] \in S THEN Append(f[k - 1], s[k]) ELSE f[k - 1]
  BY <1>3 DEF KeepsAlong
<1> DEFINE Ok(m) == f[m] \in Seq(T) /\ KeepsOf(f[m], s, S, m)
           M == {m \in 0 .. n : Ok(m)}
<1>6. 0 \in M
  <2>1. f[0] = <<>>
    BY <1>5
  <2>2. f[0] \in Seq(T) /\ KeepsOf(f[0], s, S, 0)
    BY <2>1 DEF KeepsOf
  <2>3. 0 \in 0 .. n
    OBVIOUS
  <2> QED
    BY <2>2, <2>3
<1>7. ASSUME NEW m \in 1 .. n, m - 1 \in M
      PROVE  m \in M
  <2>1. Ok(m - 1)
    BY <1>7
  <2>2. PICK t \in Seq(T) : t = f[m - 1]
    BY <2>1
  <2>3. KeepsOf(t, s, S, m - 1)
    BY <2>1, <2>2
  <2>4. PICK c \in T : c = s[m]
    BY <1>1
  <2>5. f[m] = IF c \in S THEN Append(t, c) ELSE t
    BY <1>5, <2>2, <2>4
  <2>6. \A j \in 1 .. m : j # m => j \in 1 .. (m - 1)
    OBVIOUS
  <2>7. \A j \in 1 .. (m - 1) : j \in 1 .. m
    OBVIOUS
  <2>8. CASE c \in S
    <3>1. PICK r \in Seq(T) : r = Append(t, c)
      BY AppendProperties
    <3>2. PICK l \in Nat : l = Len(t) /\ DOMAIN t = 1 .. l
      OBVIOUS
    <3>3. /\ DOMAIN r = 1 .. (l + 1) /\ r[l + 1] = c
          /\ \A i \in 1 .. l : r[i] = t[i]
      BY <3>1, <3>2
    <3>4. ASSUME NEW i \in DOMAIN r
          PROVE  r[i] \in S /\ \E j \in 1 .. m : s[j] = r[i]
      <4>1. CASE i = l + 1
        <5>1. m \in 1 .. m
          OBVIOUS
        <5> QED
          BY <2>4, <2>8, <3>3, <4>1, <5>1
      <4>2. CASE i # l + 1
        <5>1. i \in DOMAIN t /\ r[i] = t[i]
          BY <3>2, <3>3, <4>2
        <5> QED
          BY <2>3, <2>7, <5>1 DEF KeepsOf
      <4> QED
        BY <4>1, <4>2
    <3>5. ASSUME NEW j \in 1 .. m, s[j] \in S
          PROVE  \E i \in DOMAIN r : r[i] = s[j]
      <4>1. CASE j = m
        <5>1. l + 1 \in DOMAIN r
          BY <3>3
        <5> QED
          BY <2>4, <3>3, <4>1, <5>1
      <4>2. CASE j # m
        <5>1. PICK i \in DOMAIN t : t[i] = s[j]
          BY <2>3, <2>6, <3>5, <4>2 DEF KeepsOf
        <5>2. i \in DOMAIN r /\ r[i] = t[i]
          BY <3>2, <3>3, <5>1
        <5> QED
          BY <5>1, <5>2
      <4> QED
        BY <4>1, <4>2
    <3>6. f[m] = r
      BY <2>5, <2>8, <3>1
    <3> QED
      BY <3>4, <3>5, <3>6 DEF KeepsOf
  <2>9. CASE c \notin S
    <3>1. f[m] = t
      BY <2>5, <2>9
    <3>2. ASSUME NEW j \in 1 .. m, s[j] \in S
          PROVE  \E i \in DOMAIN t : t[i] = s[j]
      <4>1. j # m
        BY <2>4, <2>9, <3>2
      <4> QED
        BY <2>3, <2>6, <3>2, <4>1 DEF KeepsOf
    <3>3. \A i \in DOMAIN t : t[i] \in S /\ \E j \in 1 .. m : s[j] = t[i]
      BY <2>3, <2>7 DEF KeepsOf
    <3> QED
      BY <3>1, <3>2, <3>3 DEF KeepsOf
  <2> QED
    BY <2>8, <2>9
<1>8. n \in M
  <2> HIDE DEF M
  <2>1. Hereditary(M, n)
    BY <1>6, <1>7 DEF Hereditary
  <2> QED
    BY <2>1, UpTo
<1> QED
  BY <1>1, <1>4, <1>8

\* Who queues a command changes nothing else of it.
LEMMA WhoQueues ==
    ASSUME NEW c \in ProcessCommands, NEW who \in Who
    PROVE  /\ [c EXCEPT !.by = who] \in ProcessCommands
           /\ [c EXCEPT !.by = who].by = who
           /\ [c EXCEPT !.by = who].type = c.type /\ [c EXCEPT !.by = who].id = c.id
           /\ c.type = "addNode" => [c EXCEPT !.by = who].node = c.node
           /\ c.type = "addEdge" => [c EXCEPT !.by = who].edge = c.edge
           /\ c.type = "updateNode" => [c EXCEPT !.by = who].patch = c.patch
           /\ c.type = "updateEdge" => [c EXCEPT !.by = who].kind = c.kind
<1>1. CASE c \in [type : {"addNode"}, id : Boxes \ {MadeUp}, node : Process!G!Nodes,
                  by : Who]
  BY <1>1 DEF ProcessCommands
<1>2. CASE c \in [type : {"updateNode"}, id : Boxes, patch : Patches, by : Who]
  BY <1>2 DEF ProcessCommands
<1>3. CASE c \in [type : {"removeNode"}, id : Boxes, by : Who]
  BY <1>3 DEF ProcessCommands
<1>4. CASE c \in [type : {"addEdge"}, id : Arrows, edge : Process!G!Edges, by : Who]
  BY <1>4 DEF ProcessCommands
<1>5. CASE c \in [type : {"updateEdge"}, id : Arrows, kind : Process!ProcessEdges, by : Who]
  BY <1>5 DEF ProcessCommands
<1>6. CASE c \in [type : {"removeEdge"}, id : Arrows, by : Who]
  BY <1>6 DEF ProcessCommands
<1> QED
  BY <1>1, <1>2, <1>3, <1>4, <1>5, <1>6 DEF ProcessCommands

\* The same of a list.
LEMMA ByTyped ==
    ASSUME NEW s \in Seq(ProcessCommands), NEW who \in Who
    PROVE  /\ Process!By(who, s) \in Seq(ProcessCommands)
           /\ DOMAIN Process!By(who, s) = DOMAIN s
           /\ \A i \in DOMAIN s :
                LET c == s[i]
                    d == Process!By(who, s)[i]
                IN  /\ d \in ProcessCommands /\ d.by = who /\ d.type = c.type /\ d.id = c.id
                    /\ c.type = "addNode" => d.node = c.node
                    /\ c.type = "addEdge" => d.edge = c.edge
                    /\ c.type = "updateNode" => d.patch = c.patch
                    /\ c.type = "updateEdge" => d.kind = c.kind
<1>1. PICK t : t = Process!By(who, s)
  OBVIOUS
<1>2. t = [i \in DOMAIN s |-> [s[i] EXCEPT !.by = who]]
  BY <1>1, Zenon DEF Process!By
<1>3. ASSUME NEW i \in DOMAIN s
      PROVE  /\ t[i] \in ProcessCommands /\ t[i].by = who
             /\ t[i].type = s[i].type /\ t[i].id = s[i].id
             /\ s[i].type = "addNode" => t[i].node = s[i].node
             /\ s[i].type = "addEdge" => t[i].edge = s[i].edge
             /\ s[i].type = "updateNode" => t[i].patch = s[i].patch
             /\ s[i].type = "updateEdge" => t[i].kind = s[i].kind
  <2>1. PICK c \in ProcessCommands : c = s[i]
    OBVIOUS
  <2>2. t[i] = [c EXCEPT !.by = who]
    BY <1>2, <2>1
  <2> QED
    BY <2>1, <2>2, WhoQueues
<1>4. DOMAIN t = DOMAIN s
  BY <1>2
<1>5. t \in Seq(ProcessCommands)
  BY <1>2, <1>3
<1> QED
  BY <1>1, <1>3, <1>4, <1>5

\* A list that adds no node.
Amends(s) ==
    /\ s \in Seq(ProcessCommands)
    /\ \A i \in DOMAIN s : s[i].type # "addNode"

\* Two such lists, one after the other.
LEMMA AmendsBoth ==
    ASSUME NEW s, NEW t, Amends(s), Amends(t)
    PROVE  Amends(s \o t)
<1>1. s \in Seq(ProcessCommands) /\ t \in Seq(ProcessCommands)
  BY DEF Amends
<1>2. PICK u \in Seq(ProcessCommands) : u = s \o t
  BY <1>1, ConcatProperties
<1>3. ASSUME NEW i \in DOMAIN u
      PROVE  u[i].type # "addNode"
  <2>1. PICK m \in Nat, n \in Nat : m = Len(s) /\ n = Len(t)
    BY <1>1
  <2>2. /\ Len(u) = m + n
        /\ \A j \in 1 .. m : u[j] = s[j]
        /\ \A j \in 1 .. n : u[m + j] = t[j]
    BY <1>1, <1>2, <2>1, ConcatAt
  <2>3. CASE i <= m
    <3>1. i \in DOMAIN s /\ u[i] = s[i]
      BY <1>1, <2>1, <2>2, <2>3
    <3> QED
      BY <3>1 DEF Amends
  <2>4. CASE ~(i <= m)
    <3>1. PICK j \in 1 .. n : i = m + j
      <4>1. i - m \in 1 .. n /\ i = m + (i - m)
        BY <2>2, <2>4
      <4> QED
        BY <4>1
    <3>2. j \in DOMAIN t
      BY <1>1, <2>1, <3>1
    <3>3. u[i] = t[j]
      BY <2>2, <3>1
    <3> QED
      BY <3>2, <3>3 DEF Amends
  <2> QED
    BY <2>3, <2>4
<1> QED
  BY <1>2, <1>3 DEF Amends

\* Of its node it changes, first of all and only if it was to be a page, the kind.
RepairsPage(p, s) ==
    \A i \in DOMAIN s : s[i].type = "updateNode" =>
      i = 1 /\ s[i].id = p.id /\ p.patch.kind = "page"

\* The repairs of a plan.
LEMMA RepairsAmend ==
    ASSUME NEW p, PendingOk(p), NEW how, NEW order \in Seq(DOMAIN p.plan.edges)
    PROVE  /\ Amends(Process!RepairsOf(p, how, order))
           /\ RepairsPage(p, Process!RepairsOf(p, how, order))
<1>1. PICK edges, ids : edges = p.plan.edges /\ ids = DOMAIN edges
  OBVIOUS
<1>2. /\ ids \subseteq Arrows /\ p.id \in Boxes
      /\ \A e \in ids : edges[e] \in Process!ProcessEdges \cup {"none"}
  BY <1>1 DEF PendingOk
<1>3. PICK S : S = {e \in ids : how = "repair" \/ edges[e] = "none"}
  OBVIOUS
<1>4. PICK kept \in Seq(ids) : kept = Process!Kept(order, S)
  BY <1>1, KeptHas
<1>5. PICK t : t = [i \in DOMAIN kept |-> IF edges[kept[i]] = "none" THEN Process!DropEdge(kept[i])
                                         ELSE Process!Retype(kept[i], edges[kept[i]])]
  OBVIOUS
<1>6. PICK u : u = IF p.plan.fallback THEN <<Process!PatchNode(p.id, [kind |-> "flow-step"])>>
                   ELSE <<>>
  OBVIOUS
<1>7. Process!RepairsOf(p, how, order) = u \o t
  BY <1>1, <1>3, <1>4, <1>5, <1>6, Zenon DEF Process!RepairsOf
<1>8. Amends(t) /\ \A i \in DOMAIN t : t[i].type # "updateNode"
  <2>1. ASSUME NEW i \in DOMAIN kept
        PROVE  t[i] \in ProcessCommands /\ t[i].type \notin {"addNode", "updateNode"}
    <3>1. PICK e \in Arrows : e = kept[i] /\ edges[e] \in Process!ProcessEdges \cup {"none"}
      BY <1>2
    <3>2. CASE edges[e] = "none"
      <4>1. t[i] = Process!DropEdge(e)
        BY <1>5, <3>1, <3>2
      <4> QED
        BY <4>1, DropEdgeTyped
    <3>3. CASE edges[e] # "none"
      <4>1. PICK k \in Process!ProcessEdges : k = edges[e]
        BY <3>1, <3>3
      <4>2. t[i] = Process!Retype(e, k)
        BY <1>5, <3>1, <3>3, <4>1
      <4> QED
        BY <4>2, RetypeTyped
    <3> QED
      BY <3>2, <3>3
  <2>2. t \in Seq(ProcessCommands) /\ DOMAIN t = DOMAIN kept
    BY <1>5, <2>1
  <2> QED
    BY <2>1, <2>2 DEF Amends
<1>9. Amends(u) /\ RepairsPage(p, u) /\ Len(u) \in {0, 1}
  <2>1. CASE p.plan.fallback
    <3>1. PICK patch \in Patches : patch = [kind |-> "flow-step"]
      BY DEF Patches
    <3>2. PICK c \in ProcessCommands :
            c = Process!PatchNode(p.id, patch) /\ c.type = "updateNode" /\ c.id = p.id
      BY <1>2, PatchNodeTyped
    <3>3. u = <<c>>
      BY <1>6, <2>1, <3>1, <3>2
    <3>4. p.patch.kind = "page"
      BY <2>1 DEF PendingOk
    <3> QED
      BY <3>2, <3>3, <3>4 DEF Amends, RepairsPage
  <2>2. CASE ~p.plan.fallback
    <3>1. u = <<>>
      BY <1>6, <2>2
    <3> QED
      BY <3>1 DEF Amends, RepairsPage
  <2> QED
    BY <2>1, <2>2
<1>10. RepairsPage(p, u \o t)
  <2>1. u \in Seq(ProcessCommands) /\ t \in Seq(ProcessCommands)
    BY <1>8, <1>9 DEF Amends
  <2>2. PICK m \in Nat, n \in Nat : m = Len(u) /\ n = Len(t)
    BY <2>1
  <2>3. PICK v : v = u \o t
    OBVIOUS
  <2>4. /\ v \in Seq(ProcessCommands) /\ Len(v) = m + n
        /\ \A i \in 1 .. m : v[i] = u[i]
        /\ \A i \in 1 .. n : v[m + i] = t[i]
    BY <2>1, <2>2, <2>3, ConcatAt
  <2>5. ASSUME NEW i \in DOMAIN v, v[i].type = "updateNode"
        PROVE  i = 1 /\ v[i].id = p.id /\ p.patch.kind = "page"
    <3>1. i \in 1 .. m
      <4>1. SUFFICES ASSUME ~(i <= m) PROVE FALSE
        BY <2>4
      <4>2. PICK j \in 1 .. n : i = m + j
        <5>1. i - m \in 1 .. n /\ i = m + (i - m)
          BY <2>4, <4>1
        <5> QED
          BY <5>1
      <4>3. v[i] = t[j] /\ j \in DOMAIN t
        BY <2>1, <2>2, <2>4, <4>2
      <4> QED
        BY <1>8, <2>5, <4>3
    <3>2. v[i] = u[i] /\ i \in DOMAIN u
      BY <2>1, <2>2, <2>4, <3>1
    <3> QED
      BY <1>9, <2>5, <3>2 DEF RepairsPage
  <2> QED
    BY <2>3, <2>5 DEF RepairsPage
<1> QED
  BY <1>7, <1>8, <1>9, <1>10, AmendsBoth

\* Whether a change of a node fits does not depend on who queues it.
LEMMA FitsOfAny ==
    ASSUME NEW g, NEW c, NEW d, c.type = "updateNode", d.type = "updateNode",
           d.id = c.id, d.patch = c.patch, Process!Fits(g, c)
    PROVE  Process!Fits(g, d)
<1>1. Process!G!Finds(g, c) /\ Process!G!Accepts(g, Process!Full(g, c))
  BY DEF Process!Fits
<1>2. Process!G!HasNode(g, c.id)
  BY <1>1 DEF Process!G!Finds
<1>3. Process!Full(g, d) = Process!Full(g, c)
  BY <1>2, Zenon DEF Process!Full
<1>4. Process!G!Finds(g, d)
  BY <1>2 DEF Process!G!Finds
<1> QED
  BY <1>1, <1>3, <1>4, Zenon DEF Process!Fits

\* A change of the whole content makes its node, in the tab, of its kind.
LEMMA ShowsKind ==
    ASSUME NEW g \in Process!G!Graphs, NEW c \in ProcessCommands, c.type = "updateNode",
           c.patch \in Process!Contents, Process!Fits(g, c)
    PROVE  Process!Content(Shows(g, c), c.id).kind = c.patch.kind
<1>1. PICK u, v : u = Process!After(g, c) /\ v = Shows(g, c)
  OBVIOUS
<1>2. /\ c.id \in NodesOf(u) /\ Process!Content(g, c.id) \in Process!Contents
      /\ Process!Content(u, c.id) = Patched(Process!Content(g, c.id), c.patch)
  BY <1>1, AfterNodes
<1>3. c.patch \in Patches
  BY DEF Patches
<1>4. PICK x \in Process!Contents : x = Patched(Process!Content(g, c.id), c.patch)
  BY <1>2, <1>3, PatchedTyped
<1>5. x.kind = c.patch.kind
  <2>1. "kind" \in DOMAIN c.patch
    BY DEF Process!Contents
  <2> QED
    BY <1>4, <2>1 DEF Patched
<1>6. Process!Content(v, c.id) = Process!Stating(x)
  BY <1>1, <1>2, <1>4, ShowsNodes
<1> QED
  BY <1>1, <1>5, <1>6, StatingTyped

\* The change and its repairs are queued; the server may refuse them.
LEMMA ConfirmKeeps ==
    ASSUME ProcessInv, NEW how, Process!ConfirmRepair(how)
    PROVE  ProcessInv'
<1>1. /\ pending # Absent /\ PendingOk(pending) /\ pending' = Absent
      /\ stored' = stored /\ alone' = alone /\ session' = session
      /\ paste' = paste /\ changes' = changes
  BY DEF Process!ConfirmRepair, ProcessInv, ProcessTypes
<1>2. PICK order \in Process!SetToSeqs(DOMAIN pending.plan.edges) :
        Process!Locally(Process!By("repair",
          <<Process!PatchNode(pending.id, pending.patch)>>
            \o Process!RepairsOf(pending, how, order)))
  BY DEF Process!ConfirmRepair
<1>3. PICK ids : ids = DOMAIN pending.plan.edges
  OBVIOUS
<1>4. ids \subseteq Arrows /\ pending.id \in Boxes /\ pending.patch \in Patches
  BY <1>1, <1>3 DEF PendingOk, Patches
<1>5. IsFiniteSet(ids)
  <2>1. IsFiniteSet(Arrows)
    BY ProcessAssumption, ProcessFinite DEF Process!ConstantsAssumption
  <2> QED
    BY <1>4, <2>1, FS_Subset
<1>6. PICK n \in Nat : n = Cardinality(ids)
  BY <1>5, FS_CardinalityType
<1>7. order \in [1 .. n -> ids]
  <2>1. Process!Cardinality(ids) = n
    BY <1>6, ProcessCardinality
  <2> QED
    BY <1>3, <2>1 DEF Process!SetToSeqs
<1>8. order \in Seq(ids)
  BY <1>6, <1>7
<1>9. PICK t : t = Process!RepairsOf(pending, how, order)
  OBVIOUS
<1>10. Amends(t) /\ RepairsPage(pending, t)
  BY <1>1, <1>3, <1>8, <1>9, RepairsAmend
<1>11. PICK c \in ProcessCommands :
         /\ c = Process!PatchNode(pending.id, pending.patch) /\ c.type = "updateNode"
         /\ c.id = pending.id /\ c.patch = pending.patch
  BY <1>4, PatchNodeTyped
<1>12. Amends(<<c>>)
  BY <1>11 DEF Amends
<1>13. PICK u : u = <<c>> \o t
  OBVIOUS
<1>14. Amends(u)
  BY <1>10, <1>12, <1>13, AmendsBoth
<1>15. PICK s : s = Process!By("repair", u)
  OBVIOUS
<1>16. Process!Locally(s)
  BY <1>2, <1>9, <1>11, <1>13, <1>15
<1>17. /\ s \in Seq(ProcessCommands) /\ DOMAIN s = DOMAIN u
       /\ \A i \in DOMAIN u : /\ s[i].by = "repair" /\ s[i].type = u[i].type
                              /\ s[i].id = u[i].id
                              /\ u[i].type = "updateNode" => s[i].patch = u[i].patch
  <2>1. u \in Seq(ProcessCommands) /\ "repair" \in Who
    BY <1>14 DEF Amends, Who
  <2> QED
    BY <1>15, <2>1, ByTyped
<1>18. AddedBy(s) = {}
  BY <1>14, <1>17 DEF AddedBy, Amends
<1>19. /\ Len(<<c>>) = 1 /\ <<c>>[1] = c
       /\ u \in Seq(ProcessCommands) /\ Len(u) = 1 + Len(t) /\ u[1] = c
       /\ \A i \in 1 .. Len(t) : u[1 + i] = t[i]
  <2>1. PICK q \in Seq(ProcessCommands) : q = <<c>> /\ Len(q) = 1 /\ q[1] = c
    <3>1. <<c>> \in Seq(ProcessCommands) /\ Len(<<c>>) = 1 /\ <<c>>[1] = c
      OBVIOUS
    <3> QED
      BY <3>1
  <2>2. t \in Seq(ProcessCommands)
    BY <1>10 DEF Amends
  <2>3. /\ u \in Seq(ProcessCommands) /\ Len(u) = Len(q) + Len(t)
        /\ \A i \in 1 .. Len(q) : u[i] = q[i]
        /\ \A i \in 1 .. Len(t) : u[Len(q) + i] = t[i]
    BY <1>13, <2>1, <2>2, ConcatAt
  <2>4. 1 \in 1 .. Len(q)
    BY <2>1
  <2> QED
    BY <2>1, <2>3, <2>4
<1>20. ASSUME NEW f, Fit(f, shown, s, Len(s)), NEW k \in 1 .. Len(s),
              Process!Fits(f[k - 1].graph, s[k])
       PROVE  Judged(session.technical, f[k - 1].graph, s[k])
  <2>1. k \in DOMAIN u /\ s[k].by = "repair" /\ Len(s) = Len(u)
    BY <1>17, <1>19
  <2>2. ASSUME SetsKindAlone(s[k])
        PROVE  Process!Content(f[k - 1].graph, s[k].id).kind = "page"
    <3>1. u[k].type = "updateNode" /\ DOMAIN u[k].patch = {"kind"}
      BY <1>17, <2>1, <2>2 DEF SetsKindAlone
    <3>2. k # 1
      <4>1. "says" \in DOMAIN c.patch
        BY <1>1, <1>11 DEF PendingOk, Process!Contents
      <4>2. k = 1 => DOMAIN c.patch = {"kind"}
        <5>1. k = 1 => u[k] = c
          BY <1>19
        <5> QED
          BY <3>1, <5>1
      <4> QED
        BY <4>1, <4>2
    <3>3. PICK i \in 1 .. Len(t) : k = 1 + i
      <4>1. t \in Seq(ProcessCommands)
        BY <1>10 DEF Amends
      <4>2. PICK l \in Nat : l = Len(t)
        BY <4>1
      <4>3. k \in 1 .. (1 + l)
        BY <1>19, <2>1, <4>2
      <4>4. k - 1 \in 1 .. l /\ k = 1 + (k - 1)
        BY <3>2, <4>3
      <4> QED
        BY <4>2, <4>4
    <3>4. u[k] = t[i] /\ i \in DOMAIN t
      BY <1>10, <1>19, <3>3 DEF Amends
    <3>5. i = 1 /\ u[k].id = pending.id /\ pending.patch.kind = "page"
      BY <1>10, <3>1, <3>4 DEF RepairsPage
    <3>6. k = 2 /\ s[k].id = pending.id
      BY <1>17, <2>1, <3>3, <3>5
    <3>7. 1 \in DOMAIN u /\ 1 \in 1 .. Len(s)
      BY <1>19, <2>1, <3>6
    <3>8. PICK d \in ProcessCommands :
            /\ d = s[1] /\ d.type = "updateNode" /\ d.id = pending.id
            /\ d.patch = pending.patch
      BY <1>11, <1>17, <1>19, <3>7
    <3>9. Process!Fits(shown, d)
      <4>1. Process!Fits(shown, c)
        BY <1>11 DEF Process!ConfirmRepair
      <4> QED
        BY <1>11, <3>8, <4>1, FitsOfAny
    <3>10. f[1].graph = Shows(shown, d)
      <4>1. f[0] = [graph |-> shown, done |-> <<>>] /\ f[1] = NextFit(f[0], s[1])
        <5>1. \A j \in 1 .. Len(s) : f[j] = NextFit(f[j - 1], s[j])
          BY <1>20 DEF Fit
        <5>2. f[1] = NextFit(f[1 - 1], s[1]) /\ 1 - 1 = 0
          BY <3>7, <5>1
        <5> QED
          BY <1>20, <5>2 DEF Fit
      <4>2. f[0].graph = shown
        BY <4>1
      <4>3. f[1] = [graph |-> Shows(shown, d), done |-> Append(f[0].done, d)]
        BY <3>8, <3>9, <4>1, <4>2, Zenon DEF NextFit
      <4> QED
        BY <4>3
    <3>11. Process!Content(Shows(shown, d), d.id).kind = "page"
      <4>1. shown \in Process!G!Graphs /\ pending.patch \in Process!Contents
        BY <1>1 DEF ProcessInv, ProcessTypes, PendingOk
      <4> QED
        BY <3>5, <3>8, <3>9, <4>1, ShowsKind
    <3>12. f[k - 1] = f[1]
      BY <3>6
    <3> QED
      BY <3>6, <3>8, <3>10, <3>11, <3>12
  <2> QED
    BY <2>1, <2>2 DEF Judged
<1>21. changes' \in 0 .. MaxChanges
  BY <1>1 DEF ProcessInv, ProcessTypes
<1> QED
  BY <1>1, <1>16, <1>17, <1>18, <1>20, <1>21, LocallyKeeps

-----------------------------------------------------------------------------
(* Processes: copies.                                                      *)

\* A new node always fits.
LEMMA AddNodeFits ==
    ASSUME NEW g \in Process!G!Graphs, Process!G!Valid(g), NEW c \in ProcessCommands,
           c.type = "addNode", c.id \notin NodesOf(g)
    PROVE  Process!Fits(g, c) /\ Process!After(g, c).edges = g.edges
<1>1. c.id \in Boxes /\ c.node \in Process!G!Nodes
  BY ProcessFields
<1>2. PICK h : h = Process!G!SetNode(g, c.id, c.node)
  OBVIOUS
<1>3. /\ h.edges = g.edges
      /\ \A m \in Boxes : h.nodes[m] = IF m = c.id THEN c.node ELSE g.nodes[m]
  BY <1>1, <1>2, BoxFields
<1>4. Process!Full(g, c) = c
  BY DEF Process!Full
<1>5. Process!G!Apply(g, c) = h
  BY <1>2 DEF Process!G!Apply
<1>6. ~Process!G!HasNode(g, c.id)
  BY <1>1 DEF NodesOf
<1>7. Process!G!Finds(g, c)
  BY <1>6 DEF Process!G!Finds
<1>8. Process!G!Valid(h)
  <2>1. ASSUME NEW e \in Arrows, Process!G!HasEdge(h, e)
        PROVE  /\ Process!G!HasNode(h, h.edges[e].source)
               /\ Process!G!HasNode(h, h.edges[e].target)
    <3>1. Process!G!HasEdge(g, e) /\ h.edges[e] = g.edges[e]
      BY <1>3, <2>1 DEF Process!G!HasEdge
    <3>2. /\ Process!G!HasNode(g, g.edges[e].source)
          /\ Process!G!HasNode(g, g.edges[e].target)
      BY <3>1 DEF Process!G!Valid
    <3>3. g.edges[e].source \in Boxes /\ g.edges[e].target \in Boxes
      BY <3>1, BoxesPresent DEF Process!G!Edges
    <3>4. h.nodes[c.id] # Absent
      BY <1>1, <1>3, NothingIsNone
    <3> QED
      BY <1>3, <3>1, <3>2, <3>3, <3>4 DEF Process!G!HasNode
  <2>2. \A e, f \in Arrows : Process!G!HasEdge(h, e) /\ h.edges[e] = h.edges[f] => e = f
    BY <1>3 DEF Process!G!Valid, Process!G!HasEdge
  <2> QED
    BY <2>1, <2>2 DEF Process!G!Valid
<1>9. Process!Fits(g, c)
  BY <1>4, <1>5, <1>7, <1>8, Zenon DEF Process!Fits, Process!G!Accepts
<1>10. Process!After(g, c) = h
  BY <1>4, <1>5 DEF Process!After
<1> QED
  BY <1>3, <1>9, <1>10

\* So does a new relation to a node that has none.
LEMMA AddEdgeFits ==
    ASSUME NEW g \in Process!G!Graphs, Process!G!Valid(g), NEW c \in ProcessCommands,
           c.type = "addEdge", ~Process!G!HasEdge(g, c.id),
           Process!G!HasNode(g, c.edge.source), Process!G!HasNode(g, c.edge.target),
           \A f \in Arrows : Process!G!HasEdge(g, f) => g.edges[f].target # c.edge.target
    PROVE  /\ Process!Fits(g, c)
           /\ Process!After(g, c).nodes = g.nodes
           /\ Process!After(g, c).edges[c.id] = c.edge
<1>1. c.id \in Arrows /\ c.edge \in Process!G!Edges
  BY ProcessFields
<1>2. PICK h : h = Process!G!SetEdge(g, c.id, c.edge)
  OBVIOUS
<1>3. /\ h.nodes = g.nodes
      /\ \A f \in Arrows : h.edges[f] = IF f = c.id THEN c.edge ELSE g.edges[f]
  BY <1>1, <1>2, ArrowFields
<1>4. Process!Full(g, c) = c
  BY DEF Process!Full
<1>5. Process!G!Apply(g, c) = h
  BY <1>2 DEF Process!G!Apply
<1>6. Process!G!Finds(g, c)
  BY DEF Process!G!Finds
<1>7. c.edge # Absent
  BY <1>1, NothingIsNone
<1>8. Process!G!Valid(h)
  <2>1. ASSUME NEW e \in Arrows, Process!G!HasEdge(h, e)
        PROVE  /\ Process!G!HasNode(h, h.edges[e].source)
               /\ Process!G!HasNode(h, h.edges[e].target)
    <3>1. CASE e = c.id
      BY <1>1, <1>3, <3>1 DEF Process!G!HasNode
    <3>2. CASE e # c.id
      BY <1>3, <2>1, <3>2 DEF Process!G!Valid, Process!G!HasEdge, Process!G!HasNode
    <3> QED
      BY <3>1, <3>2
  <2>2. ASSUME NEW e \in Arrows, NEW f \in Arrows, Process!G!HasEdge(h, e),
               h.edges[e] = h.edges[f]
        PROVE  e = f
    <3>1. \A x \in Arrows : x # c.id => g.edges[x] # c.edge
      BY <1>7 DEF Process!G!HasEdge
    <3>2. CASE e = c.id
      BY <1>3, <2>2, <3>1, <3>2
    <3>3. CASE e # c.id /\ f = c.id
      BY <1>3, <2>2, <3>1, <3>3
    <3>4. CASE e # c.id /\ f # c.id
      BY <1>3, <2>2, <3>4 DEF Process!G!Valid, Process!G!HasEdge
    <3> QED
      BY <3>2, <3>3, <3>4
  <2> QED
    BY <2>1, <2>2 DEF Process!G!Valid
<1>9. Process!Fits(g, c)
  BY <1>4, <1>5, <1>6, <1>8, Zenon DEF Process!Fits, Process!G!Accepts
<1>10. Process!After(g, c) = h
  BY <1>4, <1>5 DEF Process!After
<1> QED
  BY <1>1, <1>3, <1>9, <1>10

\* The same, as the tab shows it.
LEMMA AddNodeShows ==
    ASSUME NEW g \in Process!G!Graphs, Process!G!Valid(g), NEW c \in ProcessCommands,
           c.type = "addNode", c.id \notin NodesOf(g)
    PROVE  /\ Process!Fits(g, c) /\ Shows(g, c).edges = g.edges
           /\ NodesOf(Shows(g, c)) = NodesOf(g) \cup {c.id}
           /\ Process!RoleOf(Process!Content(Shows(g, c), c.id)) = Process!RoleOf(c.node.role)
           /\ \A n \in NodesOf(g) : Process!RoleOf(Process!Content(Shows(g, c), n))
                                      = Process!RoleOf(Process!Content(g, n))
<1>1. Process!Fits(g, c) /\ Process!After(g, c).edges = g.edges
  BY AddNodeFits
<1>2. PICK u, v : u = Process!After(g, c) /\ v = Shows(g, c)
  OBVIOUS
<1>3. /\ NodesOf(u) = NodesOf(g) \cup {c.id} /\ Process!Content(u, c.id) = c.node.role
      /\ \A n \in Boxes \ {c.id} : u.nodes[n] = g.nodes[n]
  BY <1>1, <1>2, AfterNodes
<1>4. /\ v.edges = u.edges /\ (NodesOf(u) # {} => NodesOf(v) = NodesOf(u))
      /\ \A n \in NodesOf(u) :
           Process!RoleOf(Process!Content(v, n)) = Process!RoleOf(Process!Content(u, n))
  BY <1>1, <1>2, ShowsNodes
<1>5. ASSUME NEW n \in NodesOf(g)
      PROVE  n \in NodesOf(u) /\ Process!Content(u, n) = Process!Content(g, n)
  BY <1>3 DEF NodesOf, Process!Content
<1> QED
  BY <1>1, <1>2, <1>3, <1>4, <1>5

\* What the tab shows after a new relation.
LEMMA AddEdgeShows ==
    ASSUME NEW g \in Process!G!Graphs, Process!G!Valid(g), NEW c \in ProcessCommands,
           c.type = "addEdge", ~Process!G!HasEdge(g, c.id),
           c.edge.source \in NodesOf(g), c.edge.target \in NodesOf(g),
           \A f \in Arrows : Process!G!HasEdge(g, f) => g.edges[f].target # c.edge.target
    PROVE  /\ Process!Fits(g, c) /\ Shows(g, c).edges[c.id] = c.edge
           /\ NodesOf(Shows(g, c)) = NodesOf(g)
           /\ \A n \in NodesOf(g) : Process!RoleOf(Process!Content(Shows(g, c), n))
                                      = Process!RoleOf(Process!Content(g, n))
<1>1. Process!G!HasNode(g, c.edge.source) /\ Process!G!HasNode(g, c.edge.target)
  BY DEF NodesOf
<1>2. PICK u, v : u = Process!After(g, c) /\ v = Shows(g, c)
  OBVIOUS
<1>3. Process!Fits(g, c) /\ u.nodes = g.nodes /\ u.edges[c.id] = c.edge
  BY <1>1, <1>2, AddEdgeFits
<1>4. NodesOf(u) = NodesOf(g) /\ \A n \in NodesOf(g) : Process!Content(u, n) = Process!Content(g, n)
  BY <1>3 DEF NodesOf, Process!G!HasNode, Process!Content
<1>5. /\ v.edges = u.edges /\ (NodesOf(u) # {} => NodesOf(v) = NodesOf(u))
      /\ \A n \in NodesOf(u) :
           Process!RoleOf(Process!Content(v, n)) = Process!RoleOf(Process!Content(u, n))
  BY <1>2, <1>3, ShowsNodes
<1> QED
  BY <1>2, <1>3, <1>4, <1>5

\* One more command that fits.
LEMMA NextThatFits ==
    ASSUME NEW g \in Process!G!Graphs, Process!G!Valid(g), NEW y, y.graph = g,
           y.done \in Seq(ProcessCommands), NEW c \in ProcessCommands, Process!Fits(g, c),
           NEW z, z = NextFit(y, c), NEW h, h = Shows(g, c)
    PROVE  /\ h \in Process!G!Graphs /\ Process!G!Valid(h)
           /\ z.graph = h /\ z.done \in Seq(ProcessCommands)
<1>1. y.graph \in Process!G!Graphs /\ Process!G!Valid(y.graph) /\ Process!Fits(y.graph, c)
  OBVIOUS
<1>2. /\ NextFit(y, c).graph \in Process!G!Graphs /\ Process!G!Valid(NextFit(y, c).graph)
      /\ NextFit(y, c).done \in Seq(ProcessCommands)
      /\ NextFit(y, c).graph = Shows(y.graph, c)
  BY <1>1, NextFitTyped
<1> QED
  BY <1>2

\* A relation and its ends, all of them new, are on the canvas that has them.
LEMMA CopiesFit ==
    ASSUME NEW g \in Process!G!Graphs, Process!G!Valid(g), NEW s \in Seq(ProcessCommands),
           Len(s) = 3, s[1].type = "addNode", s[2].type = "addNode", s[3].type = "addEdge",
           s[1].id # s[2].id, s[1].id \notin NodesOf(g), s[2].id \notin NodesOf(g),
           ~Process!G!HasEdge(g, s[3].id),
           s[3].edge.source \in {s[1].id, s[2].id}, s[3].edge.target = s[2].id
    PROVE  LET h == Process!Fitting(g, s).graph
           IN  /\ h \in Process!G!Graphs
               /\ s[1].id \in NodesOf(h) /\ s[2].id \in NodesOf(h)
               /\ Process!RoleOf(Process!Content(h, s[1].id)) = Process!RoleOf(s[1].node.role)
               /\ Process!RoleOf(Process!Content(h, s[2].id)) = Process!RoleOf(s[2].node.role)
               /\ h.edges[s[3].id] = s[3].edge
<1>1. PICK f : Fit(f, g, s, 3) /\ Process!Fitting(g, s) = f[3]
  <2>1. 3 \in Nat
    OBVIOUS
  <2> QED
    BY <2>1, FittingIsLast, Zenon
<1>2. /\ f[0] = [graph |-> g, done |-> <<>>]
      /\ f[1] = NextFit(f[0], s[1]) /\ f[2] = NextFit(f[1], s[2]) /\ f[3] = NextFit(f[2], s[3])
  <2>1. 1 - 1 = 0 /\ 2 - 1 = 1 /\ 3 - 1 = 2 /\ 1 \in 1 .. 3 /\ 2 \in 1 .. 3 /\ 3 \in 1 .. 3
    OBVIOUS
  <2>2. \A k \in 1 .. 3 : f[k] = NextFit(f[k - 1], s[k])
    BY <1>1 DEF Fit
  <2> QED
    BY <1>1, <2>1, <2>2 DEF Fit
<1>3. PICK c1 \in ProcessCommands, c2 \in ProcessCommands, c3 \in ProcessCommands :
        c1 = s[1] /\ c2 = s[2] /\ c3 = s[3]
  <2>1. 1 \in 1 .. Len(s) /\ 2 \in 1 .. Len(s) /\ 3 \in 1 .. Len(s)
    OBVIOUS
  <2>2. \A i \in 1 .. Len(s) : s[i] \in ProcessCommands
    BY ElementOfSeq
  <2>3. s[1] \in ProcessCommands /\ s[2] \in ProcessCommands /\ s[3] \in ProcessCommands
    BY <2>1, <2>2, Zenon
  <2> QED
    BY <2>3, Zenon
<1>4. PICK y : y = f[0] /\ y.graph = g /\ y.done \in Seq(ProcessCommands)
  <2>1. f[0].graph = g /\ f[0].done = <<>> /\ f[0].done \in Seq(ProcessCommands)
    BY <1>2
  <2> QED
    BY <2>1
<1>5. PICK g1 : g1 = Shows(g, c1)
  OBVIOUS
<1>6. /\ Process!Fits(g, c1) /\ g1.edges = g.edges
      /\ NodesOf(g1) = NodesOf(g) \cup {c1.id}
      /\ Process!RoleOf(Process!Content(g1, c1.id)) = Process!RoleOf(c1.node.role)
  BY <1>3, <1>5, AddNodeShows
<1>7. /\ g1 \in Process!G!Graphs /\ Process!G!Valid(g1)
      /\ f[1].graph = g1 /\ f[1].done \in Seq(ProcessCommands)
  <2>1. f[1] = NextFit(y, c1)
    BY <1>2, <1>3, <1>4
  <2> QED
    BY <1>4, <1>5, <1>6, <2>1, NextThatFits
<1>8. PICK g2 : g2 = Shows(g1, c2)
  OBVIOUS
<1>9. /\ Process!Fits(g1, c2) /\ g2.edges = g.edges
      /\ NodesOf(g2) = NodesOf(g) \cup {c1.id, c2.id}
      /\ Process!RoleOf(Process!Content(g2, c1.id)) = Process!RoleOf(c1.node.role)
      /\ Process!RoleOf(Process!Content(g2, c2.id)) = Process!RoleOf(c2.node.role)
  <2>1. c2.id \notin NodesOf(g1) /\ c1.id \in NodesOf(g1)
    BY <1>3, <1>6
  <2>2. /\ Process!Fits(g1, c2) /\ g2.edges = g1.edges
        /\ NodesOf(g2) = NodesOf(g1) \cup {c2.id}
        /\ Process!RoleOf(Process!Content(g2, c2.id)) = Process!RoleOf(c2.node.role)
        /\ \A n \in NodesOf(g1) :
             Process!RoleOf(Process!Content(g2, n)) = Process!RoleOf(Process!Content(g1, n))
    BY <1>3, <1>7, <1>8, <2>1, AddNodeShows
  <2> QED
    BY <1>6, <2>1, <2>2
<1>10. /\ g2 \in Process!G!Graphs /\ Process!G!Valid(g2)
       /\ f[2].graph = g2 /\ f[2].done \in Seq(ProcessCommands)
  <2>1. f[2] = NextFit(f[1], c2)
    BY <1>2, <1>3
  <2> QED
    BY <1>7, <1>8, <1>9, <2>1, NextThatFits
<1>11. PICK g3 : g3 = Shows(g2, c3)
  OBVIOUS
<1>12. /\ Process!Fits(g2, c3) /\ NodesOf(g3) = NodesOf(g2) /\ g3.edges[c3.id] = c3.edge
       /\ \A n \in NodesOf(g2) :
            Process!RoleOf(Process!Content(g3, n)) = Process!RoleOf(Process!Content(g2, n))
  <2>1. ~Process!G!HasEdge(g2, c3.id)
    BY <1>3, <1>9 DEF Process!G!HasEdge
  <2>2. c3.edge.source \in NodesOf(g2) /\ c3.edge.target \in NodesOf(g2)
    BY <1>3, <1>9
  <2>3. ASSUME NEW x \in Arrows, Process!G!HasEdge(g2, x)
        PROVE  g2.edges[x].target # c3.edge.target
    <3>1. Process!G!HasEdge(g, x) /\ g2.edges[x] = g.edges[x]
      BY <1>9, <2>3 DEF Process!G!HasEdge
    <3>2. Process!G!HasNode(g, g.edges[x].target)
      BY <3>1 DEF Process!G!Valid
    <3>3. g.edges[x].target \in Boxes
      BY <3>1, BoxesPresent DEF Process!G!Edges
    <3> QED
      BY <1>3, <3>1, <3>2, <3>3 DEF NodesOf
  <2> QED
    BY <1>3, <1>10, <1>11, <2>1, <2>2, <2>3, AddEdgeShows
<1>13. g3 \in Process!G!Graphs /\ f[3].graph = g3
  <2>1. f[3] = NextFit(f[2], c3)
    BY <1>2, <1>3
  <2> QED
    BY <1>10, <1>11, <1>12, <2>1, NextThatFits
<1>14. /\ c1.id \in NodesOf(g2) /\ c2.id \in NodesOf(g2)
       /\ Process!RoleOf(Process!Content(g3, c1.id)) = Process!RoleOf(c1.node.role)
       /\ Process!RoleOf(Process!Content(g3, c2.id)) = Process!RoleOf(c2.node.role)
  BY <1>9, <1>12
<1> QED
  BY <1>1, <1>3, <1>12, <1>13, <1>14

\* Only what the server is asked changes.
LEMMA PasteKeeps ==
    ASSUME ProcessInv, stored' = stored, shown' = shown, waiting' = waiting, alone' = alone,
           session' = session, pending' = pending, changes' \in 0 .. MaxChanges,
           paste' # Absent =>
             PasteOk(paste', session.technical, Seen(stored, shown, waiting))
    PROVE  ProcessInv'
<1>1. ProcessTypes'
  BY DEF ProcessInv, ProcessTypes
<1> QED
  BY <1>1 DEF ProcessInv

\* The content of a copy.
LEMMA CopyContentTyped ==
    ASSUME ProcessInv, NEW n \in Boxes, Process!G!HasNode(shown, n)
    PROVE  Process!CopyContent(n) \in Process!Contents
<1>1. shown \in Process!G!Graphs
  BY DEF ProcessInv, ProcessTypes
<1>2. PICK x \in Process!Contents : x = Process!Content(shown, n)
  BY <1>1, BoxesPresent DEF Process!Content, Process!G!Nodes
<1>3. CopyOf \in [Process!Labels -> Process!Labels]
  BY ProcessAssumption DEF Process!ConstantsAssumption
<1>4. [x EXCEPT !.label = CopyOf[x.label]] \in Process!Contents
  BY <1>3 DEF Process!Contents
<1>5. Process!CopyContent(n) = [x EXCEPT !.label = CopyOf[x.label]]
  BY <1>2 DEF Process!CopyContent
<1> QED
  BY <1>4, <1>5

\* What is asked of the server.
LEMMA AskPasteIs ==
    ASSUME ProcessInv, NEW s, Process!AskPaste(s),
           Copies(Process!By("paste", s), Seen(stored, shown, waiting)),
           ~Process!Blocks(s) /\ ~session.technical =>
             \A i \in DOMAIN Process!By("paste", s) :
               Process!By("paste", s)[i].type = "addEdge" =>
                 Agreed(Process!By("paste", s), Process!By("paste", s)[i])
    PROVE  ProcessInv'
<1>1. PICK t : t = Process!By("paste", s)
  OBVIOUS
<1>2. PICK blocked : blocked = Process!Blocks(s)
  OBVIOUS
<1>3. paste' = [commands |-> t, blocked |-> blocked, filtered |-> FALSE]
  BY <1>1, <1>2 DEF Process!AskPaste
<1>4. paste'.commands = t /\ paste'.blocked = blocked
  BY <1>3
<1>5. Copies(t, Seen(stored, shown, waiting))
  BY <1>1
<1>6. ~blocked /\ ~session.technical =>
        \A i \in DOMAIN t : t[i].type = "addEdge" => Agreed(t, t[i])
  BY <1>1, <1>2
<1>7. PasteOk(paste', session.technical, Seen(stored, shown, waiting))
  BY <1>4, <1>5, <1>6, Zenon DEF PasteOk
<1>8. /\ stored' = stored /\ shown' = shown /\ waiting' = waiting /\ alone' = alone
      /\ session' = session /\ pending' = pending
  BY DEF Process!AskPaste
<1>9. changes' \in 0 .. MaxChanges
  BY AskCounts DEF Process!AskPaste
<1> QED
  BY <1>7, <1>8, <1>9, PasteKeeps

\* A copy of a node.
LEMMA DuplicateNodeKeeps ==
    ASSUME ProcessInv, NEW n \in Process!OnCanvas, Process!DuplicateNode(n)
    PROVE  ProcessInv'
<1>1. n \in Boxes /\ Process!G!HasNode(shown, n)
  BY DEF Process!OnCanvas
<1>2. PICK x \in Process!Contents : x = Process!CopyContent(n)
  BY <1>1, CopyContentTyped
<1>3. PICK m \in Boxes \ {MadeUp} :
        m = Head(Process!FreshIn(Boxes)) /\ m \notin Process!Used
  BY FreshAreNew DEF Process!DuplicateNode
<1>4. PICK c \in ProcessCommands :
        c = Process!AddNode(m, x) /\ c.type = "addNode" /\ c.id = m
  BY AddNodeTyped
<1>5. PICK s \in Seq(ProcessCommands) : s = <<c>> /\ DOMAIN s = {1} /\ s[1] = c
  <2>1. <<c>> \in Seq(ProcessCommands) /\ DOMAIN <<c>> = {1} /\ <<c>>[1] = c
    OBVIOUS
  <2> QED
    BY <2>1
<1>6. Process!AskPaste(s)
  BY <1>2, <1>3, <1>4, <1>5 DEF Process!DuplicateNode, Process!CopiesOfNode
<1>7. PICK t : t = Process!By("paste", s)
  OBVIOUS
<1>8. /\ t \in Seq(ProcessCommands) /\ DOMAIN t = {1}
      /\ t[1].by = "paste" /\ t[1].type = "addNode" /\ t[1].id = m
  <2>1. "paste" \in Who
    BY DEF Who
  <2> QED
    <3>1. /\ t \in Seq(ProcessCommands) /\ DOMAIN t = DOMAIN s
          /\ \A j \in DOMAIN s :
               t[j].by = "paste" /\ t[j].type = s[j].type /\ t[j].id = s[j].id
      BY <1>7, <2>1, ByTyped
    <3> QED
      BY <1>4, <1>5, <3>1
<1>9. AddedBy(t) \subseteq {m}
  BY <1>8 DEF AddedBy
<1>10. m \notin Seen(stored, shown, waiting)
  BY <1>3, UnusedBox
<1>11. Copies(t, Seen(stored, shown, waiting))
  BY <1>8, <1>9, <1>10 DEF Copies
<1>12. \A i \in DOMAIN t : t[i].type # "addEdge"
  BY <1>8
<1> QED
  BY <1>6, <1>7, <1>11, <1>12, AskPasteIs

\* Three commands.
LEMMA Triple ==
    ASSUME NEW c1 \in ProcessCommands, NEW c2 \in ProcessCommands, NEW c3 \in ProcessCommands
    PROVE  \E s \in Seq(ProcessCommands) :
             s = <<c1, c2, c3>> /\ Len(s) = 3 /\ s[1] = c1 /\ s[2] = c2 /\ s[3] = c3
<1>1. /\ <<c1, c2, c3>> \in Seq(ProcessCommands) /\ Len(<<c1, c2, c3>>) = 3
      /\ <<c1, c2, c3>>[1] = c1 /\ <<c1, c2, c3>>[2] = c2 /\ <<c1, c2, c3>>[3] = c3
  OBVIOUS
<1> QED
  BY <1>1, Zenon

\* A canvas with a relation that the rules forbid has errors.
LEMMA ForbiddenBlocks ==
    ASSUME NEW s, NEW h \in Process!G!Graphs, h = Process!Fitting(shown, s).graph,
           ~Process!Blocks(s), ~session.technical, NEW e \in Arrows, Process!G!HasEdge(h, e)
    PROVE  Process!G!AllowedIn(h, h.edges[e])
<1>1. Process!AuditErrors(h) = {}
  BY DEF Process!Blocks
<1>2. Process!Broken(h) \subseteq Process!AuditErrors(h)
  BY DEF Process!AuditErrors
<1> QED
  BY <1>1, <1>2 DEF Process!Broken

\* A copy of a relation, with its ends.
LEMMA DuplicateEdgeKeeps ==
    ASSUME ProcessInv, NEW e \in Arrows, Process!G!HasEdge(shown, e),
           Process!DuplicateEdge(e)
    PROVE  ProcessInv'
<1>1. shown \in Process!G!Graphs /\ Process!G!Valid(shown)
  BY DEF ProcessInv, ProcessTypes
<1>2. PICK edge \in Process!G!Edges : edge = shown.edges[e]
  BY <1>1, BoxesPresent
<1>3. /\ edge.source \in Boxes /\ edge.target \in Boxes /\ edge.kind \in Process!ProcessEdges
      /\ Process!G!HasNode(shown, edge.source) /\ Process!G!HasNode(shown, edge.target)
  BY <1>1, <1>2 DEF Process!G!Edges, Process!G!Valid
<1>4. PICK x \in Process!Contents, y \in Process!Contents :
        x = Process!CopyContent(edge.source) /\ y = Process!CopyContent(edge.target)
  BY <1>3, CopyContentTyped
<1>5. PICK ids : ids = Process!FreshIn(Boxes)
  OBVIOUS
<1>6. PICK m \in Boxes \ {MadeUp}, n \in Boxes \ {MadeUp} :
        m = ids[1] /\ n = ids[2] /\ m # n /\ m \notin Process!Used /\ n \notin Process!Used
  <2>1. /\ ids \in Seq(Boxes \ (Process!Used \cup {MadeUp})) /\ Len(ids) > 1
        /\ \A i, j \in DOMAIN ids : ids[i] = ids[j] => i = j
    BY <1>5, FreshAreNew DEF Process!DuplicateEdge
  <2>2. 1 \in DOMAIN ids /\ 2 \in DOMAIN ids
    BY <2>1
  <2>3. ids[1] # ids[2]
    BY <2>1, <2>2
  <2>4. /\ ids[1] \in Boxes \ (Process!Used \cup {MadeUp})
        /\ ids[2] \in Boxes \ (Process!Used \cup {MadeUp})
    BY <2>1, <2>2
  <2> QED
    BY <2>3, <2>4
<1>7. PICK d \in Arrows : d = Head(Process!FreshIn(Arrows)) /\ d \notin Process!Used
  BY FreshAreNew DEF Process!DuplicateEdge
<1>8. PICK i \in {m, n} : i = IF edge.source = edge.target THEN n ELSE m
  OBVIOUS
<1>9. PICK c1 \in ProcessCommands :
        c1 = Process!AddNode(m, x) /\ c1.type = "addNode" /\ c1.id = m
  BY AddNodeTyped
<1>10. PICK c2 \in ProcessCommands :
         c2 = Process!AddNode(n, y) /\ c2.type = "addNode" /\ c2.id = n
  BY AddNodeTyped
<1>11. PICK k \in Process!ProcessEdges : k = edge.kind
  BY <1>3
<1>12. PICK c3 \in ProcessCommands :
         /\ c3 = Process!AddEdge(d, i, n, k) /\ c3.type = "addEdge" /\ c3.id = d
         /\ c3.edge.source = i /\ c3.edge.target = n
  <2>1. i \in Boxes
    BY <1>8
  <2> QED
    BY <2>1, AddEdgeTyped
<1>13. PICK s \in Seq(ProcessCommands) :
         s = <<c1, c2, c3>> /\ Len(s) = 3 /\ s[1] = c1 /\ s[2] = c2 /\ s[3] = c3
  BY Triple
<1>14. Process!AskPaste(s)
  <2>1. Process!CopiesOfEdge(e) = <<c1, c2, c3>>
    BY <1>2, <1>4, <1>5, <1>6, <1>7, <1>8, <1>9, <1>10, <1>11, <1>12, Zenon
       DEF Process!CopiesOfEdge
  <2> QED
    BY <1>13, <2>1 DEF Process!DuplicateEdge
<1>15. PICK t : t = Process!By("paste", s)
  OBVIOUS
<1>16. PICK d1, d2, d3 : d1 = t[1] /\ d2 = t[2] /\ d3 = t[3]
  OBVIOUS
<1>17. /\ t \in Seq(ProcessCommands) /\ DOMAIN t = {1, 2, 3}
       /\ d1.by = "paste" /\ d1.type = "addNode" /\ d1.id = m /\ d1.node = c1.node
       /\ d2.by = "paste" /\ d2.type = "addNode" /\ d2.id = n /\ d2.node = c2.node
       /\ d3.by = "paste" /\ d3.type = "addEdge" /\ d3.edge = c3.edge
  <2>1. "paste" \in Who
    BY DEF Who
  <2>2. DOMAIN s = {1, 2, 3}
    BY <1>13
  <2>3. /\ t \in Seq(ProcessCommands) /\ DOMAIN t = DOMAIN s
        /\ \A j \in DOMAIN s :
             /\ t[j].by = "paste" /\ t[j].type = s[j].type /\ t[j].id = s[j].id
             /\ s[j].type = "addNode" => t[j].node = s[j].node
             /\ s[j].type = "addEdge" => t[j].edge = s[j].edge
    BY <1>15, <2>1, ByTyped
  <2> QED
    BY <1>9, <1>10, <1>12, <1>13, <1>16, <2>2, <2>3
<1>18. AddedBy(t) = {m, n}
  BY <1>16, <1>17 DEF AddedBy
<1>19. m \notin Seen(stored, shown, waiting) /\ n \notin Seen(stored, shown, waiting)
  BY <1>6, UnusedBox
<1>20. Copies(t, Seen(stored, shown, waiting))
  <2>1. \A j \in DOMAIN t : t[j].by = "paste" /\ t[j].type \in {"addNode", "addEdge"}
    BY <1>16, <1>17
  <2>2. AddedBy(t) \cap Seen(stored, shown, waiting) = {}
    BY <1>18, <1>19
  <2>3. \A j, l \in DOMAIN t : t[j].type = "addNode" /\ t[l].type = "addNode"
                                 /\ t[j].id = t[l].id => t[j] = t[l]
    BY <1>6, <1>16, <1>17
  <2>4. \A j \in DOMAIN t : t[j].type = "addEdge" =>
          t[j].edge.source \in AddedBy(t) /\ t[j].edge.target \in AddedBy(t)
    BY <1>8, <1>12, <1>16, <1>17, <1>18
  <2> QED
    BY <1>17, <2>1, <2>2, <2>3, <2>4 DEF Copies
<1>21. ASSUME ~Process!Blocks(s), ~session.technical
       PROVE  \A j \in DOMAIN t : t[j].type = "addEdge" => Agreed(t, t[j])
  <2>1. PICK h : h = Process!Fitting(shown, s).graph
    OBVIOUS
  <2>2. /\ h \in Process!G!Graphs /\ m \in NodesOf(h) /\ n \in NodesOf(h)
        /\ Process!RoleOf(Process!Content(h, m)) = Process!RoleOf(c1.node.role)
        /\ Process!RoleOf(Process!Content(h, n)) = Process!RoleOf(c2.node.role)
        /\ h.edges[d] = c3.edge
    <3>1. m \notin NodesOf(shown) /\ n \notin NodesOf(shown)
      BY <1>19 DEF Seen
    <3>2. ~Process!G!HasEdge(shown, d)
      BY <1>7, UnusedArrow
    <3>3. /\ Len(s) = 3
          /\ s[1].type = "addNode" /\ s[2].type = "addNode" /\ s[3].type = "addEdge"
          /\ s[1].id = m /\ s[2].id = n /\ s[3].id = d /\ m # n
          /\ s[1].node = c1.node /\ s[2].node = c2.node /\ s[3].edge = c3.edge
          /\ s[3].edge.source \in {m, n} /\ s[3].edge.target = n
      BY <1>6, <1>8, <1>9, <1>10, <1>12, <1>13
    <3>4. /\ s[1].id # s[2].id
          /\ s[1].id \notin NodesOf(shown) /\ s[2].id \notin NodesOf(shown)
          /\ ~Process!G!HasEdge(shown, s[3].id)
          /\ s[3].edge.source \in {s[1].id, s[2].id} /\ s[3].edge.target = s[2].id
      BY <3>1, <3>2, <3>3
    <3>5. LET u == Process!Fitting(shown, s).graph
          IN  /\ u \in Process!G!Graphs
              /\ s[1].id \in NodesOf(u) /\ s[2].id \in NodesOf(u)
              /\ Process!RoleOf(Process!Content(u, s[1].id)) = Process!RoleOf(s[1].node.role)
              /\ Process!RoleOf(Process!Content(u, s[2].id)) = Process!RoleOf(s[2].node.role)
              /\ u.edges[s[3].id] = s[3].edge
      BY <1>1, <3>3, <3>4, CopiesFit
    <3> QED
      BY <2>1, <3>3, <3>5
  <2>3. c3.edge \in Process!G!Edges
    BY <1>12, ProcessFields
  <2>4. Process!G!HasEdge(h, d)
    BY <2>2, <2>3, NothingIsNone DEF Process!G!HasEdge
  <2>5. Process!G!AllowedIn(h, c3.edge)
    BY <1>21, <2>1, <2>2, <2>4, ForbiddenBlocks
  <2>6. Process!G!HasNode(h, i) /\ Process!G!HasNode(h, n)
    BY <1>8, <2>2 DEF NodesOf
  <2>7. c3.edge.kind \in Process!KindsBetween(Process!RoleOf(Process!Content(h, i)),
                                             Process!RoleOf(Process!Content(h, n)))
    BY <1>12, <2>2, <2>3, <2>5, <2>6, AllowedByRoles
  <2>8. ASSUME NEW j \in DOMAIN t, t[j].type = "addNode"
        PROVE  Process!RoleOf(Process!Content(h, t[j].id)) = Process!RoleOf(t[j].node.role)
    BY <1>16, <1>17, <2>2, <2>8
  <2>9. Agreed(t, d3)
    BY <1>12, <1>17, <2>7, <2>8 DEF Agreed
  <2> QED
    BY <1>16, <1>17, <2>9
<1> QED
  BY <1>14, <1>15, <1>20, <1>21, AskPasteIs

\* A relation of copies, where it fits, is one that the server takes, or that of a technical
\* session.
LEMMA CopiesJudged ==
    ASSUME NEW g \in Process!G!Graphs, Process!G!Valid(g), NEW technical, NEW seen,
           NodesOf(g) \cup {MadeUp} \subseteq seen, NEW s, Copies(s, seen),
           ~technical => \A i \in DOMAIN s : s[i].type = "addEdge" => Agreed(s, s[i]),
           NEW f, Fit(f, g, s, Len(s)), NEW k \in 1 .. Len(s),
           Process!Fits(f[k - 1].graph, s[k])
    PROVE  Judged(technical, f[k - 1].graph, s[k])
<1>1. /\ s \in Seq(ProcessCommands)
      /\ \A i \in DOMAIN s : s[i].by = "paste" /\ s[i].type \in {"addNode", "addEdge"}
      /\ AddedBy(s) \cap seen = {}
      /\ \A i \in DOMAIN s : s[i].type = "addEdge" =>
           s[i].edge.source \in AddedBy(s) /\ s[i].edge.target \in AddedBy(s)
  BY DEF Copies
<1>2. PICK n \in Nat : n = Len(s) /\ k \in DOMAIN s /\ k - 1 \in 0 .. n
  BY <1>1
<1>3. PICK c \in ProcessCommands : c = s[k]
  BY <1>1, <1>2
<1>4. PICK h : h = f[k - 1].graph
  OBVIOUS
<1>5. h \in Process!G!Graphs
  BY <1>1, <1>2, <1>4, FitTyped
<1>6. CASE c.type = "addNode"
  <2>1. Process!ServerTakes(h, c)
    BY <1>3, <1>4, <1>6, TakesPlain
  <2> QED
    BY <1>3, <1>4, <1>6, <2>1 DEF Judged, Plain, SetsKindAlone
<1>7. CASE technical
  BY <1>1, <1>2, <1>3, <1>7 DEF Judged, SetsKindAlone
<1>8. CASE ~technical /\ c.type = "addEdge"
  <2>1. PICK from, to : from = c.edge.source /\ to = c.edge.target
    OBVIOUS
  <2>2. Process!Fits(h, c)
    BY <1>3, <1>4
  <2>3. /\ c.edge \in Process!G!Edges
        /\ Process!G!HasNode(h, from) /\ Process!G!HasNode(h, to)
    BY <1>5, <1>8, <2>1, <2>2, EndsThere
  <2>4. from \in AddedBy(s) /\ to \in AddedBy(s)
    BY <1>1, <1>2, <1>3, <1>8, <2>1
  <2>5. from \in NodesOf(h) /\ to \in NodesOf(h)
    BY <2>3, <2>4 DEF NodesOf, AddedBy
  <2>6. from \notin NodesOf(g) \cup {MadeUp} /\ to \notin NodesOf(g) \cup {MadeUp}
    BY <1>1, <2>4
  <2>7. FromList(g, h, s, from) /\ FromList(g, h, s, to)
    <3>1. \A b1 \in NodesOf(h) : FromList(g, h, s, b1)
      <4>1. \A i \in DOMAIN s : s[i].type \in {"addNode", "addEdge"}
        BY <1>1
      <4>2. \A b1 \in NodesOf(f[k - 1].graph) : FromList(g, f[k - 1].graph, s, b1)
        BY <1>1, <1>2, <4>1, FitContents
      <4> QED
        BY <1>4, <4>2
    <3> QED
      BY <2>5, <3>1
  <2>8. PICK i \in DOMAIN s :
          /\ s[i].type = "addNode" /\ s[i].id = from
          /\ Process!RoleOf(Process!Content(h, from)) = Process!RoleOf(s[i].node.role)
    BY <2>6, <2>7 DEF FromList
  <2>9. PICK j \in DOMAIN s :
          /\ s[j].type = "addNode" /\ s[j].id = to
          /\ Process!RoleOf(Process!Content(h, to)) = Process!RoleOf(s[j].node.role)
    BY <2>6, <2>7 DEF FromList
  <2>10. Agreed(s, c)
    BY <1>2, <1>3, <1>8
  <2>11. c.edge.kind \in Process!KindsBetween(Process!RoleOf(s[i].node.role),
                                             Process!RoleOf(s[j].node.role))
    BY <2>1, <2>8, <2>9, <2>10 DEF Agreed
  <2>12. c.edge.kind \in Process!KindsBetween(
                           Process!RoleOf(Process!Content(h, c.edge.source)),
                           Process!RoleOf(Process!Content(h, c.edge.target)))
    BY <2>1, <2>8, <2>9, <2>11
  <2>13. Process!ServerTakes(h, c)
    BY <1>5, <1>8, <2>2, <2>12, TakesAllowed
  <2> QED
    BY <1>3, <1>4, <1>8, <2>13 DEF Judged, Plain, SetsKindAlone
<1>9. c.type \in {"addNode", "addEdge"}
  BY <1>1, <1>2, <1>3
<1> QED
  BY <1>6, <1>7, <1>8, <1>9

\* The commands of s, or some of them with all the nodes.
Among(t, s) ==
    /\ t \in Seq(ProcessCommands)
    /\ \A i \in DOMAIN t : \E j \in DOMAIN s : s[j] = t[i]
    /\ \A j \in DOMAIN s : s[j].type = "addNode" => \E i \in DOMAIN t : t[i] = s[j]

\* Copies without some relations are copies.
LEMMA FewerCopies ==
    ASSUME NEW s, NEW seen, Copies(s, seen), NEW t, Among(t, s)
    PROVE  Copies(t, seen)
<1>1. AddedBy(t) = AddedBy(s)
  BY DEF AddedBy, Among
<1>2. t \in Seq(ProcessCommands)
  BY DEF Among
<1>3. \A i \in DOMAIN t : t[i].by = "paste" /\ t[i].type \in {"addNode", "addEdge"}
  BY DEF Copies, Among
<1>4. \A i, j \in DOMAIN t : t[i].type = "addNode" /\ t[j].type = "addNode"
                               /\ t[i].id = t[j].id => t[i] = t[j]
  <2>1. SUFFICES ASSUME NEW i \in DOMAIN t, NEW j \in DOMAIN t, t[i].type = "addNode",
                        t[j].type = "addNode", t[i].id = t[j].id
                 PROVE  t[i] = t[j]
    OBVIOUS
  <2>2. PICK x \in DOMAIN s, y \in DOMAIN s : s[x] = t[i] /\ s[y] = t[j]
    BY DEF Among
  <2> QED
    BY <2>1, <2>2 DEF Copies
<1>5. \A i \in DOMAIN t : t[i].type = "addEdge" =>
        t[i].edge.source \in AddedBy(t) /\ t[i].edge.target \in AddedBy(t)
  BY <1>1 DEF Copies, Among
<1> QED
  BY <1>1, <1>2, <1>3, <1>4, <1>5 DEF Copies

\* What is allowed among the copies is agreed.
LEMMA AllowedAgreed ==
    ASSUME NEW s, NEW seen, Copies(s, seen), NEW t, Among(t, s), NEW c, c.type = "addEdge",
           Process!AllowedAmong(s, c)
    PROVE  Agreed(t, c)
<1>1. SUFFICES ASSUME NEW i \in DOMAIN t, NEW j \in DOMAIN t,
                      t[i].type = "addNode", t[i].id = c.edge.source,
                      t[j].type = "addNode", t[j].id = c.edge.target
               PROVE  c.edge.kind \in Process!KindsBetween(Process!RoleOf(t[i].node.role),
                                                          Process!RoleOf(t[j].node.role))
  BY DEF Agreed
<1>2. PICK x : x = CHOOSE any \in DOMAIN s :
                     s[any].type = "addNode" /\ s[any].id = c.edge.source
  OBVIOUS
<1>3. PICK y : y = CHOOSE any \in DOMAIN s :
                     s[any].type = "addNode" /\ s[any].id = c.edge.target
  OBVIOUS
<1>4. c.edge.kind \in Process!KindsBetween(Process!RoleOf(s[x].node.role),
                                          Process!RoleOf(s[y].node.role))
  BY <1>2, <1>3 DEF Process!AllowedAmong
<1>5. ASSUME NEW m \in DOMAIN t, t[m].type = "addNode",
             NEW z, z = CHOOSE any \in DOMAIN s : s[any].type = "addNode" /\ s[any].id = t[m].id
      PROVE  s[z] = t[m]
  <2>1. PICK w \in DOMAIN s : s[w] = t[m]
    BY DEF Among
  <2>2. z \in DOMAIN s /\ s[z].type = "addNode" /\ s[z].id = t[m].id
    BY <1>5, <2>1
  <2> QED
    BY <1>5, <2>1, <2>2 DEF Copies
<1>6. s[x] = t[i] /\ s[y] = t[j]
  BY <1>1, <1>2, <1>3, <1>5
<1> QED
  BY <1>4, <1>6

\* What the server let pass is inserted, or it is asked again without some relations.
LEMMA HearPasteKeeps == ASSUME ProcessInv, Process!HearPaste PROVE ProcessInv'
<1>1. /\ paste # Absent
      /\ PasteOk(paste, session.technical, Seen(stored, shown, waiting))
      /\ stored' = stored /\ alone' = alone /\ pending' = pending
      /\ session' = session /\ changes' = changes
  BY DEF Process!HearPaste, ProcessInv
<1>2. changes' \in 0 .. MaxChanges
  BY <1>1 DEF ProcessInv, ProcessTypes
<1>3. PICK s : s = paste.commands
  OBVIOUS
<1>4. Copies(s, Seen(stored, shown, waiting))
  BY <1>1, <1>3 DEF PasteOk
<1>5. CASE ~paste.blocked
  <2>1. Process!Locally(s) /\ paste' = Absent
    BY <1>3, <1>5 DEF Process!HearPaste
  <2>2. s \in Seq(ProcessCommands)
    BY <1>4 DEF Copies
  <2>3. shown \in Process!G!Graphs /\ Process!G!Valid(shown)
    BY DEF ProcessInv, ProcessTypes
  <2>4. NodesOf(shown) \cup {MadeUp} \subseteq Seen(stored, shown, waiting)
    BY DEF Seen
  <2>5. ~session.technical =>
          \A i \in DOMAIN s : s[i].type = "addEdge" => Agreed(s, s[i])
    BY <1>1, <1>3, <1>5 DEF PasteOk
  <2>6. \A f : Fit(f, shown, s, Len(s)) =>
          \A k \in 1 .. Len(s) : Process!Fits(f[k - 1].graph, s[k]) =>
                                   Judged(session.technical, f[k - 1].graph, s[k])
    BY <1>4, <2>3, <2>4, <2>5, CopiesJudged
  <2> QED
    BY <1>1, <1>2, <2>1, <2>2, <2>6, LocallyKeeps
<1>6. CASE paste.blocked /\ session.partial /\ ~paste.filtered
  <2>1. PICK S : S = {c \in Process!Range(s) : Process!AllowedAmong(s, c)}
    OBVIOUS
  <2>2. PICK kept, blocked : kept = Process!Kept(s, S) /\ blocked = Process!Blocks(kept)
    OBVIOUS
  <2>3. /\ paste' = [commands |-> kept, blocked |-> blocked, filtered |-> TRUE]
        /\ shown' = shown /\ waiting' = waiting
    BY <1>3, <1>6, <2>1, <2>2 DEF Process!HearPaste
  <2>4. s \in Seq(ProcessCommands)
    BY <1>4 DEF Copies
  <2>5. kept \in Seq(ProcessCommands) /\ KeepsOf(kept, s, S, Len(s))
    BY <2>2, <2>4, KeptHas
  <2>6. DOMAIN s = 1 .. Len(s)
    BY <2>4
  <2>7. Among(kept, s)
    <3>1. ASSUME NEW j \in DOMAIN s, s[j].type = "addNode"
          PROVE  s[j] \in S
      BY <2>1, <3>1 DEF Process!Range, Process!AllowedAmong
    <3> QED
      BY <2>5, <2>6, <3>1 DEF Among, KeepsOf
  <2>8. Copies(kept, Seen(stored, shown, waiting))
    BY <1>4, <2>7, FewerCopies
  <2>9. ASSUME NEW i \in DOMAIN kept, kept[i].type = "addEdge"
        PROVE  Agreed(kept, kept[i])
    <3>1. Process!AllowedAmong(s, kept[i])
      BY <2>1, <2>5 DEF KeepsOf
    <3> QED
      BY <1>4, <2>7, <2>9, <3>1, AllowedAgreed
  <2>10. paste'.commands = kept
    BY <2>3
  <2>11. PasteOk(paste', session.technical, Seen(stored, shown, waiting))
    BY <2>8, <2>9, <2>10, Zenon DEF PasteOk
  <2> QED
    BY <1>1, <1>2, <2>3, <2>11, PasteKeeps
<1>7. CASE paste.blocked /\ ~(session.partial /\ ~paste.filtered)
  <2>1. paste' = Absent /\ shown' = shown /\ waiting' = waiting
    BY <1>7 DEF Process!HearPaste
  <2> QED
    BY <1>1, <1>2, <2>1, PasteKeeps
<1> QED
  BY <1>5, <1>6, <1>7

-----------------------------------------------------------------------------
(* Processes: the editor beside the rest of MCGraphCommands.               *)

\* A diagram is opened as it was stored.
LEMMA ProcessInitially == Process!Init => ProcessInv
<1>1. SUFFICES ASSUME Process!Init PROVE ProcessInv
  OBVIOUS
<1>2. /\ stored \in ProcessStarts /\ shown = Process!Normalized(stored)
      /\ waiting = <<>> /\ alone = TRUE
      /\ pending = Absent /\ paste = Absent /\ session \in Sessions /\ changes = 0
  BY <1>1 DEF Process!Init
<1>3. /\ stored \in Process!G!Graphs /\ Process!G!Valid(stored)
      /\ ~Process!G!HasNode(stored, MadeUp)
      /\ session \in [technical : BOOLEAN, partial : BOOLEAN]
      /\ MaxChanges \in Nat
  BY <1>2, ProcessAssumption DEF Process!ConstantsAssumption
<1>4. shown \in Process!G!Graphs /\ Process!G!Valid(shown)
  BY <1>2, <1>3, NormalizedFields
<1>5. MadeUp \notin NodesOf(stored)
  BY <1>3 DEF NodesOf
<1>6. ProcessTypes
  <2>1. waiting \in Seq(ProcessCommands) /\ changes \in 0 .. MaxChanges
    BY <1>2, <1>3
  <2> QED
    BY <1>2, <1>3, <1>4, <1>5, <2>1 DEF ProcessTypes
<1>7. LeadsFrom(session.technical, stored, waiting, shown)
  <2>1. Leads(session.technical, shown, <<>>, shown)
    BY <1>4, LeadsNowhere
  <2>2. SameButStated(stored, shown)
    BY <1>2, <1>3, <1>5, AlikeNormalized
  <2> QED
    BY <1>2, <1>4, <2>1, <2>2 DEF LeadsFrom
<1> QED
  BY <1>2, <1>6, <1>7 DEF ProcessInv

\* The invariant is inductive.
LEMMA ProcessStep == ProcessInv /\ [Process!Next]_processVars => ProcessInv'
<1>1. SUFFICES ASSUME ProcessInv, [Process!Next]_processVars PROVE ProcessInv'
  OBVIOUS
<1>2. CASE UNCHANGED processVars
  <2>1. /\ stored' = stored /\ shown' = shown /\ waiting' = waiting /\ alone' = alone
        /\ pending' = pending /\ paste' = paste /\ session' = session /\ changes' = changes
    BY <1>2 DEF processVars
  <2>2. changes' \in 0 .. MaxChanges
    BY <1>1, <2>1 DEF ProcessInv, ProcessTypes
  <2>3. paste' # Absent => PasteOk(paste', session.technical, Seen(stored, shown, waiting))
    BY <1>1, <2>1 DEF ProcessInv
  <2> QED
    BY <1>1, <2>1, <2>2, <2>3, PasteKeeps
<1>3. ASSUME NEW n \in Process!OnCanvas, Process!QuickAction(n)
      PROVE  ProcessInv'
  <2>1. n \in Boxes
    BY DEF Process!OnCanvas
  <2> QED
    BY <1>1, <1>3, <2>1, QuickActionKeeps
<1>4. ASSUME NEW n \in Process!OnCanvas, Process!EditCanvas(Process!DropNode(n))
      PROVE  ProcessInv'
  <2>1. PICK c \in ProcessCommands :
          c = Process!DropNode(n) /\ c.type = "removeNode" /\ c.by = "hand"
    BY DropNodeTyped DEF Process!OnCanvas
  <2>2. Process!EditCanvas(c) /\ ~SetsKindAlone(c)
    BY <1>4, <2>1 DEF SetsKindAlone
  <2> QED
    BY <1>1, <2>1, <2>2, EditCanvasKeeps
<1>5. ASSUME NEW n \in Process!OnCanvas, NEW label \in Process!Labels,
             Process!Rename(n, label)
      PROVE  ProcessInv'
  <2>1. PICK patch \in Patches : patch = [label |-> label]
    BY DEF Patches
  <2>2. n \in Boxes
    BY DEF Process!OnCanvas
  <2>3. PICK c \in ProcessCommands :
          /\ c = Process!PatchNode(n, patch) /\ c.patch = patch
          /\ c.type = "updateNode" /\ c.by = "hand"
    BY <2>2, PatchNodeTyped
  <2>4. Process!EditCanvas(c)
    BY <1>5, <2>1, <2>3 DEF Process!Rename
  <2>5. ~SetsKindAlone(c)
    <3>1. DOMAIN patch = {"label"}
      BY <2>1
    <3> QED
      BY <2>3, <3>1 DEF SetsKindAlone
  <2> QED
    BY <1>1, <2>3, <2>4, <2>5, EditCanvasKeeps
<1>6. ASSUME NEW n \in Process!OnCanvas, NEW t \in Process!OnCanvas,
             NEW k \in Process!ProcessEdges, Process!Connect(n, t, k)
      PROVE  ProcessInv'
  <2>1. n \in Boxes /\ t \in Boxes
    BY DEF Process!OnCanvas
  <2> QED
    BY <1>1, <1>6, <2>1, ConnectKeeps
<1>7. ASSUME NEW e \in Arrows, Process!EditCanvas(Process!DropEdge(e))
      PROVE  ProcessInv'
  <2>1. PICK c \in ProcessCommands :
          c = Process!DropEdge(e) /\ c.type = "removeEdge" /\ c.by = "hand"
    BY DropEdgeTyped
  <2>2. Process!EditCanvas(c) /\ ~SetsKindAlone(c)
    BY <1>7, <2>1 DEF SetsKindAlone
  <2> QED
    BY <1>1, <2>1, <2>2, EditCanvasKeeps
<1>8. ASSUME NEW n \in Boxes, Process!PeerWrites(Process!DropNode(n))
      PROVE  ProcessInv'
  <2>1. PICK c \in ProcessCommands : c = Process!DropNode(n) /\ c.type = "removeNode"
    BY DropNodeTyped
  <2>2. Process!PeerWrites(c)
    BY <1>8, <2>1
  <2> QED
    BY <1>1, <2>1, <2>2, PeerKeeps
<1>9. ASSUME NEW n \in Boxes, NEW label \in Process!Labels,
             Process!PeerWrites(Process!PatchNode(n, [label |-> label]))
      PROVE  ProcessInv'
  <2>1. PICK patch \in Patches : patch = [label |-> label]
    BY DEF Patches
  <2>2. PICK c \in ProcessCommands : c = Process!PatchNode(n, patch) /\ c.type = "updateNode"
    BY PatchNodeTyped
  <2>3. Process!PeerWrites(c)
    BY <1>9, <2>1, <2>2
  <2> QED
    BY <1>1, <2>2, <2>3, PeerKeeps
<1>10. ASSUME NEW e \in Arrows, Process!PeerWrites(Process!DropEdge(e))
       PROVE  ProcessInv'
  <2>1. PICK c \in ProcessCommands : c = Process!DropEdge(e) /\ c.type = "removeEdge"
    BY DropEdgeTyped
  <2>2. Process!PeerWrites(c)
    BY <1>10, <2>1
  <2> QED
    BY <1>1, <2>1, <2>2, PeerKeeps
<1>11. CASE \E n \in Process!OnCanvas :
              \/ Process!QuickAction(n)
              \/ Process!EditCanvas(Process!DropNode(n))
              \/ Process!DuplicateNode(n)
              \/ \E label \in Process!Labels : Process!Rename(n, label)
              \/ \E content \in Process!Inspected(n) : Process!ApplyNode(n, content)
              \/ \E t \in Process!OnCanvas, k \in Process!ProcessEdges :
                   Process!Connect(n, t, k)
  BY <1>1, <1>3, <1>4, <1>5, <1>6, <1>11, DuplicateNodeKeeps, ApplyNodeKeeps
<1>12. CASE \E e \in {x \in Arrows : Process!G!HasEdge(shown, x)} :
              \/ Process!EditCanvas(Process!DropEdge(e))
              \/ Process!DuplicateEdge(e)
              \/ \E k \in Process!ProcessEdges : Process!ApplyEdge(e, k)
  BY <1>1, <1>7, <1>12, DuplicateEdgeKeeps, ApplyEdgeKeeps
<1>13. CASE \/ \E role \in Process!FlowRoles : Process!InsertDrafted(role)
            \/ \E how \in {"repair", "remove"} : Process!ConfirmRepair(how)
            \/ Process!CancelRepair \/ Process!HearPaste \/ Process!Sync
  BY <1>1, <1>13, InsertDraftedKeeps, ConfirmKeeps, CancelKeeps, HearPasteKeeps, SyncKeeps
<1>14. CASE \/ \E n \in Boxes : Process!G!HasNode(stored, n) /\
                 \/ Process!PeerWrites(Process!DropNode(n))
                 \/ \E label \in Process!Labels :
                      Process!PeerWrites(Process!PatchNode(n, [label |-> label]))
            \/ \E e \in Arrows : Process!PeerWrites(Process!DropEdge(e))
  BY <1>8, <1>9, <1>10, <1>14
<1> QED
  BY <1>1, <1>2, <1>11, <1>12, <1>13, <1>14, Zenon DEF Process!Next

\* A step of MCNext is one of the process or leaves it alone.
LEMMA ProcessSteps ==
    [MCNext]_<<view, flowVars, processVars, erdVars>> => [Process!Next]_processVars
  BY DEF MCNext

\* A removal of what is there fits.
LEMMA RemovalFits ==
    ASSUME NEW g \in Process!G!Graphs, Process!G!Valid(g), NEW c \in ProcessCommands,
           \/ c.type = "removeNode" /\ Process!G!HasNode(g, c.id)
           \/ c.type = "removeEdge" /\ Process!G!HasEdge(g, c.id)
    PROVE  Process!Fits(g, c)
<1>1. Process!Full(g, c) = c
  BY DEF Process!Full
<1>2. Process!G!Finds(g, c)
  BY DEF Process!G!Finds
<1>3. PICK h : h = Process!G!Apply(g, c)
  OBVIOUS
<1>4. SUFFICES Process!G!Valid(h)
  BY <1>1, <1>2, <1>3, Zenon DEF Process!Fits, Process!G!Accepts
<1>5. SUFFICES ASSUME \A e \in Arrows :
                        Process!G!HasEdge(h, e) =>
                          /\ Process!G!HasEdge(g, e) /\ h.edges[e] = g.edges[e]
                          /\ Process!G!HasNode(h, g.edges[e].source)
                          /\ Process!G!HasNode(h, g.edges[e].target)
               PROVE  Process!G!Valid(h)
  <2>1. CASE c.type = "removeNode"
    <3>1. c.id \in Boxes
      BY <2>1, ProcessFields
    <3>2. h = Process!G!RemoveNode(g, c)
      BY <1>3, <2>1 DEF Process!G!Apply
    <3>3. \A n \in Boxes : h.nodes[n] = IF n = c.id THEN Absent ELSE g.nodes[n]
      BY <3>1, <3>2, RemoveBoxFields
    <3>4. \A e \in Arrows :
            h.edges[e] = IF Process!G!Incident(g, e, c.id) THEN Absent ELSE g.edges[e]
      <4>1. PICK y : y = Process!G!SetNode(g, c.id, Absent)
        OBVIOUS
      <4>2. PICK es : es = [e \in Arrows |->
                              IF Process!G!Incident(g, e, c.id) THEN Absent ELSE g.edges[e]]
        OBVIOUS
      <4>3. h = [y EXCEPT !.edges = es]
        BY <3>2, <4>1, <4>2 DEF Process!G!RemoveNode
      <4>4. "edges" \in DOMAIN y
        BY <4>1 DEF Process!G!SetNode, Process!G!Graphs
      <4>5. h.edges = es
        BY <4>3, <4>4
      <4> QED
        BY <4>2, <4>5
    <3>5. ASSUME NEW e \in Arrows, Process!G!HasEdge(h, e)
          PROVE  /\ Process!G!HasEdge(g, e) /\ h.edges[e] = g.edges[e]
                 /\ Process!G!HasNode(h, g.edges[e].source)
                 /\ Process!G!HasNode(h, g.edges[e].target)
      <4>1. /\ h.edges[e] = g.edges[e] /\ Process!G!HasEdge(g, e)
            /\ g.edges[e].source # c.id /\ g.edges[e].target # c.id
        BY <3>4, <3>5 DEF Process!G!HasEdge, Process!G!Incident
      <4>2. g.edges[e].source \in Boxes /\ g.edges[e].target \in Boxes
        BY <4>1, BoxesPresent DEF Process!G!Edges
      <4>3. /\ Process!G!HasNode(g, g.edges[e].source)
            /\ Process!G!HasNode(g, g.edges[e].target)
        BY <4>1 DEF Process!G!Valid
      <4> QED
        BY <3>3, <4>1, <4>2, <4>3 DEF Process!G!HasNode
    <3> QED
      BY <1>5, <3>5
  <2>2. CASE c.type = "removeEdge"
    <3>1. c.id \in Arrows
      BY <2>2, ProcessFields
    <3>2. h = Process!G!SetEdge(g, c.id, Absent)
      BY <1>3, <2>2 DEF Process!G!Apply
    <3>3. /\ h.nodes = g.nodes
          /\ \A e \in Arrows : h.edges[e] = IF e = c.id THEN Absent ELSE g.edges[e]
      BY <3>1, <3>2, ArrowFields
    <3> QED
      BY <1>5, <3>3 DEF Process!G!HasEdge, Process!G!HasNode, Process!G!Valid
  <2> QED
    BY <2>1, <2>2
<1> QED
  BY <1>5 DEF Process!G!Valid, Process!G!HasEdge

\* A new relation fits if its ends are there and another graph of the same ones takes it.
LEMMA RelationFits ==
    ASSUME NEW g \in Process!G!Graphs, Process!G!Valid(g), NEW h \in Process!G!Graphs,
           g.edges = h.edges, NEW c \in ProcessCommands, c.type = "addEdge",
           Process!Fits(h, c), Process!G!HasNode(g, c.edge.source),
           Process!G!HasNode(g, c.edge.target)
    PROVE  Process!Fits(g, c)
<1>1. c.id \in Arrows /\ c.edge \in Process!G!Edges
  BY ProcessFields
<1>2. PICK u, v : u = Process!G!SetEdge(g, c.id, c.edge) /\ v = Process!G!SetEdge(h, c.id, c.edge)
  OBVIOUS
<1>3. /\ u.nodes = g.nodes
      /\ \A e \in Arrows : u.edges[e] = IF e = c.id THEN c.edge ELSE g.edges[e]
      /\ \A e \in Arrows : v.edges[e] = IF e = c.id THEN c.edge ELSE h.edges[e]
  BY <1>1, <1>2, ArrowFields
<1>4. Process!G!Valid(v)
  <2>1. Process!After(h, c) = v
    BY <1>2 DEF Process!After, Process!Full, Process!G!Apply
  <2> QED
    BY <2>1, AfterTyped
<1>5. Process!G!Valid(u)
  <2>1. ASSUME NEW e \in Arrows, Process!G!HasEdge(u, e)
        PROVE  /\ Process!G!HasNode(u, u.edges[e].source)
               /\ Process!G!HasNode(u, u.edges[e].target)
    <3>1. CASE e = c.id
      BY <1>3, <3>1 DEF Process!G!HasNode
    <3>2. CASE e # c.id
      BY <1>3, <2>1, <3>2 DEF Process!G!Valid, Process!G!HasEdge, Process!G!HasNode
    <3> QED
      BY <3>1, <3>2
  <2>2. \A e \in Arrows : u.edges[e] = v.edges[e]
    BY <1>3
  <2>3. \A e, f \in Arrows : Process!G!HasEdge(u, e) /\ u.edges[e] = u.edges[f] => e = f
    BY <1>4, <2>2 DEF Process!G!Valid, Process!G!HasEdge
  <2> QED
    BY <2>1, <2>3 DEF Process!G!Valid
<1>6. Process!Full(g, c) = c /\ Process!G!Apply(g, c) = u
  BY <1>2 DEF Process!Full, Process!G!Apply
<1>7. Process!G!Finds(g, c)
  <2>1. Process!G!Finds(h, c)
    BY DEF Process!Fits
  <2> QED
    BY <2>1 DEF Process!G!Finds, Process!G!HasEdge
<1> QED
  BY <1>5, <1>6, <1>7, Zenon DEF Process!Fits, Process!G!Accepts

\* What the server would take of the graph that is shown it takes of the stored one, but
\* what is about a made up start or relates a step that states no role.
LEMMA TakesAlike ==
    ASSUME NEW g \in Process!G!Graphs, Process!G!Valid(g), NEW h \in Process!G!Graphs,
           SameButStated(g, h), NEW c \in ProcessCommands, c.type \in Plain,
           Process!ServerTakes(h, c), MadeUp \notin Process!About(c),
           c.type = "addEdge" => \A n \in Process!About(c) : ~Process!Unstated(g, n)
    PROVE  Process!ServerTakes(g, c)
<1>1. Process!Fits(h, c) /\ Process!G!Finds(h, c) /\ Process!G!Enforces(h, Process!Full(h, c))
  BY DEF Process!ServerTakes, Process!Fits
<1>2. /\ g.edges = h.edges
      /\ NodesOf(g) \subseteq NodesOf(h) /\ NodesOf(h) \subseteq NodesOf(g) \cup {MadeUp}
      /\ \A n \in NodesOf(g) : AlikeContent(Process!Content(g, n), Process!Content(h, n))
  BY DEF SameButStated
<1>3. CASE c.type = "addNode"
  <2>1. c.id \notin NodesOf(h)
    BY <1>1, <1>3 DEF Process!G!Finds, NodesOf
  <2>2. Process!Fits(g, c)
    BY <1>2, <1>3, <2>1, AddNodeFits
  <2> QED
    BY <1>3, <2>2, TakesPlain
<1>4. CASE c.type = "removeNode"
  <2>1. c.id \in Boxes /\ Process!G!HasNode(h, c.id)
    BY <1>1, <1>4, ProcessFields DEF Process!G!Finds
  <2>2. c.id # MadeUp
    BY <1>4 DEF Process!About
  <2>3. Process!G!HasNode(g, c.id)
    BY <1>2, <2>1, <2>2 DEF NodesOf
  <2>4. Process!Fits(g, c)
    BY <1>4, <2>3, RemovalFits
  <2> QED
    BY <1>4, <2>4, TakesPlain
<1>5. CASE c.type = "removeEdge"
  <2>1. Process!G!HasEdge(g, c.id)
    BY <1>1, <1>2, <1>5 DEF Process!G!Finds, Process!G!HasEdge
  <2>2. Process!Fits(g, c)
    BY <1>5, <2>1, RemovalFits
  <2> QED
    BY <1>5, <2>2, TakesPlain
<1>6. CASE c.type = "addEdge"
  <2>1. PICK from, to : from = c.edge.source /\ to = c.edge.target
    OBVIOUS
  <2>2. /\ c.edge \in Process!G!Edges /\ from \in Boxes /\ to \in Boxes
        /\ Process!G!HasNode(h, from) /\ Process!G!HasNode(h, to)
    BY <1>1, <1>6, <2>1, EndsThere DEF Process!G!Edges
  <2>3. Process!About(c) = {from, to}
    BY <1>6, <2>1 DEF Process!About
  <2>4. from \in NodesOf(g) /\ to \in NodesOf(g) /\ from \in NodesOf(h) /\ to \in NodesOf(h)
    BY <1>2, <2>2, <2>3 DEF NodesOf
  <2>5. ASSUME NEW n \in {from, to}
        PROVE  Process!RoleOf(Process!Content(g, n)) = Process!RoleOf(Process!Content(h, n))
    <3>1. n \in NodesOf(g) /\ n \in NodesOf(h) /\ ~Process!Unstated(g, n)
      BY <1>6, <2>3, <2>4
    <3>2. Process!Content(g, n) \in Process!Contents /\ Process!Content(h, n) \in Process!Contents
      BY <3>1, BoxesPresent DEF NodesOf, Process!Content, Process!G!Nodes
    <3>3. ~(Process!Content(g, n).kind = "flow-step" /\ Process!Content(g, n).says = "none")
      BY <3>1 DEF Process!Unstated, NodesOf
    <3> QED
      BY <1>2, <3>1, <3>2, <3>3, AlikeRoles
  <2>6. Process!G!AllowedIn(h, c.edge)
    <3>1. Process!Full(h, c) = c
      BY <1>6 DEF Process!Full
    <3> QED
      BY <1>1, <1>6, <3>1 DEF Process!G!Enforces
  <2>7. c.edge.kind \in Process!KindsBetween(Process!RoleOf(Process!Content(h, from)),
                                             Process!RoleOf(Process!Content(h, to)))
    BY <2>1, <2>2, <2>6, AllowedByRoles
  <2>8. c.edge.kind \in Process!KindsBetween(Process!RoleOf(Process!Content(g, from)),
                                             Process!RoleOf(Process!Content(g, to)))
    BY <2>5, <2>7
  <2>9. Process!Fits(g, c)
    <3>1. Process!G!HasNode(g, from) /\ Process!G!HasNode(g, to)
      BY <2>4 DEF NodesOf
    <3> QED
      BY <1>1, <1>2, <1>6, <2>1, <3>1, RelationFits
  <2> QED
    BY <1>6, <2>1, <2>8, <2>9, TakesAllowed
<1> QED
  BY <1>3, <1>4, <1>5, <1>6 DEF Plain

\* The invariant says what the server may be offered and refuse.
LEMMA ProcessInvSays == ProcessInv => EditorAndServerAgree
<1>1. SUFFICES ASSUME ProcessInv PROVE EditorAndServerAgree
  OBVIOUS
<1>2. ProcessTypes
  BY <1>1 DEF ProcessInv
<1>3. Process!TypeOK
  <2>1. \A i \in DOMAIN waiting : waiting[i].by \in {"hand", "repair", "paste"}
    <3>1. \A i \in DOMAIN waiting : waiting[i] \in ProcessCommands
      BY <1>2 DEF ProcessTypes
    <3> QED
      BY <3>1, ProcessFields DEF Who
  <2>2. pending # Absent =>
          pending.id \in Boxes /\ DOMAIN pending.plan.edges \subseteq Arrows
    BY <1>2 DEF ProcessTypes, PendingOk
  <2> QED
    BY <1>2, <2>1, <2>2 DEF ProcessTypes, Process!TypeOK
<1>4. ASSUME alone, Process!Stalled
      PROVE  \/ Head(waiting).by = "repair"
             \/ Head(waiting).by = "hand" /\ Head(waiting).type = "updateNode"
             \/ Head(waiting).by = "paste" /\ session.technical
             \/ MadeUp \in Process!About(Head(waiting))
             \/ /\ Head(waiting).type = "addEdge"
                /\ \E n \in Process!About(Head(waiting)) : Process!Unstated(stored, n)
  <2>1. /\ waiting # <<>> /\ waiting \in Seq(ProcessCommands)
        /\ stored \in Process!G!Graphs /\ Process!G!Valid(stored)
        /\ ~Process!ServerTakes(stored, Head(waiting))
    BY <1>2, <1>4 DEF Process!Stalled, ProcessTypes
  <2>2. PICK c \in ProcessCommands : c = Head(waiting)
    BY <2>1
  <2>3. LeadsFrom(session.technical, stored, waiting, shown)
    BY <1>1, <1>4 DEF ProcessInv
  <2>4. PICK g0 \in Process!G!Graphs :
          SameButStated(stored, g0) /\ Leads(session.technical, g0, waiting, shown)
    BY <2>3 DEF LeadsFrom
  <2>5. Judged(session.technical, g0, c)
    BY <2>1, <2>2, <2>4, LeadsTail
  <2>6. CASE c.type \in Plain /\ Process!ServerTakes(g0, c)
    BY <2>1, <2>2, <2>4, <2>6, TakesAlike
  <2> QED
    BY <2>2, <2>5, <2>6 DEF Judged
<1>5. Process!StallsHaveACause
  BY <1>4 DEF Process!StallsHaveACause
<1> QED
  BY <1>3, <1>5 DEF EditorAndServerAgree

\* As long as no other tab writes, the server takes what the editor queues of a process but
\* new names, confirmed repairs, technical copies, what is about a start that the tab made
\* up, and relations of a step whose stored data state no role: else, what the editor judges
\* on its canvas the server judges the same, however the two interleave
\* (tryCreateEdgeWithSemanticRules, validateClipboardDraftOnServer,
\* filterClipboardEdgesBySemanticRules and normalizeDiagramSnapshot against
\* enforceCommandSemantics).
THEOREM QueuesAreTaken == MCSpec => []EditorAndServerAgree
<1>1. MCInit => ProcessInv
  BY ProcessInitially DEF MCInit
<1>2. ProcessInv /\ [MCNext]_<<view, flowVars, processVars, erdVars>> => ProcessInv'
  BY ProcessSteps, ProcessStep
<1>3. ProcessInv => EditorAndServerAgree
  BY ProcessInvSays
<1> QED
  BY <1>1, <1>2, <1>3, PTL DEF MCSpec

-----------------------------------------------------------------------------
(* Processes: what repairs are planned for.                                *)

\* c adds something, which is no relation of n.
AddsElsewhere(c, n) ==
    \/ c.type = "addNode"
    \/ c.type = "addEdge" /\ c.edge.source # n /\ c.edge.target # n

\* The relations of n are the same in both graphs.
SameAt(g, h, n) ==
    \A e \in Arrows : Process!G!Incident(g, e, n) \/ Process!G!Incident(h, e, n)
                        => h.edges[e] = g.edges[e]

\* The repair was planned for the relations that its node has in both graphs.
PlannedFor(p, g, h, q) ==
    /\ p.id \in NodesOf(g)
    /\ p.plan = Process!RepairPlan(g, p.id, p.patch.kind)
    /\ SameAt(g, h, p.id)
    /\ \A i \in DOMAIN q : AddsElsewhere(q[i], p.id)

\* While a repair is offered, and the tab is alone, only copies are added to the queue.
PlanInv == alone /\ pending # Absent => PlannedFor(pending, stored, shown, waiting)

\* It is so over three graphs.
LEMMA SameAtBoth ==
    ASSUME NEW g, NEW h, NEW k, NEW n, SameAt(g, h, n), SameAt(h, k, n)
    PROVE  SameAt(g, k, n)
<1>1. ASSUME NEW e \in Arrows, Process!G!Incident(g, e, n) \/ Process!G!Incident(k, e, n)
      PROVE  k.edges[e] = g.edges[e]
  <2>1. CASE Process!G!Incident(g, e, n)
    <3>1. h.edges[e] = g.edges[e]
      BY <2>1 DEF SameAt
    <3>2. Process!G!Incident(h, e, n)
      BY <2>1, <3>1 DEF Process!G!Incident, Process!G!HasEdge
    <3> QED
      BY <3>1, <3>2 DEF SameAt
  <2>2. CASE Process!G!Incident(k, e, n)
    <3>1. h.edges[e] = k.edges[e]
      BY <2>2 DEF SameAt
    <3>2. Process!G!Incident(h, e, n)
      BY <2>2, <3>1 DEF Process!G!Incident, Process!G!HasEdge
    <3> QED
      BY <3>1, <3>2 DEF SameAt
  <2> QED
    BY <1>1, <2>1, <2>2
<1> QED
  BY <1>1 DEF SameAt

\* Such a command leaves them.
LEMMA ElsewhereLeaves ==
    ASSUME NEW g \in Process!G!Graphs, NEW c \in ProcessCommands, Process!Fits(g, c),
           NEW n, AddsElsewhere(c, n)
    PROVE  SameAt(g, Process!After(g, c), n) /\ SameAt(g, Shows(g, c), n)
<1>1. PICK h : h = Process!After(g, c)
  OBVIOUS
<1>2. SameAt(g, h, n)
  <2>1. CASE c.type = "addNode"
    <3>1. h.edges = g.edges
      BY <1>1, <2>1, AfterNodes
    <3> QED
      BY <3>1 DEF SameAt
  <2>2. CASE c.type = "addEdge"
    <3>1. c.id \in Arrows /\ c.edge \in Process!G!Edges
      BY <2>2, ProcessFields
    <3>2. h = Process!G!SetEdge(g, c.id, c.edge)
      BY <1>1, <2>2 DEF Process!After, Process!Full, Process!G!Apply
    <3>3. \A f \in Arrows : h.edges[f] = IF f = c.id THEN c.edge ELSE g.edges[f]
      BY <3>1, <3>2, ArrowFields
    <3>4. ~Process!G!HasEdge(g, c.id)
      BY <2>2 DEF Process!Fits, Process!G!Finds
    <3>5. c.edge.source # n /\ c.edge.target # n
      BY <2>2 DEF AddsElsewhere
    <3> QED
      BY <3>1, <3>3, <3>4, <3>5 DEF SameAt, Process!G!Incident
  <2> QED
    BY <2>1, <2>2 DEF AddsElsewhere
<1>3. Shows(g, c).edges = h.edges
  BY <1>1, ShowsNodes
<1>4. SameAt(g, Shows(g, c), n)
  BY <1>2, <1>3 DEF SameAt, Process!G!Incident, Process!G!HasEdge
<1> QED
  BY <1>1, <1>2, <1>4

\* So do those of a list that fit.
LEMMA FitElsewhere ==
    ASSUME NEW g \in Process!G!Graphs, Process!G!Valid(g), NEW s \in Seq(ProcessCommands),
           NEW n, \A i \in DOMAIN s : AddsElsewhere(s[i], n),
           NEW l \in Nat, Len(s) = l, NEW f, Fit(f, g, s, l)
    PROVE  /\ SameAt(g, f[l].graph, n)
           /\ f[l].done \in Seq(ProcessCommands)
           /\ \A i \in DOMAIN f[l].done : AddsElsewhere(f[l].done[i], n)
<1> DEFINE Ok(m) == /\ SameAt(g, f[m].graph, n)
                    /\ \A i \in DOMAIN f[m].done : AddsElsewhere(f[m].done[i], n)
           S == {m \in 0 .. l : Ok(m)}
<1>1. 0 \in S
  <2>1. f[0] = [graph |-> g, done |-> <<>>]
    BY DEF Fit
  <2>2. f[0].graph = g /\ f[0].done = <<>>
    BY <2>1
  <2>3. SameAt(g, g, n)
    BY DEF SameAt
  <2>4. Ok(0)
    BY <2>2, <2>3
  <2>5. 0 \in 0 .. l
    OBVIOUS
  <2> QED
    BY <2>4, <2>5
<1>2. ASSUME NEW m \in 1 .. l, m - 1 \in S
      PROVE  m \in S
  <2>1. Ok(m - 1) /\ m - 1 \in 0 .. l
    BY <1>2
  <2>2. PICK c \in ProcessCommands : c = s[m]
    OBVIOUS
  <2>3. PICK y : y = f[m - 1]
    OBVIOUS
  <2>4. f[m] = NextFit(y, c)
    BY <2>2, <2>3 DEF Fit
  <2>5. /\ y.graph \in Process!G!Graphs /\ Process!G!Valid(y.graph)
        /\ y.done \in Seq(ProcessCommands)
    BY <2>1, <2>3, FitTyped
  <2>6. SameAt(g, y.graph, n) /\ \A i \in DOMAIN y.done : AddsElsewhere(y.done[i], n)
    BY <2>1, <2>3
  <2>7. CASE Process!Fits(y.graph, c)
    <3>1. f[m].graph = Shows(y.graph, c) /\ f[m].done = Append(y.done, c)
      BY <2>4, <2>5, <2>7, NextFitTyped
    <3>2. AddsElsewhere(c, n)
      BY <2>2
    <3>3. SameAt(g, f[m].graph, n)
      BY <2>5, <2>6, <2>7, <3>1, <3>2, ElsewhereLeaves, SameAtBoth
    <3>4. PICK d \in Seq(ProcessCommands) : d = y.done
      BY <2>5
    <3>5. \A i \in DOMAIN Append(d, c) : AddsElsewhere(Append(d, c)[i], n)
      <4>1. ASSUME NEW i \in DOMAIN Append(d, c)
            PROVE  AddsElsewhere(Append(d, c)[i], n)
        <5>1. CASE i \in DOMAIN d
          <6>1. Append(d, c)[i] = d[i]
            BY <5>1
          <6> QED
            BY <2>6, <3>4, <5>1, <6>1
        <5>2. CASE i \notin DOMAIN d
          <6>1. Append(d, c)[i] = c
            BY <5>2
          <6> QED
            BY <3>2, <6>1
        <5> QED
          BY <5>1, <5>2
      <4> QED
        BY <4>1
    <3>6. Ok(m)
      BY <3>1, <3>3, <3>4, <3>5
    <3> QED
      BY <3>6
  <2>8. CASE ~Process!Fits(y.graph, c)
    <3>1. f[m] = y
      BY <2>4, <2>5, <2>8, NextFitTyped
    <3>2. Ok(m)
      BY <2>1, <2>3, <3>1, Zenon
    <3> QED
      BY <3>2
  <2> QED
    BY <2>7, <2>8
<1>3. l \in S
  <2> HIDE DEF S
  <2>1. Hereditary(S, l)
    BY <1>1, <1>2 DEF Hereditary
  <2> QED
    BY <2>1, UpTo
<1>4. l \in 0 .. l
  OBVIOUS
<1>5. f[l].done \in Seq(ProcessCommands)
  BY <1>4, FitTyped
<1> QED
  BY <1>3, <1>5

\* The plan is one of the relations of its node.
LEMMA PlanSame ==
    ASSUME NEW g \in Process!G!Graphs, Process!G!Valid(g),
           NEW h \in Process!G!Graphs, Process!G!Valid(h),
           NEW n \in NodesOf(g), NodesOf(g) \subseteq NodesOf(h),
           \A m \in NodesOf(g) : h.nodes[m] = g.nodes[m],
           SameAt(g, h, n), NEW k \in {"flow-step", "note", "page"}
    PROVE  Process!RepairPlan(h, n, k) = Process!RepairPlan(g, n, k)
<1>1. PICK patch \in Patches : patch = [kind |-> k]
  BY DEF Patches
<1>2. PICK x, y : x = Process!WithPatch(g, n, patch) /\ y = Process!WithPatch(h, n, patch)
  OBVIOUS
<1>3. n \in Boxes /\ Process!G!HasNode(g, n) /\ Process!G!HasNode(h, n)
  BY DEF NodesOf
<1>4. /\ x \in Process!G!Graphs /\ x.edges = g.edges /\ Process!G!HasNode(x, n)
      /\ Process!Content(x, n) = Patched(Process!Content(g, n), patch)
      /\ \A m \in Boxes \ {n} : x.nodes[m] = g.nodes[m]
  BY <1>2, <1>3, PatchFields
<1>5. /\ y \in Process!G!Graphs /\ y.edges = h.edges /\ Process!G!HasNode(y, n)
      /\ Process!Content(y, n) = Patched(Process!Content(h, n), patch)
      /\ \A m \in Boxes \ {n} : y.nodes[m] = h.nodes[m]
  BY <1>2, <1>3, PatchFields
<1>6. ASSUME NEW m \in NodesOf(g)
      PROVE  /\ Process!G!HasNode(x, m) /\ Process!G!HasNode(y, m)
             /\ Process!Content(x, m) = Process!Content(y, m)
  BY <1>3, <1>4, <1>5 DEF NodesOf, Process!G!HasNode, Process!Content
<1>7. ASSUME NEW e \in Arrows
      PROVE  Process!G!Incident(x, e, n) <=> Process!G!Incident(y, e, n)
  BY <1>4, <1>5 DEF SameAt, Process!G!Incident, Process!G!HasEdge
<1>8. ASSUME NEW e \in Arrows, Process!G!Incident(x, e, n)
      PROVE  /\ Process!G!HasEdge(x, e) /\ Process!G!HasEdge(y, e) /\ x.edges[e] = y.edges[e]
             /\ Process!G!AllowedIn(x, x.edges[e]) <=> Process!G!AllowedIn(y, y.edges[e])
             /\ Process!Recommended(x, x.edges[e]) = Process!Recommended(y, y.edges[e])
  <2>1. Process!G!Incident(g, e, n)
    BY <1>4, <1>8 DEF Process!G!Incident, Process!G!HasEdge
  <2>2. x.edges[e] = y.edges[e] /\ x.edges[e] = g.edges[e]
    BY <1>4, <1>5, <2>1 DEF SameAt
  <2>3. Process!G!HasEdge(g, e) /\ Process!G!HasEdge(x, e) /\ Process!G!HasEdge(y, e)
    BY <2>1, <2>2 DEF Process!G!Incident, Process!G!HasEdge
  <2>4. PICK edge \in Process!G!Edges : edge = g.edges[e]
    BY <2>3, BoxesPresent
  <2>5. edge.source \in NodesOf(g) /\ edge.target \in NodesOf(g)
    BY <2>3, <2>4 DEF Process!G!Valid, NodesOf, Process!G!Edges
  <2>6. /\ Process!Content(x, edge.source) = Process!Content(y, edge.source)
        /\ Process!Content(x, edge.target) = Process!Content(y, edge.target)
        /\ Process!G!HasNode(x, edge.source) /\ Process!G!HasNode(x, edge.target)
        /\ Process!G!HasNode(y, edge.source) /\ Process!G!HasNode(y, edge.target)
    BY <1>6, <2>5
  <2>7. Process!G!AllowedIn(x, edge) <=> Process!G!AllowedIn(y, edge)
    BY <1>4, <1>5, <2>6, AllowedByRoles
  <2>8. Process!Recommended(x, edge) = Process!Recommended(y, edge)
    BY <2>6, Zenon DEF Process!Recommended
  <2> QED
    BY <2>2, <2>3, <2>4, <2>7, <2>8
<1>9. PICK S, T : S = Process!BrokenBy(g, n, k) /\ T = Process!BrokenBy(h, n, k)
  OBVIOUS
<1>10. /\ S = {e \in Process!Broken(x) : Process!G!Incident(x, e, n)}
       /\ T = {e \in Process!Broken(y) : Process!G!Incident(y, e, n)}
  BY <1>1, <1>2, <1>9, Zenon DEF Process!BrokenBy
<1>11. S = T /\ \A e \in S : e \in Arrows /\ Process!G!Incident(x, e, n)
  BY <1>7, <1>8, <1>10 DEF Process!Broken
<1>12. PICK u, v : /\ u = [e \in S |-> Process!Recommended(x, x.edges[e])]
                   /\ v = [e \in T |-> Process!Recommended(y, y.edges[e])]
  OBVIOUS
<1>13. u = v
  BY <1>8, <1>11, <1>12
<1>14. /\ Process!RepairPlan(g, n, k) = [fallback |-> k = "page", edges |-> u]
       /\ Process!RepairPlan(h, n, k) = [fallback |-> k = "page", edges |-> v]
  BY <1>1, <1>2, <1>9, <1>12, Zenon DEF Process!RepairPlan
<1> QED
  BY <1>13, <1>14

\* What applyLocalCommandAndQueue() does, step by step.
LEMMA LocallyIs ==
    ASSUME ProcessInv, NEW s \in Seq(ProcessCommands), Process!Locally(s)
    PROVE  \E f : /\ Fit(f, shown, s, Len(s))
                  /\ shown' = f[Len(s)].graph /\ waiting' = waiting \o f[Len(s)].done
<1>1. PICK l \in Nat : l = Len(s)
  OBVIOUS
<1>2. PICK f : Fit(f, shown, s, l) /\ Process!Fitting(shown, s) = f[l]
  BY <1>1, FittingIsLast
<1> QED
  BY <1>1, <1>2 DEF Process!Locally

\* A repair is offered for what is stored, when nothing waits.
LEMMA OfferPlans ==
    ASSUME ProcessInv, NEW n \in Boxes, NEW patch \in Process!Contents,
           Process!OfferRepair(n, patch)
    PROVE  PlanInv'
<1>1. /\ waiting = <<>> /\ Process!G!HasNode(stored, n)
      /\ pending' = [id |-> n, patch |-> patch,
                     plan |-> Process!RepairPlan(stored, n, patch.kind)]
      /\ stored' = stored /\ shown' = shown /\ waiting' = waiting /\ alone' = alone
  BY DEF Process!OfferRepair
<1>2. /\ pending'.id = n /\ pending'.patch = patch
      /\ pending'.plan = Process!RepairPlan(stored, n, patch.kind)
  BY <1>1
<1>3. ASSUME alone
      PROVE  SameAt(stored, shown, n)
  <2>1. LeadsFrom(session.technical, stored, waiting, shown)
    BY <1>3 DEF ProcessInv
  <2>2. PICK g0 : SameButStated(stored, g0) /\ Leads(session.technical, g0, <<>>, shown)
    BY <1>1, <2>1 DEF LeadsFrom
  <2>3. PICK t : t[0] = g0 /\ t[Len(<<>>)] = shown
    BY <2>2 DEF Leads, Track
  <2>4. shown = g0
    BY <2>3
  <2>5. shown.edges = stored.edges
    BY <2>2, <2>4 DEF SameButStated
  <2> QED
    BY <2>5 DEF SameAt
<1>4. ASSUME alone
      PROVE  PlannedFor(pending', stored, shown, waiting)
  <2>1. \A i \in DOMAIN waiting : AddsElsewhere(waiting[i], n)
    BY <1>1
  <2>2. n \in NodesOf(stored)
    BY <1>1 DEF NodesOf
  <2> QED
    BY <1>2, <1>3, <1>4, <2>1, <2>2 DEF PlannedFor
<1> QED
  BY <1>1, <1>4 DEF PlanInv

\* Copies are no relations of the node: it was there before them.
LEMMA HearPastePlans ==
    ASSUME ProcessInv, PlanInv, Process!HearPaste
    PROVE  PlanInv'
<1>1. /\ paste # Absent
      /\ PasteOk(paste, session.technical, Seen(stored, shown, waiting))
      /\ stored' = stored /\ alone' = alone /\ pending' = pending
  BY DEF Process!HearPaste, ProcessInv
<1>2. PICK s : s = paste.commands
  OBVIOUS
<1>3. Copies(s, Seen(stored, shown, waiting)) /\ s \in Seq(ProcessCommands)
  BY <1>1, <1>2 DEF PasteOk, Copies
<1>4. (shown' = shown /\ waiting' = waiting) \/ Process!Locally(s)
  BY <1>2 DEF Process!HearPaste
<1>5. CASE shown' = shown /\ waiting' = waiting
  BY <1>1, <1>5 DEF PlanInv
<1>6. CASE Process!Locally(s)
  <2>1. SUFFICES ASSUME alone, pending # Absent
                 PROVE  PlannedFor(pending, stored, shown', waiting')
    BY <1>1 DEF PlanInv
  <2>2. PlannedFor(pending, stored, shown, waiting)
    BY <2>1 DEF PlanInv
  <2>3. PICK n : n = pending.id /\ n \in NodesOf(stored)
    BY <2>2 DEF PlannedFor
  <2>4. \A i \in DOMAIN s : AddsElsewhere(s[i], n)
    <3>1. n \notin AddedBy(s)
      BY <1>3, <2>3 DEF Copies, Seen
    <3> QED
      BY <1>3, <3>1 DEF Copies, AddsElsewhere
  <2>11. PICK l \in Nat : l = Len(s)
    BY <1>3
  <2>5. PICK f : /\ Fit(f, shown, s, l)
                 /\ shown' = f[l].graph /\ waiting' = waiting \o f[l].done
    BY <1>3, <1>6, <2>11, LocallyIs
  <2>6. shown \in Process!G!Graphs /\ Process!G!Valid(shown) /\ waiting \in Seq(ProcessCommands)
    BY DEF ProcessInv, ProcessTypes
  <2>7. PICK d : d = f[l].done
    OBVIOUS
  <2>8. /\ SameAt(shown, shown', n) /\ d \in Seq(ProcessCommands)
        /\ \A i \in DOMAIN d : AddsElsewhere(d[i], n)
    BY <1>3, <2>4, <2>5, <2>6, <2>7, <2>11, FitElsewhere
  <2>9. SameAt(stored, shown', n)
    BY <2>2, <2>3, <2>8, SameAtBoth DEF PlannedFor
  <2>10. \A i \in DOMAIN waiting' : AddsElsewhere(waiting'[i], n)
    <3>1. PICK j \in Nat, k \in Nat : j = Len(waiting) /\ k = Len(d)
      BY <2>6, <2>8
    <3>2. PICK u : u = waiting \o d
      OBVIOUS
    <3>3. /\ u \in Seq(ProcessCommands) /\ Len(u) = j + k
          /\ \A i \in 1 .. j : u[i] = waiting[i]
          /\ \A i \in 1 .. k : u[j + i] = d[i]
      BY <2>6, <2>8, <3>1, <3>2, ConcatAt
    <3>4. ASSUME NEW i \in DOMAIN u
          PROVE  AddsElsewhere(u[i], n)
      <4>1. CASE i \in 1 .. j
        <5>1. i \in DOMAIN waiting /\ u[i] = waiting[i]
          BY <2>6, <3>1, <3>3, <4>1
        <5> QED
          BY <2>2, <2>3, <5>1 DEF PlannedFor
      <4>2. CASE i \notin 1 .. j
        <5>1. PICK m \in 1 .. k : i = j + m
          <6>1. i - j \in 1 .. k /\ i = j + (i - j)
            BY <3>3, <4>2
          <6> QED
            BY <6>1
        <5>2. m \in DOMAIN d /\ u[i] = d[m]
          BY <2>8, <3>1, <3>3, <5>1
        <5> QED
          BY <2>8, <5>2
      <4> QED
        BY <4>1, <4>2
    <3> QED
      BY <2>5, <2>7, <3>2, <3>4
  <2> QED
    BY <2>2, <2>3, <2>9, <2>10 DEF PlannedFor
<1> QED
  BY <1>4, <1>5, <1>6

\* Nor does storing them change what was planned.
LEMMA SyncPlans ==
    ASSUME ProcessInv, PlanInv, Process!Sync
    PROVE  PlanInv'
<1>1. /\ waiting # <<>> /\ Process!Fits(stored, Head(waiting))
      /\ stored' = Process!After(stored, Head(waiting)) /\ waiting' = Tail(waiting)
      /\ shown' = shown /\ alone' = alone /\ pending' = pending
  BY DEF Process!Sync, Process!ServerTakes
<1>2. /\ stored \in Process!G!Graphs /\ Process!G!Valid(stored)
      /\ waiting \in Seq(ProcessCommands)
  BY DEF ProcessInv, ProcessTypes
<1>3. PICK c \in ProcessCommands : c = Head(waiting) /\ c = waiting[1]
  BY <1>1, <1>2
<1>4. SUFFICES ASSUME alone, pending # Absent
               PROVE  PlannedFor(pending, stored', shown, waiting')
  BY <1>1 DEF PlanInv
<1>5. PlannedFor(pending, stored, shown, waiting) /\ PendingOk(pending)
  BY <1>4 DEF PlanInv, ProcessInv, ProcessTypes
<1>6. PICK n \in Boxes : n = pending.id /\ n \in NodesOf(stored)
  BY <1>5 DEF PlannedFor, NodesOf
<1>7. AddsElsewhere(c, n)
  <2>1. 1 \in DOMAIN waiting
    BY <1>1, <1>2
  <2> QED
    BY <1>3, <1>5, <1>6, <2>1 DEF PlannedFor
<1>8. SameAt(stored, stored', n)
  BY <1>1, <1>2, <1>3, <1>7, ElsewhereLeaves
<1>9. SameAt(stored', shown, n)
  <2>1. SameAt(stored', stored, n)
    BY <1>8 DEF SameAt
  <2> QED
    BY <1>5, <1>6, <2>1, SameAtBoth DEF PlannedFor
<1>10. stored' \in Process!G!Graphs /\ Process!G!Valid(stored')
  BY <1>1, <1>2, <1>3, AfterTyped
<1>11. /\ NodesOf(stored) \subseteq NodesOf(stored')
       /\ \A m \in NodesOf(stored) : stored'.nodes[m] = stored.nodes[m]
  <2>1. CASE c.type = "addNode"
    <3>1. ~Process!G!HasNode(stored, c.id)
      BY <1>1, <1>3, <2>1 DEF Process!Fits, Process!G!Finds
    <3>2. /\ NodesOf(stored') = NodesOf(stored) \cup {c.id}
          /\ \A m \in Boxes \ {c.id} : stored'.nodes[m] = stored.nodes[m]
      BY <1>1, <1>2, <1>3, <2>1, AfterNodes
    <3> QED
      BY <3>1, <3>2 DEF NodesOf
  <2>2. CASE c.type = "addEdge"
    <3>1. stored'.nodes = stored.nodes
      BY <1>1, <1>2, <1>3, <2>2, AfterNodes
    <3> QED
      BY <3>1 DEF NodesOf, Process!G!HasNode
  <2> QED
    BY <1>7, <2>1, <2>2 DEF AddsElsewhere
<1>12. pending.patch.kind \in {"flow-step", "note", "page"}
  BY <1>5 DEF PendingOk, Process!Contents
<1>13. Process!RepairPlan(stored', n, pending.patch.kind)
         = Process!RepairPlan(stored, n, pending.patch.kind)
  BY <1>2, <1>6, <1>8, <1>10, <1>11, <1>12, PlanSame
<1>14. \A i \in DOMAIN waiting' : AddsElsewhere(waiting'[i], n)
  <2>1. ASSUME NEW i \in DOMAIN Tail(waiting)
        PROVE  i + 1 \in DOMAIN waiting /\ Tail(waiting)[i] = waiting[i + 1]
    BY <1>1, <1>2
  <2> QED
    BY <1>1, <1>5, <1>6, <2>1 DEF PlannedFor
<1> QED
  BY <1>5, <1>6, <1>9, <1>11, <1>13, <1>14 DEF PlannedFor

\* The invariant is inductive beside the other.
LEMMA PlanStep == ProcessInv /\ PlanInv /\ [Process!Next]_processVars => PlanInv'
<1>1. SUFFICES ASSUME ProcessInv, PlanInv, [Process!Next]_processVars PROVE PlanInv'
  OBVIOUS
<1>2. ASSUME pending' = Absent PROVE PlanInv'
  BY <1>2 DEF PlanInv
<1>3. ASSUME alone' = FALSE PROVE PlanInv'
  BY <1>3 DEF PlanInv
<1>4. ASSUME Process!Ask, pending' = pending PROVE PlanInv'
  BY <1>2, <1>4 DEF Process!Ask
<1>5. CASE UNCHANGED processVars
  <2>1. /\ stored' = stored /\ shown' = shown /\ waiting' = waiting /\ alone' = alone
        /\ pending' = pending
    BY <1>5 DEF processVars
  <2> QED
    BY <1>1, <2>1 DEF PlanInv
<1>6. ASSUME NEW n \in Process!OnCanvas, NEW content \in Process!Inspected(n),
             Process!ApplyNode(n, content)
      PROVE  PlanInv'
  <2>1. n \in Boxes /\ content \in Process!Contents
    BY <1>1, InspectedTyped DEF Process!OnCanvas
  <2>2. CASE Process!OfferRepair(n, content)
    BY <1>1, <2>1, <2>2, OfferPlans
  <2>3. CASE Process!Stored(Process!PatchNode(n, content))
    BY <1>4, <1>6, <2>3 DEF Process!ApplyNode, Process!Stored
  <2> QED
    BY <1>6, <2>2, <2>3 DEF Process!ApplyNode
<1>7. CASE \E n \in Process!OnCanvas :
             \/ Process!QuickAction(n)
             \/ Process!EditCanvas(Process!DropNode(n))
             \/ Process!DuplicateNode(n)
             \/ \E label \in Process!Labels : Process!Rename(n, label)
             \/ \E content \in Process!Inspected(n) : Process!ApplyNode(n, content)
             \/ \E t \in Process!OnCanvas, k \in Process!ProcessEdges :
                  Process!Connect(n, t, k)
  <2>1. PICK n \in Process!OnCanvas :
             \/ Process!QuickAction(n)
             \/ Process!EditCanvas(Process!DropNode(n))
             \/ Process!DuplicateNode(n)
             \/ \E label \in Process!Labels : Process!Rename(n, label)
             \/ \E content \in Process!Inspected(n) : Process!ApplyNode(n, content)
             \/ \E t \in Process!OnCanvas, k \in Process!ProcessEdges :
                  Process!Connect(n, t, k)
    BY <1>7
  <2>2. CASE \/ Process!QuickAction(n)
             \/ Process!EditCanvas(Process!DropNode(n))
             \/ \E label \in Process!Labels : Process!Rename(n, label)
    BY <1>4, <2>2 DEF Process!QuickAction, Process!EditCanvas, Process!Rename
  <2>3. CASE Process!DuplicateNode(n)
    BY <1>4, <2>3 DEF Process!DuplicateNode, Process!AskPaste
  <2>4. CASE \E t \in Process!OnCanvas, k \in Process!ProcessEdges : Process!Connect(n, t, k)
    BY <1>4, <2>4 DEF Process!Connect, Process!Stored
  <2> QED
    BY <1>6, <2>1, <2>2, <2>3, <2>4
<1>8. CASE \E e \in {x \in Arrows : Process!G!HasEdge(shown, x)} :
             \/ Process!EditCanvas(Process!DropEdge(e))
             \/ Process!DuplicateEdge(e)
             \/ \E k \in Process!ProcessEdges : Process!ApplyEdge(e, k)
  BY <1>4, <1>8 DEF Process!EditCanvas, Process!DuplicateEdge, Process!AskPaste,
                    Process!ApplyEdge, Process!Stored
<1>9. CASE \E role \in Process!FlowRoles : Process!InsertDrafted(role)
  BY <1>4, <1>9 DEF Process!InsertDrafted
<1>10. CASE (\E how \in {"repair", "remove"} : Process!ConfirmRepair(how))
            \/ Process!CancelRepair
  BY <1>2, <1>10 DEF Process!ConfirmRepair, Process!CancelRepair
<1>11. CASE Process!HearPaste \/ Process!Sync
  BY <1>1, <1>11, HearPastePlans, SyncPlans
<1>12. CASE \/ \E n \in Boxes : Process!G!HasNode(stored, n) /\
                 \/ Process!PeerWrites(Process!DropNode(n))
                 \/ \E label \in Process!Labels :
                      Process!PeerWrites(Process!PatchNode(n, [label |-> label]))
            \/ \E e \in Arrows : Process!PeerWrites(Process!DropEdge(e))
  BY <1>3, <1>12 DEF Process!PeerWrites
<1> QED
  BY <1>1, <1>5, <1>7, <1>8, <1>9, <1>10, <1>11, <1>12, Zenon DEF Process!Next

-----------------------------------------------------------------------------
(* Processes: what repairs leave.                                          *)

Ids(p) == DOMAIN p.plan.edges

\* c is a repair of the plan of p.
IsRepair(p, c) ==
    \/ p.plan.fallback /\ c.type = "updateNode" /\ c.id = p.id
    \/ c.type = "removeEdge" /\ c.id \in Ids(p) /\ p.plan.edges[c.id] = "none"
    \/ /\ c.type = "updateEdge" /\ c.id \in Ids(p)
       /\ p.plan.edges[c.id] # "none" /\ c.kind = p.plan.edges[c.id]

\* The relation e of g, repaired.
Fixed(p, g, e) == [g.edges[e] EXCEPT !.kind = p.plan.edges[e]]

\* The plan of p is one for g: relations between the same nodes are repaired alike.
PlanOf(p, g) ==
    /\ Ids(p) \subseteq Arrows /\ p.id \in NodesOf(g)
    /\ \A e \in Ids(p) : /\ Process!G!HasEdge(g, e)
                         /\ p.plan.edges[e] \in Process!ProcessEdges \cup {"none"}
    /\ \A e, f \in Ids(p) : /\ g.edges[e].source = g.edges[f].source
                            /\ g.edges[e].target = g.edges[f].target
                            => p.plan.edges[e] = p.plan.edges[f]

\* h is g with the change of p and some repairs.
Mends(p, g, h) ==
    /\ h \in Process!G!Graphs /\ Process!G!Valid(h)
    /\ NodesOf(h) = NodesOf(g)
    /\ \A m \in NodesOf(g) \ {p.id} :
         Process!RoleOf(Process!Content(h, m)) = Process!RoleOf(Process!Content(g, m))
    /\ ~p.plan.fallback =>
         Process!RoleOf(Process!Content(h, p.id)) = Process!RoleOf(p.patch)
    /\ \A e \in Arrows \ Ids(p) : h.edges[e] = g.edges[e]
    /\ \A e \in Ids(p) :
         \/ h.edges[e] = g.edges[e]
         \/ h.edges[e] = IF p.plan.edges[e] = "none" THEN Absent ELSE Fixed(p, g, e)

\* The relation e is not in h any more, or something is what it should be.
Mended(p, g, h, e) ==
    IF p.plan.edges[e] = "none" THEN h.edges[e] = Absent
    ELSE \E f \in Arrows : h.edges[f] = Fixed(p, g, e)

\* A repaired relation has its ends and its kind.
LEMMA FixedTyped ==
    ASSUME NEW p, NEW g \in Process!G!Graphs, PlanOf(p, g), NEW e \in Ids(p)
    PROVE  /\ g.edges[e] \in Process!G!Edges
           /\ p.plan.edges[e] # "none" =>
                /\ Fixed(p, g, e) \in Process!G!Edges
                /\ Fixed(p, g, e).source = g.edges[e].source
                /\ Fixed(p, g, e).target = g.edges[e].target
                /\ Fixed(p, g, e).kind = p.plan.edges[e]
<1>1. e \in Arrows /\ Process!G!HasEdge(g, e)
      /\ p.plan.edges[e] \in Process!ProcessEdges \cup {"none"}
  BY DEF PlanOf
<1>2. PICK x \in Process!G!Edges : x = g.edges[e]
  BY <1>1, BoxesPresent
<1>3. PICK k : k = p.plan.edges[e]
  OBVIOUS
<1>4. PICK y : y = [x EXCEPT !.kind = k]
  OBVIOUS
<1>5. Fixed(p, g, e) = y
  BY <1>2, <1>3, <1>4 DEF Fixed
<1>6. k # "none" => y \in Process!G!Edges /\ y.source = x.source /\ y.target = x.target
                    /\ y.kind = k
  BY <1>1, <1>3, <1>4 DEF Process!G!Edges
<1> QED
  BY <1>2, <1>3, <1>5, <1>6

\* What retyping leaves.
LEMMA RetypeAfter ==
    ASSUME NEW g \in Process!G!Graphs, Process!G!Valid(g), NEW c \in ProcessCommands,
           c.type = "updateEdge", Process!G!HasEdge(g, c.id),
           NEW y, y = [g.edges[c.id] EXCEPT !.kind = c.kind]
    PROVE  /\ y \in Process!G!Edges
           /\ Process!After(g, c).nodes = g.nodes
           /\ \A f \in Arrows :
                Process!After(g, c).edges[f] = IF f = c.id THEN y ELSE g.edges[f]
           /\ ~Process!Fits(g, c) => \E f \in Arrows : g.edges[f] = y
<1>1. c.id \in Arrows /\ c.kind \in Process!ProcessEdges
  BY ProcessFields
<1>2. PICK x \in Process!G!Edges : x = g.edges[c.id]
  BY <1>1, BoxesPresent
<1>3. y \in Process!G!Edges /\ y.source = x.source /\ y.target = x.target
  BY <1>1, <1>2 DEF Process!G!Edges
<1>4. PICK h : h = Process!G!SetEdge(g, c.id, y)
  OBVIOUS
<1>5. h.nodes = g.nodes /\ \A f \in Arrows : h.edges[f] = IF f = c.id THEN y ELSE g.edges[f]
  BY <1>1, <1>3, <1>4, ArrowFields
<1>6. Process!Full(g, c) = c
  BY DEF Process!Full
<1>7. Process!G!Apply(g, c) = h
  BY <1>4 DEF Process!G!Apply, Process!G!UpdateEdge
<1>8. ASSUME \A f \in Arrows : g.edges[f] # y
      PROVE  Process!Fits(g, c)
  <2>1. ASSUME NEW e \in Arrows, Process!G!HasEdge(h, e)
        PROVE  /\ Process!G!HasNode(h, h.edges[e].source)
               /\ Process!G!HasNode(h, h.edges[e].target)
    <3>1. /\ Process!G!HasEdge(g, e) /\ h.edges[e].source = g.edges[e].source
          /\ h.edges[e].target = g.edges[e].target
      BY <1>2, <1>3, <1>5, <2>1 DEF Process!G!HasEdge
    <3> QED
      BY <1>5, <3>1 DEF Process!G!Valid, Process!G!HasNode
  <2>2. ASSUME NEW e \in Arrows, NEW f \in Arrows, Process!G!HasEdge(h, e),
               h.edges[e] = h.edges[f]
        PROVE  e = f
    BY <1>5, <1>8, <2>2 DEF Process!G!Valid, Process!G!HasEdge
  <2>3. Process!G!Valid(h)
    BY <2>1, <2>2 DEF Process!G!Valid
  <2>4. Process!G!Finds(g, c)
    BY DEF Process!G!Finds
  <2> QED
    BY <1>6, <1>7, <2>3, <2>4, Zenon DEF Process!Fits, Process!G!Accepts
<1>9. Process!After(g, c) = h
  BY <1>6, <1>7 DEF Process!After
<1> QED
  BY <1>3, <1>5, <1>8, <1>9

\* One repair leaves what was mended, and mends its relation.
LEMMA RepairMends ==
    ASSUME NEW p, NEW g \in Process!G!Graphs, PlanOf(p, g),
           NEW y, Mends(p, g, y.graph), y.done \in Seq(ProcessCommands),
           NEW c \in ProcessCommands, IsRepair(p, c)
    PROVE  /\ Mends(p, g, NextFit(y, c).graph)
           /\ \A e \in Ids(p) : Mended(p, g, y.graph, e)
                                  => Mended(p, g, NextFit(y, c).graph, e)
           /\ c.type # "updateNode" => Mended(p, g, NextFit(y, c).graph, c.id)
<1>1. PICK h, k : h = y.graph /\ k = NextFit(y, c).graph
  OBVIOUS
<1>2. /\ h \in Process!G!Graphs /\ Process!G!Valid(h) /\ Mends(p, g, h)
      /\ NodesOf(h) = NodesOf(g) /\ p.id \in NodesOf(g)
  BY <1>1 DEF Mends, PlanOf
<1>3. /\ k \in Process!G!Graphs /\ Process!G!Valid(k)
      /\ Process!Fits(h, c) => k = Shows(h, c)
      /\ ~Process!Fits(h, c) => k = h
  <2>1. y.graph \in Process!G!Graphs /\ Process!G!Valid(y.graph)
    BY <1>1, <1>2
  <2> QED
    BY <1>1, <2>1, NextFitTyped
<1>4. \A e \in Ids(p) : e \in Arrows
  BY DEF PlanOf
<1>5. CASE c.type = "updateNode"
  <2>1. CASE Process!Fits(h, c)
    <3>1. /\ NodesOf(Process!After(h, c)) = NodesOf(h)
          /\ \A m \in Boxes \ {c.id} : Process!After(h, c).nodes[m] = h.nodes[m]
          /\ Process!After(h, c).edges = h.edges
      BY <1>2, <1>5, <2>1, AfterNodes
    <3>2. /\ k.edges = h.edges /\ NodesOf(k) = NodesOf(h)
          /\ \A m \in NodesOf(h) : Process!RoleOf(Process!Content(k, m))
                                     = Process!RoleOf(Process!Content(Process!After(h, c), m))
      BY <1>2, <1>3, <2>1, <3>1, ShowsNodes
    <3>3. ASSUME NEW m \in NodesOf(g) \ {p.id}
          PROVE  Process!RoleOf(Process!Content(k, m)) = Process!RoleOf(Process!Content(g, m))
      <4>1. m \in Boxes \ {c.id}
        BY <1>5 DEF IsRepair, NodesOf
      <4>2. Process!Content(Process!After(h, c), m) = Process!Content(h, m)
        BY <3>1, <4>1 DEF Process!Content
      <4>3. Process!RoleOf(Process!Content(h, m)) = Process!RoleOf(Process!Content(g, m))
        BY <1>2 DEF Mends
      <4> QED
        BY <1>2, <3>2, <4>2, <4>3
    <3>4. p.plan.fallback
      BY <1>5 DEF IsRepair
    <3>5. Mends(p, g, k)
      BY <1>2, <1>3, <3>2, <3>3, <3>4 DEF Mends
    <3>6. \A e \in Ids(p) : Mended(p, g, h, e) => Mended(p, g, k, e)
      BY <3>2 DEF Mended
    <3> QED
      BY <1>1, <1>5, <3>5, <3>6
  <2>2. CASE ~Process!Fits(h, c)
    BY <1>1, <1>2, <1>3, <1>5, <2>2
  <2> QED
    BY <2>1, <2>2
<1>6. ASSUME c.type # "updateNode",
             k.nodes = h.nodes \/ \A m \in NodesOf(g) :
               /\ NodesOf(k) = NodesOf(h)
               /\ Process!RoleOf(Process!Content(k, m)) = Process!RoleOf(Process!Content(h, m)),
             NEW e \in Ids(p), \A f \in Arrows \ {e} : k.edges[f] = h.edges[f],
             \/ k.edges[e] = h.edges[e]
             \/ k.edges[e] = IF p.plan.edges[e] = "none" THEN Absent ELSE Fixed(p, g, e)
      PROVE  Mends(p, g, k)
  <2>1. NodesOf(k) = NodesOf(h)
    BY <1>2, <1>6 DEF NodesOf, Process!G!HasNode
  <2>2. \A m \in NodesOf(g) :
          Process!RoleOf(Process!Content(k, m)) = Process!RoleOf(Process!Content(h, m))
    BY <1>6 DEF Process!Content
  <2>3. /\ \A m \in NodesOf(g) \ {p.id} :
             Process!RoleOf(Process!Content(k, m)) = Process!RoleOf(Process!Content(g, m))
        /\ ~p.plan.fallback =>
             Process!RoleOf(Process!Content(k, p.id)) = Process!RoleOf(p.patch)
    BY <1>2, <2>2 DEF Mends
  <2>4. \A f \in Arrows \ Ids(p) : k.edges[f] = g.edges[f]
    BY <1>2, <1>6 DEF Mends
  <2>5. ASSUME NEW f \in Ids(p)
        PROVE  \/ k.edges[f] = g.edges[f]
               \/ k.edges[f] = IF p.plan.edges[f] = "none" THEN Absent ELSE Fixed(p, g, f)
    <3>1. \/ h.edges[f] = g.edges[f]
          \/ h.edges[f] = IF p.plan.edges[f] = "none" THEN Absent ELSE Fixed(p, g, f)
      BY <1>2 DEF Mends
    <3> QED
      BY <1>4, <1>6, <3>1
  <2> QED
    BY <1>2, <1>3, <2>1, <2>3, <2>4, <2>5 DEF Mends
<1>7. ASSUME c.type \in {"removeEdge", "updateEdge"}, Process!Fits(h, c)
      PROVE  /\ k.edges = Process!After(h, c).edges
             /\ NodesOf(k) = NodesOf(h)
             /\ \A m \in NodesOf(h) :
                  Process!RoleOf(Process!Content(k, m)) = Process!RoleOf(Process!Content(h, m))
  <2>1. Process!After(h, c).nodes = h.nodes
    BY <1>2, <1>7, AfterNodes
  <2>2. /\ NodesOf(Process!After(h, c)) = NodesOf(h)
        /\ \A m \in NodesOf(h) : Process!Content(Process!After(h, c), m) = Process!Content(h, m)
    BY <2>1 DEF NodesOf, Process!G!HasNode, Process!Content
  <2> QED
    BY <1>2, <1>3, <1>7, <2>2, ShowsNodes
<1>8. ASSUME NEW e \in Ids(p), NEW f \in Ids(p), h.edges[e] = Fixed(p, g, f),
             p.plan.edges[f] # "none"
      PROVE  p.plan.edges[e] = p.plan.edges[f]
  <2>1. /\ Fixed(p, g, f) \in Process!G!Edges
        /\ Fixed(p, g, f).source = g.edges[f].source
        /\ Fixed(p, g, f).target = g.edges[f].target
    BY <1>8, FixedTyped
  <2>2. h.edges[e] # Absent
    BY <1>8, <2>1, NothingIsNone
  <2>3. \/ h.edges[e] = g.edges[e]
        \/ p.plan.edges[e] # "none" /\ h.edges[e] = Fixed(p, g, e)
    BY <1>2, <2>2 DEF Mends
  <2>4. h.edges[e].source = g.edges[e].source /\ h.edges[e].target = g.edges[e].target
    BY <2>3, FixedTyped
  <2> QED
    BY <1>8, <2>1, <2>4 DEF PlanOf
<1>9. CASE c.type = "removeEdge"
  <2>1. PICK e \in Ids(p) : e = c.id /\ p.plan.edges[e] = "none" /\ e \in Arrows
    BY <1>4, <1>9 DEF IsRepair
  <2>2. /\ \A f \in Arrows \ {e} : k.edges[f] = h.edges[f]
        /\ k.edges[e] = Absent
        /\ \/ k.nodes = h.nodes
           \/ \A m \in NodesOf(g) :
                /\ NodesOf(k) = NodesOf(h)
                /\ Process!RoleOf(Process!Content(k, m))
                     = Process!RoleOf(Process!Content(h, m))
    <3>1. CASE Process!Fits(h, c)
      <4>1. PICK u : u = Process!After(h, c)
        OBVIOUS
      <4>2. u = Process!G!SetEdge(h, e, Absent)
        BY <1>9, <2>1, <4>1 DEF Process!After, Process!Full, Process!G!Apply
      <4>3. \A f \in Arrows : u.edges[f] = IF f = e THEN Absent ELSE h.edges[f]
        BY <1>2, <2>1, <4>2, ArrowFields
      <4> QED
        BY <1>2, <1>7, <1>9, <2>1, <3>1, <4>1, <4>3
    <3>2. CASE ~Process!Fits(h, c)
      <4>1. ~Process!G!HasEdge(h, e)
        BY <1>2, <1>9, <2>1, <3>2, RemovalFits
      <4> QED
        BY <1>3, <3>2, <4>1 DEF Process!G!HasEdge
    <3> QED
      BY <3>1, <3>2
  <2>3. Mends(p, g, k)
    BY <1>6, <1>9, <2>1, <2>2
  <2>4. Mended(p, g, k, e)
    BY <2>1, <2>2 DEF Mended
  <2>5. ASSUME NEW i \in Ids(p), Mended(p, g, h, i)
        PROVE  Mended(p, g, k, i)
    <3>1. CASE p.plan.edges[i] = "none"
      BY <1>4, <2>2, <2>5, <3>1 DEF Mended
    <3>2. CASE p.plan.edges[i] # "none"
      <4>1. PICK f \in Arrows : h.edges[f] = Fixed(p, g, i)
        BY <2>5, <3>2 DEF Mended
      <4>2. f # e
        BY <1>8, <2>1, <3>2, <4>1
      <4>3. k.edges[f] = Fixed(p, g, i)
        BY <2>2, <4>1, <4>2
      <4> QED
        BY <3>2, <4>3 DEF Mended
    <3> QED
      BY <3>1, <3>2
  <2> QED
    BY <1>1, <2>1, <2>3, <2>4, <2>5
<1>10. CASE c.type = "updateEdge"
  <2>1. PICK e \in Ids(p) : /\ e = c.id /\ p.plan.edges[e] # "none" /\ e \in Arrows
                            /\ c.kind = p.plan.edges[e]
    BY <1>4, <1>10 DEF IsRepair
  <2>2. PICK x, y0 : x = g.edges[e] /\ y0 = Fixed(p, g, e)
    OBVIOUS
  <2>3. x \in Process!G!Edges /\ y0 \in Process!G!Edges /\ y0 = [x EXCEPT !.kind = c.kind]
    BY <2>1, <2>2, FixedTyped DEF Fixed
  <2>4. h.edges[e] = x \/ h.edges[e] = y0
    BY <1>2, <2>1, <2>2 DEF Mends
  <2>5. Process!G!HasEdge(h, e) /\ h.edges[e] \in Process!G!Edges
    BY <2>2, <2>3, <2>4, NothingIsNone DEF Process!G!HasEdge
  <2>6. y0 = [h.edges[e] EXCEPT !.kind = c.kind]
    BY <2>2, <2>3, <2>4 DEF Process!G!Edges
  <2>7. /\ \A f \in Arrows :
             Process!After(h, c).edges[f] = IF f = e THEN y0 ELSE h.edges[f]
        /\ ~Process!Fits(h, c) => \E f \in Arrows : h.edges[f] = y0
    BY <1>2, <1>10, <2>1, <2>5, <2>6, RetypeAfter
  <2>8. /\ \A f \in Arrows \ {e} : k.edges[f] = h.edges[f]
        /\ k.edges[e] = h.edges[e] \/ k.edges[e] = y0
        /\ \/ k.nodes = h.nodes
           \/ \A m \in NodesOf(g) :
                /\ NodesOf(k) = NodesOf(h)
                /\ Process!RoleOf(Process!Content(k, m))
                     = Process!RoleOf(Process!Content(h, m))
    BY <1>2, <1>3, <1>7, <1>10, <2>1, <2>7
  <2>9. Mends(p, g, k)
    BY <1>6, <1>10, <2>1, <2>2, <2>8
  <2>10. Mended(p, g, k, e)
    <3>1. \E f \in Arrows : k.edges[f] = y0
      BY <1>3, <1>7, <1>10, <2>1, <2>7
    <3> QED
      BY <2>1, <2>2, <3>1 DEF Mended
  <2>11. ASSUME NEW i \in Ids(p), Mended(p, g, h, i)
         PROVE  Mended(p, g, k, i)
    <3>1. CASE p.plan.edges[i] = "none"
      <4>1. h.edges[i] = Absent
        BY <2>11, <3>1 DEF Mended
      <4>2. i # e
        BY <2>5, <4>1 DEF Process!G!HasEdge
      <4> QED
        BY <1>4, <2>8, <3>1, <4>1, <4>2 DEF Mended
    <3>2. CASE p.plan.edges[i] # "none"
      <4>1. PICK f \in Arrows : h.edges[f] = Fixed(p, g, i)
        BY <2>11, <3>2 DEF Mended
      <4>2. CASE f # e
        <5>1. k.edges[f] = Fixed(p, g, i)
          BY <2>8, <4>1, <4>2
        <5> QED
          BY <3>2, <5>1 DEF Mended
      <4>3. CASE f = e
        <5>1. c.kind = p.plan.edges[i]
          BY <1>8, <2>1, <3>2, <4>1, <4>3
        <5>2. h.edges[e].kind = c.kind
          BY <3>2, <4>1, <4>3, <5>1, FixedTyped
        <5>3. y0 = h.edges[e]
          BY <2>5, <2>6, <5>2 DEF Process!G!Edges
        <5>4. k.edges[e] = Fixed(p, g, i)
          BY <2>8, <4>1, <4>3, <5>3
        <5> QED
          BY <2>1, <3>2, <5>4 DEF Mended
      <4> QED
        BY <4>2, <4>3
    <3> QED
      BY <3>1, <3>2
  <2> QED
    BY <1>1, <2>1, <2>9, <2>10, <2>11
<1> QED
  BY <1>5, <1>9, <1>10 DEF IsRepair

\* A patch with a whole content leaves that.
LEMMA PatchedWhole ==
    ASSUME NEW x, NEW patch \in Process!Contents
    PROVE  Patched(x, patch) = patch
<1>1. /\ DOMAIN patch = {"kind", "says", "label"}
      /\ patch = [kind |-> patch.kind, says |-> patch.says, label |-> patch.label]
  BY DEF Process!Contents
<1> QED
  BY <1>1 DEF Patched

\* The change itself mends nothing yet.
LEMMA ChangeMends ==
    ASSUME NEW p, PendingOk(p), NEW g \in Process!G!Graphs, Process!G!Valid(g), PlanOf(p, g),
           NEW c \in ProcessCommands, c.type = "updateNode", c.id = p.id, c.patch = p.patch,
           Process!Fits(g, c)
    PROVE  Mends(p, g, Shows(g, c))
<1>1. PICK h, k : h = Process!After(g, c) /\ k = Shows(g, c)
  OBVIOUS
<1>2. p.id \in NodesOf(g) /\ p.id \in Boxes /\ p.patch \in Process!Contents
  BY DEF PlanOf, PendingOk
<1>3. /\ NodesOf(h) = NodesOf(g) /\ h.edges = g.edges
      /\ Process!Content(h, p.id) = Patched(Process!Content(g, p.id), p.patch)
      /\ \A m \in Boxes \ {p.id} : h.nodes[m] = g.nodes[m]
  BY <1>1, AfterNodes
<1>4. Process!Content(h, p.id) = p.patch
  BY <1>2, <1>3, PatchedWhole
<1>5. \A m \in NodesOf(g) \ {p.id} : Process!Content(h, m) = Process!Content(g, m)
  BY <1>3 DEF NodesOf, Process!Content
<1>6. /\ k.edges = h.edges /\ NodesOf(k) = NodesOf(h)
      /\ \A m \in NodesOf(h) :
           Process!RoleOf(Process!Content(k, m)) = Process!RoleOf(Process!Content(h, m))
  BY <1>1, <1>2, <1>3, ShowsNodes
<1>7. k \in Process!G!Graphs /\ Process!G!Valid(k)
  BY <1>1, ShowsTyped
<1> QED
  BY <1>1, <1>2, <1>3, <1>4, <1>5, <1>6, <1>7 DEF Mends

\* After the change, the repairs one by one; what is mended stays.
LEMMA MendAlong ==
    ASSUME NEW p, PendingOk(p), NEW g \in Process!G!Graphs, Process!G!Valid(g), PlanOf(p, g),
           NEW s \in Seq(ProcessCommands), NEW l \in Nat, Len(s) = l, l # 0,
           s[1].type = "updateNode", s[1].id = p.id, s[1].patch = p.patch,
           Process!Fits(g, s[1]),
           \A i \in 2 .. l : IsRepair(p, s[i]),
           NEW f, Fit(f, g, s, l)
    PROVE  /\ Mends(p, g, f[l].graph)
           /\ \A i \in 2 .. l :
                s[i].type # "updateNode" => Mended(p, g, f[l].graph, s[i].id)
<1> DEFINE Ok(m) == /\ Mends(p, g, f[m].graph)
                    /\ \A i \in 2 .. m :
                         s[i].type # "updateNode" => Mended(p, g, f[m].graph, s[i].id)
           S == {m \in 0 .. l : m = 0 \/ Ok(m)}
<1>1. 0 \in S
  OBVIOUS
<1>2. ASSUME NEW m \in 1 .. l, m - 1 \in S
      PROVE  m \in S
  <2>1. PICK c \in ProcessCommands : c = s[m]
    OBVIOUS
  <2>2. PICK y : y = f[m - 1]
    OBVIOUS
  <2>3. f[m] = NextFit(y, c)
    BY <2>1, <2>2 DEF Fit
  <2>4. /\ y.graph \in Process!G!Graphs /\ Process!G!Valid(y.graph)
        /\ y.done \in Seq(ProcessCommands)
    BY <1>2, <2>2, FitTyped
  <2>5. CASE m = 1
    <3>1. f[0] = [graph |-> g, done |-> <<>>] /\ f[m - 1] = f[0]
      BY <2>5 DEF Fit
    <3>2. y.graph = g
      BY <2>2, <3>1
    <3>3. c.type = "updateNode" /\ c.id = p.id /\ c.patch = p.patch /\ Process!Fits(g, c)
      BY <2>1, <2>5
    <3>4. f[m].graph = Shows(g, c)
      BY <2>3, <2>4, <3>2, <3>3, NextFitTyped
    <3>5. Mends(p, g, f[m].graph)
      BY <3>3, <3>4, ChangeMends
    <3> QED
      BY <2>5, <3>5
  <2>6. CASE m # 1
    <3>1. Ok(m - 1) /\ m \in 2 .. l
      BY <1>2, <2>6
    <3>2. Mends(p, g, y.graph) /\ IsRepair(p, c)
      BY <2>1, <2>2, <3>1
    <3>3. /\ Mends(p, g, f[m].graph)
          /\ \A e \in Ids(p) : Mended(p, g, y.graph, e) => Mended(p, g, f[m].graph, e)
          /\ c.type # "updateNode" => Mended(p, g, f[m].graph, c.id)
      BY <2>3, <2>4, <3>2, RepairMends
    <3>4. ASSUME NEW i \in 2 .. m, s[i].type # "updateNode"
          PROVE  Mended(p, g, f[m].graph, s[i].id)
      <4>1. CASE i = m
        BY <2>1, <3>3, <3>4, <4>1
      <4>2. CASE i # m
        <5>1. i \in 2 .. (m - 1) /\ i \in 2 .. l
          BY <3>1, <3>4, <4>2
        <5>2. s[i].id \in Ids(p)
          BY <3>4, <5>1 DEF IsRepair
        <5>3. Mended(p, g, y.graph, s[i].id)
          BY <2>2, <3>1, <3>4, <5>1
        <5> QED
          BY <3>3, <5>2, <5>3
      <4> QED
        BY <4>1, <4>2
    <3> QED
      BY <3>3, <3>4
  <2> QED
    BY <2>5, <2>6
<1>3. l \in S
  <2> HIDE DEF S
  <2>1. Hereditary(S, l)
    BY <1>1, <1>2 DEF Hereditary
  <2> QED
    BY <2>1, UpTo
<1> QED
  BY <1>3

\* An order of a set has all of it.
LEMMA AllInOrder ==
    ASSUME NEW S, IsFiniteSet(S), NEW f \in Process!SetToSeqs(S)
    PROVE  f \in Seq(S) /\ \A x \in S : \E i \in DOMAIN f : f[i] = x
<1>1. PICK n \in Nat : n = Cardinality(S)
  BY FS_CardinalityType
<1>2. Process!Cardinality(S) = n
  BY <1>1, ProcessCardinality
<1>3. f \in [1 .. n -> S] /\ \A i, j \in 1 .. n : i # j => f[i] # f[j]
  BY <1>2 DEF Process!SetToSeqs
<1>4. f \in Injection(1 .. n, S)
  BY <1>3 DEF Injection, IsInjective
<1>5. Cardinality(1 .. n) = n
  BY FS_Interval
<1>6. f \in Surjection(1 .. n, S)
  BY <1>1, <1>4, <1>5, FS_Injection
<1>7. \A x \in S : \E i \in 1 .. n : f[i] = x
  BY <1>6 DEF Surjection
<1> QED
  BY <1>3, <1>7

\* Every relation of a plan is repaired.
LEMMA RepairsAll ==
    ASSUME NEW p, PendingOk(p), NEW order \in Process!SetToSeqs(Ids(p)),
           NEW r, r = Process!RepairsOf(p, "repair", order)
    PROVE  /\ r \in Seq(ProcessCommands)
           /\ \A i \in DOMAIN r : IsRepair(p, r[i])
           /\ \A e \in Ids(p) :
                \E i \in DOMAIN r : r[i].id = e /\ r[i].type \in {"removeEdge", "updateEdge"}
<1>1. PICK edges, ids : edges = p.plan.edges /\ ids = DOMAIN edges
  OBVIOUS
<1>2. /\ ids \subseteq Arrows /\ p.id \in Boxes /\ ids = Ids(p)
      /\ \A e \in ids : edges[e] \in Process!ProcessEdges \cup {"none"}
  BY <1>1 DEF PendingOk, Ids
<1>3. IsFiniteSet(ids)
  <2>1. IsFiniteSet(Arrows)
    BY ProcessAssumption, ProcessFinite DEF Process!ConstantsAssumption
  <2> QED
    BY <1>2, <2>1, FS_Subset
<1>4. order \in Seq(ids) /\ \A e \in ids : \E i \in DOMAIN order : order[i] = e
  BY <1>2, <1>3, AllInOrder
<1>5. PICK S : S = {e \in ids : "repair" = "repair" \/ edges[e] = "none"}
  OBVIOUS
<1>6. PICK kept \in Seq(ids) :
        kept = Process!Kept(order, S) /\ KeepsOf(kept, order, S, Len(order))
  BY <1>4, KeptHas
<1>7. \A e \in ids : \E i \in DOMAIN kept : kept[i] = e
  <2>1. ASSUME NEW e \in ids
        PROVE  \E i \in DOMAIN kept : kept[i] = e
    <3>1. PICK j \in DOMAIN order : order[j] = e
      BY <1>4
    <3>2. j \in 1 .. Len(order) /\ order[j] \in S
      BY <1>4, <1>5, <3>1
    <3> QED
      BY <1>6, <3>1, <3>2 DEF KeepsOf
  <2> QED
    BY <2>1
<1>8. PICK t : t = [i \in DOMAIN kept |-> IF edges[kept[i]] = "none" THEN Process!DropEdge(kept[i])
                                         ELSE Process!Retype(kept[i], edges[kept[i]])]
  OBVIOUS
<1>9. PICK u : u = IF p.plan.fallback THEN <<Process!PatchNode(p.id, [kind |-> "flow-step"])>>
                   ELSE <<>>
  OBVIOUS
<1>10. r = u \o t
  BY <1>1, <1>5, <1>6, <1>8, <1>9, Zenon DEF Process!RepairsOf
<1>11. ASSUME NEW i \in DOMAIN kept
       PROVE  /\ t[i] \in ProcessCommands /\ t[i].id = kept[i]
              /\ t[i].type \in {"removeEdge", "updateEdge"} /\ IsRepair(p, t[i])
  <2>1. PICK e \in Arrows : e = kept[i] /\ e \in ids
    BY <1>2
  <2>2. e \in Ids(p) /\ edges[e] \in Process!ProcessEdges \cup {"none"}
    BY <1>2, <2>1
  <2>3. CASE edges[e] = "none"
    <3>1. t[i] = Process!DropEdge(e)
      BY <1>8, <2>1, <2>3
    <3>2. t[i] \in ProcessCommands /\ t[i].type = "removeEdge" /\ t[i].id = e
      BY <3>1, DropEdgeTyped DEF Process!DropEdge
    <3> QED
      BY <1>1, <2>1, <2>2, <2>3, <3>2 DEF IsRepair
  <2>4. CASE edges[e] # "none"
    <3>1. PICK k \in Process!ProcessEdges : k = edges[e]
      BY <2>2, <2>4
    <3>2. t[i] = Process!Retype(e, k)
      BY <1>8, <2>1, <2>4, <3>1
    <3>3. /\ t[i] \in ProcessCommands /\ t[i].type = "updateEdge" /\ t[i].id = e
          /\ t[i].kind = k
      BY <3>2, RetypeTyped DEF Process!Retype
    <3> QED
      BY <1>1, <2>1, <2>2, <2>4, <3>1, <3>3 DEF IsRepair
  <2> QED
    BY <2>3, <2>4
<1>12. t \in Seq(ProcessCommands) /\ DOMAIN t = DOMAIN kept
  BY <1>8, <1>11
<1>13. u \in Seq(ProcessCommands) /\ \A i \in DOMAIN u : IsRepair(p, u[i])
  <2>1. CASE p.plan.fallback
    <3>1. PICK patch \in Patches : patch = [kind |-> "flow-step"]
      BY DEF Patches
    <3>2. PICK c \in ProcessCommands :
            c = Process!PatchNode(p.id, patch) /\ c.type = "updateNode" /\ c.id = p.id
      BY <1>2, PatchNodeTyped
    <3>3. u = <<c>>
      BY <1>9, <2>1, <3>1, <3>2
    <3>4. IsRepair(p, c)
      BY <2>1, <3>2 DEF IsRepair
    <3> QED
      BY <3>3, <3>4
  <2>2. CASE ~p.plan.fallback
    <3>1. u = <<>>
      BY <1>9, <2>2
    <3> QED
      BY <3>1
  <2> QED
    BY <2>1, <2>2
<1>14. PICK m \in Nat, n \in Nat : m = Len(u) /\ n = Len(t)
  BY <1>12, <1>13
<1>15. /\ r \in Seq(ProcessCommands) /\ Len(r) = m + n
       /\ \A i \in 1 .. m : r[i] = u[i]
       /\ \A i \in 1 .. n : r[m + i] = t[i]
  <2>1. u \in Seq(ProcessCommands) /\ t \in Seq(ProcessCommands)
    BY <1>12, <1>13
  <2>2. PICK v : v = u \o t
    OBVIOUS
  <2>3. /\ v \in Seq(ProcessCommands) /\ Len(v) = m + n
        /\ \A i \in 1 .. m : v[i] = u[i]
        /\ \A i \in 1 .. n : v[m + i] = t[i]
    BY <1>14, <2>1, <2>2, ConcatAt
  <2> QED
    BY <1>10, <2>2, <2>3
<1>16. ASSUME NEW i \in DOMAIN r
       PROVE  IsRepair(p, r[i])
  <2>1. CASE i <= m
    <3>1. i \in 1 .. m /\ i \in DOMAIN u
      BY <1>13, <1>14, <1>15, <2>1
    <3> QED
      BY <1>13, <1>15, <3>1
  <2>2. CASE ~(i <= m)
    <3>1. PICK j \in 1 .. n : i = m + j
      <4>1. i - m \in 1 .. n /\ i = m + (i - m)
        BY <1>15, <2>2
      <4> QED
        BY <4>1
    <3>2. j \in DOMAIN kept
      BY <1>12, <1>14, <3>1
    <3> QED
      BY <1>11, <1>15, <3>1, <3>2
  <2> QED
    BY <2>1, <2>2
<1>17. ASSUME NEW e \in ids
       PROVE  \E i \in DOMAIN r : r[i].id = e /\ r[i].type \in {"removeEdge", "updateEdge"}
  <2>1. PICK i \in DOMAIN kept : kept[i] = e
    BY <1>7
  <2>2. i \in 1 .. n
    BY <1>12, <1>14, <2>1
  <2>3. r[m + i] = t[i] /\ m + i \in DOMAIN r
    BY <1>15, <2>2
  <2> QED
    BY <1>11, <2>1, <2>3
<1> QED
  BY <1>2, <1>15, <1>16, <1>17

\* The commands of a confirmed repair: the change, then the repairs of the plan.
LEMMA QueuedRepairs ==
    ASSUME NEW p, PendingOk(p), NEW order \in Process!SetToSeqs(Ids(p)),
           NEW s, s = Process!By("repair", <<Process!PatchNode(p.id, p.patch)>>
                                              \o Process!RepairsOf(p, "repair", order))
    PROVE  /\ s \in Seq(ProcessCommands) /\ Len(s) # 0
           /\ s[1].type = "updateNode" /\ s[1].id = p.id /\ s[1].patch = p.patch
           /\ \A i \in 2 .. Len(s) : IsRepair(p, s[i])
           /\ \A e \in Ids(p) :
                \E i \in 2 .. Len(s) : s[i].id = e /\ s[i].type # "updateNode"
<1>1. PICK r \in Seq(ProcessCommands) :
        /\ r = Process!RepairsOf(p, "repair", order)
        /\ \A i \in DOMAIN r : IsRepair(p, r[i])
        /\ \A e \in Ids(p) :
             \E i \in DOMAIN r : r[i].id = e /\ r[i].type \in {"removeEdge", "updateEdge"}
  BY RepairsAll
<1>2. p.id \in Boxes /\ p.patch \in Patches
  BY DEF PendingOk, Patches
<1>3. PICK c \in ProcessCommands :
        /\ c = Process!PatchNode(p.id, p.patch) /\ c.type = "updateNode"
        /\ c.id = p.id /\ c.patch = p.patch
  BY <1>2, PatchNodeTyped
<1>4. PICK q \in Seq(ProcessCommands) : q = <<c>> /\ Len(q) = 1 /\ q[1] = c
  <2>1. <<c>> \in Seq(ProcessCommands) /\ Len(<<c>>) = 1 /\ <<c>>[1] = c
    OBVIOUS
  <2> QED
    BY <2>1
<1>5. PICK n \in Nat : n = Len(r)
  OBVIOUS
<1>6. PICK u : u = q \o r
  OBVIOUS
<1>7. /\ u \in Seq(ProcessCommands) /\ Len(u) = 1 + n
      /\ u[1] = c /\ \A i \in 1 .. n : u[1 + i] = r[i]
  <2>1. /\ u \in Seq(ProcessCommands) /\ Len(u) = Len(q) + Len(r)
        /\ \A i \in 1 .. Len(q) : u[i] = q[i]
        /\ \A i \in 1 .. Len(r) : u[Len(q) + i] = r[i]
    BY <1>6, ConcatAt
  <2>2. 1 \in 1 .. Len(q)
    BY <1>4
  <2> QED
    BY <1>4, <1>5, <2>1, <2>2
<1>8. s = Process!By("repair", u)
  BY <1>1, <1>3, <1>4, <1>6
<1>9. /\ s \in Seq(ProcessCommands) /\ DOMAIN s = DOMAIN u
      /\ \A i \in DOMAIN u : /\ s[i].type = u[i].type /\ s[i].id = u[i].id
                             /\ u[i].type = "updateNode" => s[i].patch = u[i].patch
                             /\ u[i].type = "updateEdge" => s[i].kind = u[i].kind
  <2>1. "repair" \in Who
    BY DEF Who
  <2>2. PICK w : w = Process!By("repair", u)
    OBVIOUS
  <2>3. /\ w \in Seq(ProcessCommands) /\ DOMAIN w = DOMAIN u
        /\ \A i \in DOMAIN u : /\ w[i].type = u[i].type /\ w[i].id = u[i].id
                               /\ u[i].type = "updateNode" => w[i].patch = u[i].patch
                               /\ u[i].type = "updateEdge" => w[i].kind = u[i].kind
    BY <1>7, <2>1, <2>2, ByTyped
  <2> QED
    BY <1>8, <2>2, <2>3
<1>10. Len(s) = 1 + n
  BY <1>7, <1>9
<1>11. 1 \in DOMAIN u
  BY <1>7
<1>12. s[1].type = "updateNode" /\ s[1].id = p.id /\ s[1].patch = p.patch
  BY <1>3, <1>7, <1>9, <1>11
<1>13. ASSUME NEW i \in DOMAIN r
       PROVE  /\ 1 + i \in DOMAIN u /\ 1 + i \in 2 .. Len(s)
              /\ s[1 + i].type = r[i].type /\ s[1 + i].id = r[i].id
              /\ r[i].type = "updateEdge" => s[1 + i].kind = r[i].kind
  <2>1. i \in 1 .. n
    BY <1>5
  <2>2. u[1 + i] = r[i] /\ 1 + i \in DOMAIN u /\ 1 + i \in 2 .. Len(s)
    BY <1>7, <1>10, <2>1
  <2> QED
    BY <1>9, <2>2
<1>14. ASSUME NEW j \in 2 .. Len(s)
       PROVE  IsRepair(p, s[j])
  <2>1. PICK i \in 1 .. n : j = 1 + i
    <3>1. j - 1 \in 1 .. n /\ j = 1 + (j - 1)
      BY <1>10
    <3> QED
      BY <3>1
  <2>2. i \in DOMAIN r
    BY <1>5
  <2>3. IsRepair(p, r[i])
    BY <1>1, <2>2
  <2> QED
    BY <1>13, <2>1, <2>2, <2>3 DEF IsRepair
<1>15. ASSUME NEW e \in Ids(p)
       PROVE  \E i \in 2 .. Len(s) : s[i].id = e /\ s[i].type # "updateNode"
  <2>1. PICK i \in DOMAIN r : r[i].id = e /\ r[i].type \in {"removeEdge", "updateEdge"}
    BY <1>1
  <2> QED
    BY <1>13, <2>1
<1>16. Len(s) # 0
  BY <1>10
<1> QED
  BY <1>9, <1>12, <1>14, <1>15, <1>16

\* What a confirmed repair leaves on the canvas.
LEMMA ConfirmMends ==
    ASSUME ProcessInv, Process!ConfirmRepair("repair"), PlanOf(pending, shown)
    PROVE  /\ Mends(pending, shown, shown')
           /\ \A e \in Ids(pending) : Mended(pending, shown, shown', e)
<1>1. PendingOk(pending) /\ shown \in Process!G!Graphs /\ Process!G!Valid(shown)
  BY DEF Process!ConfirmRepair, ProcessInv, ProcessTypes
<1>2. PICK order \in Process!SetToSeqs(Ids(pending)) :
        Process!Locally(Process!By("repair",
          <<Process!PatchNode(pending.id, pending.patch)>>
            \o Process!RepairsOf(pending, "repair", order)))
  BY DEF Process!ConfirmRepair, Ids
<1>3. PICK s : s = Process!By("repair", <<Process!PatchNode(pending.id, pending.patch)>>
                                          \o Process!RepairsOf(pending, "repair", order))
  OBVIOUS
<1>4. /\ s \in Seq(ProcessCommands) /\ Len(s) # 0
      /\ s[1].type = "updateNode" /\ s[1].id = pending.id /\ s[1].patch = pending.patch
      /\ \A i \in 2 .. Len(s) : IsRepair(pending, s[i])
      /\ \A e \in Ids(pending) :
           \E i \in 2 .. Len(s) : s[i].id = e /\ s[i].type # "updateNode"
  BY <1>1, <1>3, QueuedRepairs
<1>5. PICK l \in Nat : l = Len(s)
  BY <1>4
<1>6. PICK f : Fit(f, shown, s, l) /\ shown' = f[l].graph
  BY <1>2, <1>3, <1>4, <1>5, LocallyIs
<1>7. Process!Fits(shown, s[1])
  <2>1. PICK c : c = Process!PatchNode(pending.id, pending.patch)
    OBVIOUS
  <2>2. c.type = "updateNode" /\ c.id = pending.id /\ c.patch = pending.patch
    BY <2>1 DEF Process!PatchNode
  <2>3. Process!Fits(shown, c)
    BY <2>1 DEF Process!ConfirmRepair
  <2> QED
    BY <1>4, <2>2, <2>3, FitsOfAny
<1>8. /\ Mends(pending, shown, f[l].graph)
      /\ \A i \in 2 .. l : s[i].type # "updateNode"
                             => Mended(pending, shown, f[l].graph, s[i].id)
  BY <1>1, <1>4, <1>5, <1>6, <1>7, MendAlong
<1>9. ASSUME NEW e \in Ids(pending)
      PROVE  Mended(pending, shown, shown', e)
  <2>1. PICK i \in 2 .. l : s[i].id = e /\ s[i].type # "updateNode"
    BY <1>4, <1>5
  <2> QED
    BY <1>6, <1>8, <2>1
<1> QED
  BY <1>6, <1>8, <1>9

\* What the plan was made of: the graph with the kind that the change gives the node.
Planning(p) == Process!WithPatch(stored, p.id, [kind |-> p.patch.kind])

\* The plan is one for the canvas; the relations of the node that need no repair are allowed
\* with that kind, those that get one are of a kind that is.
LEMMA PlannedIsPlan ==
    ASSUME ProcessInv, PendingOk(pending), PlannedFor(pending, stored, shown, waiting),
           pending.id \in NodesOf(shown)
    PROVE  /\ PlanOf(pending, shown)
           /\ Planning(pending) \in Process!G!Graphs
           /\ NodesOf(stored) \subseteq NodesOf(Planning(pending))
           /\ Process!Content(Planning(pending), pending.id).kind = pending.patch.kind
           /\ pending.plan.fallback <=> pending.patch.kind = "page"
           /\ \A e \in Arrows : Process!G!Incident(shown, e, pending.id) =>
                Planning(pending).edges[e] = shown.edges[e]
           /\ \A e \in Ids(pending) :
                /\ Process!G!Incident(shown, e, pending.id)
                /\ pending.plan.edges[e]
                     = Process!Recommended(Planning(pending), shown.edges[e])
           /\ \A e \in Arrows \ Ids(pending) : Process!G!Incident(shown, e, pending.id) =>
                Process!G!AllowedIn(Planning(pending), shown.edges[e])
<1>1. PICK n, k : n = pending.id /\ k = pending.patch.kind
  OBVIOUS
<1>2. /\ n \in NodesOf(stored) /\ n \in Boxes
      /\ pending.plan = Process!RepairPlan(stored, n, k) /\ SameAt(stored, shown, n)
  BY <1>1 DEF PlannedFor, PendingOk
<1>3. /\ stored \in Process!G!Graphs /\ shown \in Process!G!Graphs
      /\ Process!G!Valid(stored) /\ Process!G!Valid(shown)
  BY DEF ProcessInv, ProcessTypes
<1>4. PICK patch \in Patches : patch = [kind |-> k]
  BY <1>1 DEF Patches, PendingOk, Process!Contents
<1>5. PICK h : h = Process!WithPatch(stored, n, patch)
  OBVIOUS
<1>6. h = Planning(pending)
  BY <1>1, <1>4, <1>5, Zenon DEF Planning
<1>7. Process!G!HasNode(stored, n)
  BY <1>2 DEF NodesOf
<1>8. /\ h \in Process!G!Graphs /\ h.edges = stored.edges /\ Process!G!HasNode(h, n)
      /\ Process!Content(h, n) = Patched(Process!Content(stored, n), patch)
      /\ \A m \in Boxes \ {n} : h.nodes[m] = stored.nodes[m]
  BY <1>2, <1>3, <1>5, <1>7, PatchFields
<1>9. NodesOf(stored) \subseteq NodesOf(h)
  BY <1>2, <1>8 DEF NodesOf, Process!G!HasNode
<1>10. Process!Content(h, n).kind = k
  BY <1>4, <1>8 DEF Patched
<1>11. PICK S : S = Process!BrokenBy(stored, n, k)
  OBVIOUS
<1>12. S = {e \in Process!Broken(h) : Process!G!Incident(h, e, n)}
  BY <1>4, <1>5, <1>11, Zenon DEF Process!BrokenBy
<1>13. PICK r : r = [e \in S |-> Process!Recommended(h, h.edges[e])]
  OBVIOUS
<1>14. pending.plan = [fallback |-> k = "page", edges |-> r]
  BY <1>2, <1>4, <1>5, <1>11, <1>13, Zenon DEF Process!RepairPlan
<1>15. /\ pending.plan.edges = r /\ Ids(pending) = S
       /\ pending.plan.fallback <=> k = "page"
  <2>1. PICK page : page = (k = "page")
    OBVIOUS
  <2>2. pending.plan = [fallback |-> page, edges |-> r]
    BY <1>14, <2>1, Zenon
  <2>3. pending.plan.edges = r /\ pending.plan.fallback = page
    BY <2>2
  <2> QED
    BY <1>13, <2>1, <2>3 DEF Ids
<1>16. ASSUME NEW e \in Arrows
       PROVE  /\ Process!G!Incident(shown, e, n) <=> Process!G!Incident(h, e, n)
              /\ Process!G!Incident(shown, e, n) =>
                   /\ h.edges[e] = shown.edges[e]
                   /\ Process!G!HasEdge(h, e) /\ Process!G!HasEdge(shown, e)
  BY <1>2, <1>8 DEF SameAt, Process!G!Incident, Process!G!HasEdge
<1>17. ASSUME NEW e \in S
       PROVE  /\ e \in Arrows /\ Process!G!Incident(shown, e, n)
              /\ Process!G!HasEdge(shown, e)
              /\ pending.plan.edges[e] = Process!Recommended(h, shown.edges[e])
  <2>1. e \in Arrows /\ Process!G!Incident(h, e, n)
    BY <1>12 DEF Process!Broken
  <2> QED
    BY <1>13, <1>15, <1>16, <2>1
<1>18. ASSUME NEW e \in Arrows \ S, Process!G!Incident(shown, e, n)
       PROVE  Process!G!AllowedIn(h, shown.edges[e])
  <2>1. /\ Process!G!Incident(h, e, n) /\ Process!G!HasEdge(h, e)
        /\ h.edges[e] = shown.edges[e]
    BY <1>16, <1>18
  <2>2. e \notin Process!Broken(h)
    BY <1>12, <1>18, <2>1
  <2> QED
    BY <2>1, <2>2 DEF Process!Broken
<1>19. ASSUME NEW e \in S, NEW f \in S,
              shown.edges[e].source = shown.edges[f].source,
              shown.edges[e].target = shown.edges[f].target
       PROVE  pending.plan.edges[e] = pending.plan.edges[f]
  <2>1. PICK x, y : x = shown.edges[e] /\ y = shown.edges[f]
    OBVIOUS
  <2>2. x.source = y.source /\ x.target = y.target
    BY <1>19, <2>1
  <2>3. Process!Recommended(h, x) = Process!Recommended(h, y)
    BY <2>2, Zenon DEF Process!Recommended
  <2> QED
    BY <1>17, <2>1, <2>3
<1>20. PlanOf(pending, shown)
  <2>1. /\ S \subseteq Arrows
        /\ \A e \in S : /\ Process!G!HasEdge(shown, e)
                        /\ pending.plan.edges[e] \in Process!ProcessEdges \cup {"none"}
    BY <1>15, <1>17 DEF PendingOk, Ids
  <2> QED
    BY <1>15, <1>19, <2>1 DEF PlanOf
<1> QED
  BY <1>1, <1>6, <1>8, <1>9, <1>10, <1>15, <1>16, <1>17, <1>18, <1>20

\* The roles of the plan are those on the canvas afterwards, if they were foreseen; a node
\* that was to be a page has no relation that is allowed.
LEMMA AllowedAfter ==
    ASSUME ProcessInv, PendingOk(pending), PlannedFor(pending, stored, shown, waiting),
           pending.id \in NodesOf(shown), Process!Foreseen,
           Mends(pending, shown, shown'),
           NEW x \in Process!G!Edges, x.source \in NodesOf(shown), x.target \in NodesOf(shown),
           x.source \in NodesOf(stored), x.target \in NodesOf(stored),
           x.source = pending.id \/ x.target = pending.id,
           x.kind \in Process!KindsBetween(
                        Process!RoleOf(Process!Content(Planning(pending), x.source)),
                        Process!RoleOf(Process!Content(Planning(pending), x.target)))
    PROVE  Process!G!AllowedIn(shown', x)
<1>1. PICK n, h, hc : /\ n = pending.id /\ h = Planning(pending)
                      /\ hc = Process!WithPatch(shown, n, pending.patch)
  OBVIOUS
<1>2. /\ n \in NodesOf(shown) /\ n \in Boxes /\ pending.patch \in Process!Contents
      /\ pending.patch \in Patches /\ Process!G!HasNode(shown, n)
  BY <1>1 DEF PendingOk, Patches, NodesOf
<1>3. /\ h \in Process!G!Graphs /\ NodesOf(stored) \subseteq NodesOf(h)
      /\ Process!Content(h, n).kind = pending.patch.kind
      /\ pending.plan.fallback <=> pending.patch.kind = "page"
  BY <1>1, PlannedIsPlan
<1>4. /\ Process!Content(hc, n) = pending.patch
      /\ \A m \in NodesOf(shown) \ {n} : Process!Content(hc, m) = Process!Content(shown, m)
  <2>1. shown \in Process!G!Graphs
    BY DEF ProcessInv, ProcessTypes
  <2>2. /\ Process!Content(hc, n) = Patched(Process!Content(shown, n), pending.patch)
        /\ \A m \in Boxes \ {n} : hc.nodes[m] = shown.nodes[m]
    BY <1>1, <1>2, <2>1, PatchFields
  <2> QED
    BY <1>2, <2>2, PatchedWhole DEF NodesOf, Process!Content
<1>5. \A m \in NodesOf(h) : Process!RoleOf(Process!Content(h, m))
                              = Process!RoleOf(Process!Content(hc, m))
  BY <1>1, Zenon DEF Process!Foreseen, Planning, NodesOf
<1>6. ~pending.plan.fallback
  <2>1. SUFFICES ASSUME pending.patch.kind = "page" PROVE FALSE
    BY <1>3
  <2>2. Process!RoleOf(Process!Content(h, n)) = "none"
    BY <1>3, <2>1 DEF Process!RoleOf
  <2>3. ASSUME NEW s, NEW t, s = "none" \/ t = "none"
        PROVE  Process!KindsBetween(s, t) = {}
    BY <2>3 DEF Process!KindsBetween
  <2> QED
    BY <1>1, <2>2, <2>3
<1>7. ASSUME NEW m \in NodesOf(shown) \cap NodesOf(stored)
      PROVE  Process!RoleOf(Process!Content(shown', m)) = Process!RoleOf(Process!Content(h, m))
  <2>1. Process!RoleOf(Process!Content(h, m)) = Process!RoleOf(Process!Content(hc, m))
    BY <1>3, <1>5
  <2>2. CASE m = n
    <3>1. Process!RoleOf(Process!Content(shown', n)) = Process!RoleOf(pending.patch)
      BY <1>1, <1>6 DEF Mends
    <3> QED
      BY <1>4, <2>1, <2>2, <3>1
  <2>3. CASE m # n
    <3>1. Process!RoleOf(Process!Content(shown', m)) = Process!RoleOf(Process!Content(shown, m))
      BY <1>1, <2>3 DEF Mends
    <3> QED
      BY <1>4, <2>1, <2>3, <3>1
  <2> QED
    BY <2>2, <2>3
<1>8. /\ shown' \in Process!G!Graphs
      /\ Process!G!HasNode(shown', x.source) /\ Process!G!HasNode(shown', x.target)
  BY DEF Mends, NodesOf
<1>9. x.kind \in Process!KindsBetween(Process!RoleOf(Process!Content(shown', x.source)),
                                      Process!RoleOf(Process!Content(shown', x.target)))
  BY <1>1, <1>7
<1> QED
  BY <1>8, <1>9, AllowedByRoles

\* Of the relations that a confirmed repair leaves, those broken were so before, or repeat
\* another.
LEMMA RepairLeaves ==
    ASSUME ProcessInv, PlanInv, Process!ConfirmRepair("repair"), alone, Process!Foreseen
    PROVE  \A e \in Process!Broken(shown') \ Process!Broken(shown) : Process!Repeats(e)
<1>1. PICK p, g, k : p = pending /\ g = shown /\ k = shown'
  OBVIOUS
<1>2. /\ PendingOk(pending) /\ PlannedFor(pending, stored, shown, waiting)
      /\ g \in Process!G!Graphs /\ Process!G!Valid(g)
      /\ stored \in Process!G!Graphs /\ Process!G!Valid(stored)
  BY <1>1 DEF Process!ConfirmRepair, ProcessInv, ProcessTypes, PlanInv
<1>3. pending.id \in NodesOf(shown)
  <2>1. Process!G!Finds(shown, Process!PatchNode(pending.id, pending.patch))
    BY DEF Process!ConfirmRepair, Process!Fits
  <2>2. Process!G!HasNode(shown, pending.id)
    BY <2>1 DEF Process!G!Finds, Process!PatchNode
  <2> QED
    BY <1>2, <2>2 DEF NodesOf, PendingOk
<1>4. PICK h : h = Planning(pending)
  OBVIOUS
<1>5. /\ PlanOf(pending, shown) /\ h \in Process!G!Graphs
      /\ NodesOf(stored) \subseteq NodesOf(h)
      /\ \A e \in Arrows : Process!G!Incident(shown, e, pending.id) =>
           h.edges[e] = shown.edges[e]
      /\ \A e \in Ids(pending) :
           /\ Process!G!Incident(shown, e, pending.id)
           /\ pending.plan.edges[e] = Process!Recommended(h, shown.edges[e])
      /\ \A e \in Arrows \ Ids(pending) : Process!G!Incident(shown, e, pending.id) =>
           Process!G!AllowedIn(h, shown.edges[e])
  BY <1>2, <1>3, <1>4, PlannedIsPlan
<1>6. /\ Mends(pending, shown, shown')
      /\ \A e \in Ids(pending) : Mended(pending, shown, shown', e)
  BY <1>5, ConfirmMends
<1>7. ASSUME NEW x \in Process!G!Edges, NEW e \in Arrows,
             Process!G!Incident(shown, e, pending.id),
             x.source = shown.edges[e].source, x.target = shown.edges[e].target,
             x.kind \in Process!KindsBetween(Process!RoleOf(Process!Content(h, x.source)),
                                             Process!RoleOf(Process!Content(h, x.target)))
      PROVE  Process!G!AllowedIn(shown', x)
  <2>1. /\ Process!G!HasEdge(shown, e)
        /\ x.source = pending.id \/ x.target = pending.id
    BY <1>7 DEF Process!G!Incident
  <2>2. stored.edges[e] = shown.edges[e] /\ Process!G!HasEdge(stored, e)
    BY <1>2, <1>7, <2>1 DEF PlannedFor, SameAt, Process!G!HasEdge
  <2>3. x.source \in Boxes /\ x.target \in Boxes
    BY DEF Process!G!Edges
  <2>4. /\ Process!G!HasNode(shown, x.source) /\ Process!G!HasNode(shown, x.target)
        /\ Process!G!HasNode(stored, x.source) /\ Process!G!HasNode(stored, x.target)
    BY <1>1, <1>2, <1>7, <2>1, <2>2 DEF Process!G!Valid
  <2>5. /\ x.source \in NodesOf(shown) /\ x.target \in NodesOf(shown)
        /\ x.source \in NodesOf(stored) /\ x.target \in NodesOf(stored)
    BY <2>3, <2>4 DEF NodesOf
  <2> QED
    BY <1>2, <1>3, <1>4, <1>6, <1>7, <2>1, <2>5, AllowedAfter
<1>8. SUFFICES ASSUME NEW e \in Process!Broken(shown') \ Process!Broken(shown)
               PROVE  Process!Repeats(e)
  OBVIOUS
<1>9. /\ e \in Arrows /\ Process!G!HasEdge(shown', e)
      /\ ~Process!G!AllowedIn(shown', shown'.edges[e])
      /\ Process!G!HasEdge(shown, e) => Process!G!AllowedIn(shown, shown.edges[e])
  BY <1>8 DEF Process!Broken
<1>10. CASE e \in Ids(pending)
  <2>1. Mended(pending, shown, shown', e) /\ Process!G!Incident(shown, e, pending.id)
    BY <1>5, <1>6, <1>10
  <2>2. pending.plan.edges[e] # "none"
    BY <1>9, <2>1 DEF Mended, Process!G!HasEdge
  <2>3. PICK x, y : x = shown.edges[e] /\ y = Fixed(pending, shown, e)
    OBVIOUS
  <2>4. PICK f \in Arrows : shown'.edges[f] = y
    BY <2>1, <2>2, <2>3 DEF Mended
  <2>5. /\ x \in Process!G!Edges /\ y \in Process!G!Edges
        /\ y.source = x.source /\ y.target = x.target /\ y.kind = pending.plan.edges[e]
        /\ y = [x EXCEPT !.kind = pending.plan.edges[e]]
    <3>1. g \in Process!G!Graphs /\ PlanOf(pending, g)
      BY <1>1, <1>2, <1>5
    <3> QED
      BY <1>1, <1>10, <2>2, <2>3, <3>1, FixedTyped DEF Fixed
  <2>6. CASE f = e
    <3>1. y.kind = Process!Recommended(h, x)
      BY <1>5, <1>10, <2>3, <2>5
    <3>2. x.source = y.source /\ x.target = y.target
      BY <2>5
    <3>3. y.kind \in Process!KindsBetween(Process!RoleOf(Process!Content(h, x.source)),
                                          Process!RoleOf(Process!Content(h, x.target)))
      BY <2>2, <2>5, <3>1, RecommendedAllowed
    <3>4. Process!G!AllowedIn(shown', y)
      BY <1>7, <1>9, <2>1, <2>3, <2>5, <3>2, <3>3
    <3> QED
      BY <1>9, <2>4, <2>6, <3>4
  <2>7. CASE f # e
    <3>1. shown'.edges[e] = x \/ shown'.edges[e] = y
      BY <1>6, <1>10, <2>2, <2>3 DEF Mends
    <3>2. y = [shown'.edges[e] EXCEPT !.kind = pending.plan.edges[e]]
      BY <2>5, <3>1 DEF Process!G!Edges
    <3>3. shown'.edges[f] = [shown'.edges[e] EXCEPT !.kind = pending.plan.edges[e]]
      BY <2>4, <3>2
    <3>4. e \in DOMAIN pending.plan.edges /\ f \in Arrows \ {e}
      BY <1>10, <2>7 DEF Ids
    <3> QED
      BY <1>9, <3>3, <3>4 DEF Process!Repeats
  <2> QED
    BY <2>6, <2>7
<1>11. CASE e \notin Ids(pending)
  <2>1. shown'.edges[e] = shown.edges[e]
    BY <1>6, <1>9, <1>11 DEF Mends
  <2>2. Process!G!HasEdge(shown, e)
    BY <1>9, <2>1 DEF Process!G!HasEdge
  <2>3. PICK x \in Process!G!Edges : x = shown.edges[e]
    BY <1>1, <1>2, <1>9, <2>2, BoxesPresent
  <2>4. /\ Process!G!HasNode(shown, x.source) /\ Process!G!HasNode(shown, x.target)
        /\ x.source \in NodesOf(shown) /\ x.target \in NodesOf(shown)
    BY <1>1, <1>2, <1>9, <2>2, <2>3 DEF Process!G!Valid, NodesOf, Process!G!Edges
  <2>5. CASE Process!G!Incident(shown, e, pending.id)
    <3>1. Process!G!AllowedIn(h, x)
      BY <1>5, <1>9, <1>11, <2>3, <2>5
    <3>2. /\ Process!G!HasNode(h, x.source) /\ Process!G!HasNode(h, x.target)
      BY <3>1 DEF Process!G!AllowedIn
    <3>3. x.kind \in Process!KindsBetween(Process!RoleOf(Process!Content(h, x.source)),
                                          Process!RoleOf(Process!Content(h, x.target)))
      BY <1>5, <3>1, <3>2, AllowedByRoles
    <3>4. Process!G!AllowedIn(shown', x)
      BY <1>7, <1>9, <2>3, <2>5, <3>3
    <3> QED
      BY <1>9, <2>1, <2>3, <3>4
  <2>6. CASE ~Process!G!Incident(shown, e, pending.id)
    <3>1. x.source # pending.id /\ x.target # pending.id
      BY <2>2, <2>3, <2>6 DEF Process!G!Incident
    <3>2. \A m \in {x.source, x.target} :
            Process!RoleOf(Process!Content(shown', m)) = Process!RoleOf(Process!Content(shown, m))
      BY <1>6, <2>4, <3>1 DEF Mends
    <3>3. /\ shown' \in Process!G!Graphs /\ shown \in Process!G!Graphs
          /\ Process!G!HasNode(shown', x.source) /\ Process!G!HasNode(shown', x.target)
      BY <1>1, <1>2, <1>6, <2>4 DEF Mends, NodesOf
    <3>4. Process!G!AllowedIn(shown, x)
      BY <1>9, <2>2, <2>3
    <3>5. Process!G!AllowedIn(shown', x)
      <4>1. x.kind \in Process!KindsBetween(Process!RoleOf(Process!Content(shown, x.source)),
                                            Process!RoleOf(Process!Content(shown, x.target)))
        BY <2>4, <3>3, <3>4, AllowedByRoles
      <4>2. x.kind \in Process!KindsBetween(Process!RoleOf(Process!Content(shown', x.source)),
                                            Process!RoleOf(Process!Content(shown', x.target)))
        BY <3>2, <4>1
      <4> QED
        BY <3>3, <4>2, AllowedByRoles
    <3> QED
      BY <1>9, <2>1, <2>3, <3>5
  <2> QED
    BY <2>5, <2>6
<1> QED
  BY <1>10, <1>11

\* On the canvas, the repair of a change of kind leaves no relation broken by it but one
\* that would repeat another, if it was planned with the roles that the nodes of the canvas
\* have with the change: while it is offered only copies are added to the queue, which the
\* plan does not concern, and each repair leaves what those before it mended
\* (buildRepairPlanForNodeKindChange, handleApplyPendingNodeRepair).
THEOREM RepairsHealed == MCSpec => ProcessRepairsHeal
<1>1. MCInit => ProcessInv /\ PlanInv
  <2>1. Process!Init => PlanInv
    BY DEF Process!Init, PlanInv
  <2> QED
    BY <2>1, ProcessInitially DEF MCInit
<1>2. ProcessInv /\ PlanInv /\ [MCNext]_<<view, flowVars, processVars, erdVars>>
        => ProcessInv' /\ PlanInv'
  BY ProcessSteps, ProcessStep, PlanStep
<1>3. ProcessInv /\ PlanInv /\ [MCNext]_<<view, flowVars, processVars, erdVars>>
        => [view = "process" => Process!RepairsHeal]_processVars
  BY RepairLeaves DEF Process!RepairsHeal
<1> QED
  BY <1>1, <1>2, <1>3, PTL DEF MCSpec, ProcessRepairsHeal

=============================================================================
