--------------------------- MODULE ProcessDiagram ---------------------------
(***************************************************************************)
(* A process diagram in the editor: what a node means, which relations its *)
(* meaning allows, what the editor offers for it, and the changes that the *)
(* server refuses, offers to repair, or finds in its queue.                *)
(*                                                                         *)
(* The graph and its commands are those of GraphCommands, a node's role    *)
(* being its kind, the role its data states and its label.  An update      *)
(* carries what it changes only; a repair is several commands, each of     *)
(* which the tab applies and queues, and the server takes, on its own.     *)
(* Labels of relations, positions and the warnings of an audit, which stop *)
(* nothing, are left out.                                                  *)
(***************************************************************************)
EXTENDS Naturals, SequencesExt, FiniteSets, TLC

CONSTANTS
    NodeIds, EdgeIds,
    Infers,     \* Infers[l]: the role that a label says; bound: its domain
    CopyOf,     \* CopyOf[l]: the label of a copy
    Starts,     \* the graphs the project may have when the tab opens it
    MadeUp,     \* the id of the start that the tab makes up
    Sessions,   \* whether the inspector is technical, and partial copies are allowed
    MaxWrites,  \* bound: what the tab and others ask for
    None

MainKinds == {"flows-to", "depends-on"}
ProcessEdges == MainKinds \cup {"references"}
FlowRoles == {"flow-start", "flow-step", "flow-decision", "flow-end", "flow-note"}
Forward == {"flow-step", "flow-decision", "flow-end"}

Labels == DOMAIN Infers
Contents == [kind : {"flow-step", "note", "page"}, says : FlowRoles \cup {"none"},
             label : Labels]

\* resolveFlowProcessRole(): a page has none.
RoleOf(c) ==
    CASE c.kind = "note"    -> "flow-note"
      [] c.kind = "page"    -> "none"
      [] c.says \in FlowRoles /\ c.kind = "flow-step" -> c.says
      [] OTHER              -> Infers[c.label]

\* resolveProcessConnectionPolicy()
KindsBetween(s, t) ==
    {k \in ProcessEdges :
       /\ "none" \notin {s, t}
       /\ IF "flow-note" \in {s, t}
            THEN s # t /\ k = "references"
            ELSE /\ s # "flow-end" /\ t \in Forward
                 /\ \/ k = "flows-to"
                    \/ s = "flow-decision" /\ k = "depends-on"}

Rules == [p \in Contents \X Contents |-> KindsBetween(RoleOf(p[1]), RoleOf(p[2]))]

VARIABLES
    server, canvas, queue,
    alone,    \* history: no other tab wrote since this one last took over the stored graph
    pending,  \* the change of a node whose repair is offered, or None
    paste,    \* the copy the server is asked about, or None
    session, writes

vars == <<server, canvas, queue, alone, pending, paste, session, writes>>

G == INSTANCE GraphCommands
       WITH Roles <- Contents, Places <- {1}, Allowed <- Rules, Absent <- None,
            touched <- {}, EdgeKinds <- ProcessEdges

\* A label says a role, that of a step if need be, and has one for copies; ids are of nodes
\* or of relations; a diagram is opened as it was stored, without what a tab makes up.
ConstantsAssumption ==
    /\ IsFiniteSet(NodeIds) /\ IsFiniteSet(EdgeIds)
    /\ NodeIds \cap EdgeIds = {}
    /\ None \notin G!Nodes \cup G!Edges
    /\ Infers \in [Labels -> FlowRoles]
    /\ \E l \in Labels : Infers[l] = "flow-step"
    /\ CopyOf \in [Labels -> Labels]
    /\ MadeUp \in NodeIds
    /\ \A g \in Starts : g \in G!Graphs /\ G!Valid(g) /\ ~G!HasNode(g, MadeUp)
    /\ Sessions \subseteq [technical : BOOLEAN, partial : BOOLEAN]
    /\ MaxWrites \in Nat

-----------------------------------------------------------------------------
(* Commands, and who queued them                                           *)

AddNode(n, content) ==
    [type |-> "addNode", id |-> n, node |-> [role |-> content, place |-> 1], by |-> "hand"]
AddEdge(e, s, t, k) ==
    [type |-> "addEdge", id |-> e, edge |-> [source |-> s, target |-> t, kind |-> k],
     by |-> "hand"]
PatchNode(n, patch) == [type |-> "updateNode", id |-> n, patch |-> patch, by |-> "hand"]
Retype(e, k) == [type |-> "updateEdge", id |-> e, kind |-> k, by |-> "hand"]
DropNode(n) == [type |-> "removeNode", id |-> n, by |-> "hand"]
DropEdge(e) == [type |-> "removeEdge", id |-> e, by |-> "hand"]

By(who, s) == [i \in DOMAIN s |-> [s[i] EXCEPT !.by = who]]

Content(g, n) == g.nodes[n].role
WithPatch(g, n, patch) ==
    [g EXCEPT !.nodes[n].role =
       [kind |-> IF "kind" \in DOMAIN patch THEN patch.kind ELSE @.kind,
        says |-> IF "says" \in DOMAIN patch THEN patch.says ELSE @.says,
        label |-> IF "label" \in DOMAIN patch THEN patch.label ELSE @.label]]

\* c with all the node has after it.
Full(g, c) ==
    IF c.type = "updateNode" /\ G!HasNode(g, c.id)
      THEN [type |-> "updateNode", id |-> c.id,
            role |-> Content(WithPatch(g, c.id, c.patch), c.id)]
      ELSE c

Fits(g, c) == G!Finds(g, c) /\ G!Accepts(g, Full(g, c))
After(g, c) == G!Apply(g, Full(g, c))

Shape(role) ==
    [kind |-> IF role = "flow-note" THEN "note" ELSE "flow-step", says |-> role,
     label |-> CHOOSE l \in Labels : Infers[l] = "flow-step"]

\* What the tab makes of a content: the data state the role.
Stating(c) == IF c.kind = "page" THEN c ELSE [c EXCEPT !.says = RoleOf(c)]

\* normalizeDiagramSnapshot(): what the tab makes of a graph, whenever it changes; an empty
\* one gets a start, which the server does not know.
Normalized(g) ==
    IF \A n \in NodeIds : ~G!HasNode(g, n)
      THEN G!SetNode(g, MadeUp, [role |-> Shape("flow-start"), place |-> 1])
      ELSE [g EXCEPT !.nodes =
              [n \in NodeIds |->
                 IF G!HasNode(g, n) THEN [g.nodes[n] EXCEPT !.role = Stating(Content(g, n))]
                                    ELSE None]]

\* The commands of s that fit, in order, and what the tab shows after them.
Fitting(g, s) ==
    LET x[k \in 0 .. Len(s)] ==
          IF k = 0 THEN [graph |-> g, done |-> <<>>]
          ELSE IF Fits(x[k - 1].graph, s[k])
            THEN [graph |-> Normalized(After(x[k - 1].graph, s[k])),
                  done |-> Append(x[k - 1].done, s[k])]
            ELSE x[k - 1]
    IN  x[Len(s)]

\* Those of s that are in S, in order.
Kept(s, S) ==
    LET kept[k \in 0 .. Len(s)] ==
          IF k = 0 THEN <<>>
          ELSE IF s[k] \in S THEN Append(kept[k - 1], s[k]) ELSE kept[k - 1]
    IN  kept[Len(s)]

-----------------------------------------------------------------------------
(* The server's rules                                                      *)

Broken(g) == {e \in EdgeIds : G!HasEdge(g, e) /\ ~G!AllowedIn(g, g.edges[e])}

\* resolveRecommendedFlowEdgeKind()
Recommended(g, edge) ==
    LET s == RoleOf(Content(g, edge.source))
        kinds == KindsBetween(s, RoleOf(Content(g, edge.target)))
    IN  IF "references" \in kinds THEN "references"
        ELSE IF s = "flow-decision" /\ "depends-on" \in kinds THEN "depends-on"
        ELSE IF "flows-to" \in kinds THEN "flows-to"
        ELSE "none"

BrokenBy(g, n, k) ==
    LET h == WithPatch(g, n, [kind |-> k])
    IN  {e \in Broken(h) : G!Incident(h, e, n)}

\* Mutant: the relations are judged by what the node was.
RepairPlanOfOld(g, n, k) ==
    [fallback |-> k = "page",
     edges |-> [e \in BrokenBy(g, n, k) |-> Recommended(g, g.edges[e])]]

\* buildRepairPlanForNodeKindChange(): a page becomes a step, after its relations, of which
\* a page may have none, are removed.
RepairPlan(g, n, k) ==
    LET h == WithPatch(g, n, [kind |-> k])
    IN  [fallback |-> k = "page",
         edges |-> [e \in BrokenBy(g, n, k) |-> Recommended(h, h.edges[e])]]

\* validateNodeKindChange(): with the label and the data that the node has now.
KindChangeIsFree(g, c) ==
    c.type = "updateNode" /\ G!HasNode(g, c.id) /\ "kind" \in DOMAIN c.patch
      /\ c.patch.kind # Content(g, c.id).kind
      => c.patch.kind # "page" /\ BrokenBy(g, c.id, c.patch.kind) = {}

ServerTakes(g, c) ==
    KindChangeIsFree(g, c) /\ Fits(g, c) /\ G!Enforces(g, Full(g, c))

\* The errors of runGraphAudit(), which are warnings for a technical inspector but for a
\* start that leads nowhere.
AuditErrors(g) ==
    LET leadsOn(n) == \E e \in EdgeIds : /\ G!HasEdge(g, e)
                                         /\ g.edges[e].source = n
                                         /\ g.edges[e].kind \in MainKinds
    IN  {n \in NodeIds : /\ G!HasNode(g, n)
                         /\ \/ RoleOf(Content(g, n)) = "flow-start" /\ ~leadsOn(n)
                            \/ ~session.technical /\ Content(g, n).kind = "page"}
        \cup IF session.technical THEN {} ELSE Broken(g)

-----------------------------------------------------------------------------
(* The tab                                                                 *)

Init ==
    /\ server \in Starts
    /\ canvas = Normalized(server)
    /\ queue = <<>>
    /\ alone = TRUE
    /\ pending = None
    /\ paste = None
    /\ session \in Sessions
    /\ writes = 0

\* The dialog of a repair covers the editor.
Ask == pending = None /\ writes < MaxWrites /\ writes' = writes + 1

\* Ids that nothing has or had in the tab, in some order.
Used == {n \in NodeIds \cup EdgeIds :
           \/ \E g \in {server, canvas} :
                \/ n \in NodeIds /\ G!HasNode(g, n)
                \/ n \in EdgeIds /\ G!HasEdge(g, n)
           \/ \E i \in DOMAIN queue : queue[i].id = n
           \/ paste # None /\ \E i \in DOMAIN paste.commands : paste.commands[i].id = n}
FreshIn(S) == SetToSeq(S \ (Used \cup {MadeUp}))

\* applyLocalCommandAndQueue(), for each of s.
Locally(s) ==
    LET x == Fitting(canvas, s)
    IN  canvas' = x.graph /\ queue' = queue \o x.done

\* Mutant: the relation is made as the action has it.
ConnectingAsOffered(g, source, n, kind) == <<AddEdge(Head(FreshIn(EdgeIds)), source, n, kind)>>

\* tryCreateEdgeWithSemanticRules(): the relation to a node that was inserted, of the
\* recommended kind rather than of the action's; none if the rules allow none.
Connecting(g, source, n, kind) ==
    LET best == Recommended(g, [source |-> source, target |-> n])
        allowed == KindsBetween(RoleOf(Content(g, source)), RoleOf(Content(g, n)))
        k == IF kind \in allowed /\ session.technical THEN kind ELSE best
    IN  IF allowed = {} THEN <<>> ELSE <<AddEdge(Head(FreshIn(EdgeIds)), source, n, k)>>

\* insertNodeFromDraft()
Insert(content, source, kind) ==
    /\ FreshIn(NodeIds) # <<>> /\ FreshIn(EdgeIds) # <<>>
    /\ LET n == Head(FreshIn(NodeIds))
           g == After(canvas, AddNode(n, content))
       IN  Locally(<<AddNode(n, content)>> \o
                   IF source = None THEN <<>> ELSE Connecting(g, source, n, kind))

\* resolveProcessNodeRole(): a page counts by its label.
ShownRole(c) == IF c.kind = "page" THEN Infers[c.label] ELSE RoleOf(c)

\* What a note stands by, itself if nothing.
Hosts(n) ==
    LET ends == {<<canvas.edges[e].source, canvas.edges[e].target>> :
                   e \in {x \in EdgeIds : /\ G!Incident(canvas, x, n)
                                          /\ canvas.edges[x].kind = "references"}}
        others == {IF p[1] = n THEN p[2] ELSE p[1] : p \in ends}
    IN  IF ShownRole(Content(canvas, n)) # "flow-note" \/ others = {} THEN {n} ELSE others

\* resolveProcessSelectionQuickActions(), the first of them first.
Offers(role) ==
    LET offer(r, k) == [role |-> r, kind |-> k]
        note == offer("flow-note", "references")
    IN  CASE role = "flow-decision" -> <<offer("flow-step", "depends-on"), note>>
          [] role = "flow-end"      -> <<note>>
          [] OTHER -> <<offer("flow-step", "flows-to"), offer("flow-decision", "flows-to"), note>>

OffersAt(n) == Offers(ShownRole(Content(canvas, n)))

OnCanvas == {n \in NodeIds : G!HasNode(canvas, n)}

QuickAction(n) ==
    /\ Ask
    /\ \E host \in Hosts(n) :
         \E i \in DOMAIN OffersAt(host) :
           Insert(Shape(OffersAt(host)[i].role), host, OffersAt(host)[i].kind)
    /\ UNCHANGED <<server, alone, pending, paste, session>>

\* The dialog: any role, and the relation of the first action.
InsertDrafted(role) ==
    /\ Ask
    /\ \/ Insert(Shape(role), None, None)
       \/ \E n \in OnCanvas : \E host \in Hosts(n) :
            Insert(Shape(role), host, Head(OffersAt(host)).kind)
    /\ UNCHANGED <<server, alone, pending, paste, session>>

EditCanvas(c) ==
    /\ Ask
    /\ Fits(canvas, c)
    /\ Locally(<<c>>)
    /\ UNCHANGED <<server, alone, pending, paste, session>>

Rename(n, label) ==
    Content(canvas, n).label # label /\ EditCanvas(PatchNode(n, [label |-> label]))

\* runDirectWrite(): with an empty queue; what the server stores is taken over.
Stored(c) ==
    /\ queue = <<>>
    /\ ServerTakes(server, c)
    /\ server' = After(server, c)
    /\ canvas' = Normalized(server')
    /\ alone' = TRUE
    /\ UNCHANGED <<queue, pending>>

Connect(s, t, k) ==
    /\ Ask
    /\ FreshIn(EdgeIds) # <<>>
    /\ Stored(AddEdge(Head(FreshIn(EdgeIds)), s, t, k))
    /\ UNCHANGED <<paste, session>>

ApplyEdge(e, k) == Ask /\ Stored(Retype(e, k)) /\ UNCHANGED <<paste, session>>

\* The server answers REPAIR_REQUIRED; other refusals change nothing.
OfferRepair(n, patch) ==
    /\ queue = <<>>
    /\ G!HasNode(server, n)
    /\ ~KindChangeIsFree(server, PatchNode(n, patch))
    /\ pending' = [id |-> n, patch |-> patch, plan |-> RepairPlan(server, n, patch.kind)]
    /\ UNCHANGED <<server, canvas, queue, alone>>

\* From the inspector: kind, data and label of the node.
ApplyNode(n, content) ==
    /\ Ask
    /\ content # Content(canvas, n)
    /\ Stored(PatchNode(n, content)) \/ OfferRepair(n, content)
    /\ UNCHANGED <<paste, session>>

\* A role from the inspector brings its kind; a technical one sets the kind alone.
Inspected(n) ==
    LET now == Content(canvas, n)
    IN  IF session.technical THEN {[now EXCEPT !.kind = k] : k \in {"flow-step", "note", "page"}}
        ELSE {[Shape(r) EXCEPT !.label = now.label] : r \in FlowRoles}

\* The repairs of a plan, in the order of the relations; of these, "remove" does those
\* that remove only.
RepairsOf(p, how, order) ==
    LET kept == Kept(order, {e \in DOMAIN p.plan.edges :
                               how = "repair" \/ p.plan.edges[e] = "none"})
    IN  (IF p.plan.fallback THEN <<PatchNode(p.id, [kind |-> "flow-step"])>> ELSE <<>>)
        \o [i \in DOMAIN kept |->
              IF p.plan.edges[kept[i]] = "none" THEN DropEdge(kept[i])
              ELSE Retype(kept[i], p.plan.edges[kept[i]])]

\* handleApplyPendingNodeRepair(): the change first, which closes the dialog, then the
\* repairs.
ConfirmRepair(how) ==
    /\ pending # None
    /\ Fits(canvas, PatchNode(pending.id, pending.patch))
    /\ \E order \in SetToSeqs(DOMAIN pending.plan.edges) :
         Locally(By("repair", <<PatchNode(pending.id, pending.patch)>>
                              \o RepairsOf(pending, how, order)))
    /\ pending' = None
    /\ UNCHANGED <<server, alone, paste, session, writes>>

CancelRepair ==
    /\ pending # None
    /\ pending' = None
    /\ UNCHANGED <<server, canvas, queue, alone, paste, session, writes>>

-----------------------------------------------------------------------------
(* Copies                                                                  *)

CopyContent(n) == [Content(canvas, n) EXCEPT !.label = CopyOf[@]]

\* buildClipboardCommandsDraft(): a node, or a relation with its ends; the relation of a
\* node to itself gets two copies of it and joins the second to itself.
CopiesOfNode(n) == <<AddNode(Head(FreshIn(NodeIds)), CopyContent(n))>>
CopiesOfEdge(e) ==
    LET edge == canvas.edges[e]
        ids == FreshIn(NodeIds)
        source == IF edge.source = edge.target THEN ids[2] ELSE ids[1]
    IN  <<AddNode(ids[1], CopyContent(edge.source)), AddNode(ids[2], CopyContent(edge.target)),
          AddEdge(Head(FreshIn(EdgeIds)), source, ids[2], edge.kind)>>

\* validateClipboardDraftOnServer(): the canvas with the copies has errors.
Blocks(s) == AuditErrors(Fitting(canvas, s).graph) # {}

AskPaste(s) ==
    /\ Ask
    /\ paste = None
    /\ paste' = [commands |-> By("paste", s), blocked |-> Blocks(s), filtered |-> FALSE]
    /\ UNCHANGED <<server, canvas, queue, alone, pending, session>>

DuplicateNode(n) == FreshIn(NodeIds) # <<>> /\ AskPaste(CopiesOfNode(n))
DuplicateEdge(e) ==
    Len(FreshIn(NodeIds)) > 1 /\ FreshIn(EdgeIds) # <<>> /\ AskPaste(CopiesOfEdge(e))

\* filterClipboardEdgesBySemanticRules(): judged among the copies.
AllowedAmong(s, c) ==
    c.type = "addEdge" =>
      LET of(n) == (CHOOSE i \in DOMAIN s : s[i].type = "addNode" /\ s[i].id = n)
          role(n) == RoleOf(s[of(n)].node.role)
      IN  c.edge.kind \in KindsBetween(role(c.edge.source), role(c.edge.target))

\* Without the relations that break the rules the server is asked again, of the canvas as
\* it is by then.
HearPaste ==
    /\ paste # None
    /\ CASE ~paste.blocked -> Locally(paste.commands) /\ paste' = None
         [] paste.blocked /\ session.partial /\ ~paste.filtered ->
              LET kept == Kept(paste.commands, {c \in Range(paste.commands) :
                                                   AllowedAmong(paste.commands, c)})
              IN  /\ paste' = [commands |-> kept, blocked |-> Blocks(kept), filtered |-> TRUE]
                  /\ UNCHANGED <<canvas, queue>>
         [] OTHER -> paste' = None /\ UNCHANGED <<canvas, queue>>
    /\ UNCHANGED <<server, alone, pending, session, writes>>

-----------------------------------------------------------------------------
(* The server and others                                                   *)

\* The head of the queue is stored; one that is refused stays there.
Sync ==
    /\ queue # <<>>
    /\ ServerTakes(server, Head(queue))
    /\ server' = After(server, Head(queue))
    /\ queue' = Tail(queue)
    /\ UNCHANGED <<canvas, alone, pending, paste, session, writes>>

PeerWrites(c) ==
    /\ writes < MaxWrites
    /\ writes' = writes + 1
    /\ ServerTakes(server, c)
    /\ server' = After(server, c)
    /\ alone' = FALSE
    /\ UNCHANGED <<canvas, queue, pending, paste, session>>

Next ==
    \/ \E n \in OnCanvas :
         \/ QuickAction(n)
         \/ EditCanvas(DropNode(n))
         \/ DuplicateNode(n)
         \/ \E label \in Labels : Rename(n, label)
         \/ \E content \in Inspected(n) : ApplyNode(n, content)
         \/ \E t \in OnCanvas, k \in ProcessEdges : Connect(n, t, k)
    \/ \E role \in FlowRoles : InsertDrafted(role)
    \/ \E e \in {x \in EdgeIds : G!HasEdge(canvas, x)} :
         \/ EditCanvas(DropEdge(e))
         \/ DuplicateEdge(e)
         \/ \E k \in ProcessEdges : ApplyEdge(e, k)
    \/ \E how \in {"repair", "remove"} : ConfirmRepair(how)
    \/ CancelRepair
    \/ HearPaste
    \/ Sync
    \/ \E n \in NodeIds : G!HasNode(server, n) /\
         \/ PeerWrites(DropNode(n))
         \/ \E label \in Labels : PeerWrites(PatchNode(n, [label |-> label]))
    \/ \E e \in EdgeIds : PeerWrites(DropEdge(e))

Spec == Init /\ [][Next]_vars

-----------------------------------------------------------------------------

TypeOK ==
    /\ server \in G!Graphs /\ canvas \in G!Graphs
    /\ \A i \in DOMAIN queue : queue[i].by \in {"hand", "repair", "paste"}
    /\ alone \in BOOLEAN
    /\ pending # None => pending.id \in NodeIds /\ DOMAIN pending.plan.edges \subseteq EdgeIds
    /\ session \in [technical : BOOLEAN, partial : BOOLEAN]
    /\ writes \in 0 .. MaxWrites

Stalled == queue # <<>> /\ ~ServerTakes(server, Head(queue))

\* The nodes that c removes or relates.
About(c) == CASE c.type = "addEdge" -> {c.edge.source, c.edge.target}
              [] c.type = "removeNode" -> {c.id}
              [] OTHER -> {}

\* A stored step whose role is that of its label, and of its data in the tab.
Unstated(g, n) ==
    G!HasNode(g, n) /\ Content(g, n).kind = "flow-step" /\ Content(g, n).says = "none"

\* As long as no other tab writes, the server takes what the editor queues: the nodes and
\* the relations of quick actions and of the dialog, whatever roles meet, removals, copies.
\* The queue stops only at a new name, which may change what the node is, at a confirmed
\* repair, at the copy of a technical inspector, for which errors are warnings, at what
\* concerns a start that the tab made up, or at a relation of a step whose stored data state
\* no role: of a new name the server takes the role then, the tab keeps the old one.
StallsHaveACause ==
    alone /\ Stalled =>
      \/ Head(queue).by = "repair"
      \/ Head(queue).by = "hand" /\ Head(queue).type = "updateNode"
      \/ Head(queue).by = "paste" /\ session.technical
      \/ MadeUp \in About(Head(queue))
      \/ Head(queue).type = "addEdge" /\ \E n \in About(Head(queue)) : Unstated(server, n)

\* As it would be after its repair, e repeats another relation.
Repeats(e) ==
    /\ e \in DOMAIN pending.plan.edges /\ G!HasEdge(canvas', e)
    /\ \E f \in EdgeIds \ {e} :
         canvas'.edges[f] = [canvas'.edges[e] EXCEPT !.kind = pending.plan.edges[e]]

\* The plan was made of the roles that the nodes of the tab have with the change.  It is
\* made of the kind that the change gives the node and of the data that the node had.
Foreseen ==
    LET h == WithPatch(server, pending.id, [kind |-> pending.patch.kind])
        g == WithPatch(canvas, pending.id, pending.patch)
    IN  \A n \in NodeIds :
          G!HasNode(h, n) => RoleOf(Content(h, n)) = RoleOf(Content(g, n))

\* On the canvas, a confirmed repair leaves no relation broken by the change it repairs,
\* but one whose repair would make it the same as another.
RepairsHeal ==
    ConfirmRepair("repair") /\ alone /\ Foreseen =>
      \A e \in Broken(canvas') \ Broken(canvas) : Repeats(e)

\* The server takes what a confirmed repair queues.
ConfirmedRepairIsStored == alone /\ Stalled => Head(queue).by # "repair"

=============================================================================
