--------------------------- MODULE MCGraphCommands ---------------------------
(* Diagrams for TLC; view says which one moves.  Flow: two nodes, two edges and *)
(* the rules of processes over three roles.  Process: four nodes, three edges,  *)
(* all roles, what the editor offers.  Entities: two of them, and a third for   *)
(* the conversion of a relation.                                                *)
EXTENDS GraphCommands, TLC

CONSTANTS n1, n2, n3, n4, made, e1, e2, e3, a, b, join, r1, r2, h1, h2,
    Views, Boxes, Arrows, Infers, CopyOf, MadeUp, ProcessStarts, Sessions, MaxChanges,
    Entities, Relations, Drawn, JoinOf, HalvesOf, ErdStarts, MaxEdits

VARIABLES view,
    stored, shown, waiting, alone, pending, paste, session, changes,
    diagram, drawn, allowConceptual, audit, stale, edits

Process == INSTANCE ProcessDiagram
             WITH NodeIds <- Boxes, EdgeIds <- Arrows, Starts <- ProcessStarts,
                  MaxWrites <- MaxChanges, None <- Absent, server <- stored,
                  canvas <- shown, queue <- waiting, writes <- changes
Erd == INSTANCE ErdRepairs WITH Starts <- ErdStarts, None <- Absent

ASSUME ProcessAssumption == Process!ConstantsAssumption
ASSUME ErdAssumption == Erd!ConstantsAssumption

flowVars == vars
processVars == <<stored, shown, waiting, alone, pending, paste, session, changes>>
erdVars == <<diagram, drawn, allowConceptual, audit, stale, edits>>

ProcessRules == [s, t \in Roles |-> Process!KindsBetween(s, t)]

Node(r) == [role |-> r, place |-> 1]
Edge(s, t, k) == [source |-> s, target |-> t, kind |-> k]

\* Nothing yet, or two steps with a flow, or a decision that loops and has a note.
MCStarts ==
    {[nodes |-> [n \in NodeIds |-> Absent], edges |-> [e \in EdgeIds |-> Absent]],
     [nodes |-> [n \in NodeIds |-> Node("flow-step")],
      edges |-> [e \in EdgeIds |-> IF e = e1 THEN Edge(n1, n2, "flows-to") ELSE Absent]],
     [nodes |-> [n \in NodeIds |-> Node(IF n = n1 THEN "flow-decision" ELSE "flow-note")],
      edges |-> [e \in EdgeIds |-> IF e = e1 THEN Edge(n1, n2, "references")
                                             ELSE Edge(n1, n1, "depends-on")]]}

Means(kind, says, label) == Node([kind |-> kind, says |-> says, label |-> label])
Step == Means("flow-step", "flow-step", "plain")
Drawing(nodes, edges) ==
    [nodes |-> nodes @@ [n \in Boxes |-> Absent], edges |-> edges @@ [e \in Arrows |-> Absent]]

\* Nothing yet; a start with a step; a decision, by its label, with two ways to a step; a
\* step with a note that was a step; a page of an earlier policy, a note of nothing and a
\* step that asks.
MCProcessStarts ==
    {Drawing(<<>>, <<>>),
     Drawing(n1 :> Means("flow-step", "flow-start", "plain") @@ n2 :> Step,
             e1 :> Edge(n1, n2, "flows-to")),
     Drawing(n1 :> Means("flow-step", "none", "asks") @@ n2 :> Step,
             e1 :> Edge(n1, n2, "flows-to") @@ e2 :> Edge(n1, n2, "depends-on")),
     Drawing(n1 :> Step @@ n2 :> Means("note", "flow-step", "plain"),
             e1 :> Edge(n1, n2, "references")),
     Drawing(n1 :> Means("page", "none", "asks") @@ n2 :> Means("note", "flow-note", "plain")
               @@ n3 :> Means("flow-step", "none", "asks"), <<>>)}

\* A label that ends with a question mark does not any more as that of a copy.
MCInfers == [plain |-> "flow-step", asks |-> "flow-decision"]
MCCopyOf == [plain |-> "plain", asks |-> "plain"]
MCSessions == [technical : BOOLEAN, partial : BOOLEAN]

MCEntities == <<a, b, join>>
MCRelations == <<r1, r2, h1, h2>>
MCJoinOf == r1 :> join
MCHalvesOf == r1 :> <<h1, h2>>

Key(e) == [id |-> [of |-> e, n |-> 1], name |-> Absent, flags |-> {"PK"},
           references |-> Absent, by |-> Absent]
Link(s, t, card) ==
    [source |-> s, target |-> t, card |-> card, is |-> [mode |-> "conceptual"]]
ErdStart(ofA, ofB, links, conceptual) ==
    [diagram |-> [entities |-> a :> ofA @@ b :> ofB @@ join :> Absent,
                  relations |-> links @@ [r \in {r1, r2, h1, h2} |-> Absent]],
     conceptual |-> conceptual]

\* A relation without cardinality; two that depend on b; one of a with itself.
MCErdStarts ==
    {ErdStart(<<>>, <<Key(b)>>, r1 :> Link(a, b, "none"), FALSE),
     ErdStart(<<Key(a)>>, <<Key(b)>>,
              r1 :> Link(a, b, "1:N") @@ r2 :> Link(b, a, "N:1"), TRUE),
     ErdStart(<<>>, <<>>, r1 :> Link(a, a, "N:N") @@ r2 :> Link(a, b, "1:N"), TRUE)}

-----------------------------------------------------------------------------

MCInit ==
    /\ view \in Views
    /\ Init /\ (view # "flow" => server = CHOOSE g \in Starts : TRUE)
    /\ Process!Init
    /\ view # "process" => /\ stored = CHOOSE g \in ProcessStarts : TRUE
                           /\ session = CHOOSE s \in Sessions : TRUE
    /\ Erd!Init /\ (view # "erd" => diagram = (CHOOSE s \in ErdStarts : TRUE).diagram)

MCNext ==
    \/ view = "flow" /\ Next /\ UNCHANGED <<view, processVars, erdVars>>
    \/ view = "process" /\ Process!Next /\ UNCHANGED <<view, flowVars, erdVars>>
    \/ view = "erd" /\ Erd!Next /\ UNCHANGED <<view, flowVars, processVars>>

MCSpec == MCInit /\ [][MCNext]_<<view, flowVars, processVars, erdVars>>

\* As long as no other tab writes, the server takes what the editor queues of a process,
\* but new names, confirmed repairs, technical copies, what is about a start that the tab
\* made up, and relations of a step whose stored data state no role
\* (tryCreateEdgeWithSemanticRules, filterClipboardEdgesBySemanticRules and
\* normalizeDiagramSnapshot against enforceCommandSemantics).
EditorAndServerAgree == Process!TypeOK /\ Process!StallsHaveACause

\* On the canvas, the repair of a change of kind leaves no relation broken by it but one
\* that would repeat another, if it was planned with the roles that the nodes of the canvas
\* have with the change (buildRepairPlanForNodeKindChange, handleApplyPendingNodeRepair).
ProcessRepairsHeal == [][view = "process" => Process!RepairsHeal]_processVars

\* A confirmed repair is stored.  src/messages/en-US.json:869 offers to apply and
\* repair; the server refuses the change of kind, which is queued before its repairs.
ConfirmedRepairIsStored == Process!ConfirmedRepairIsStored

\* The editor's state keeps its types, and a materialized relation names the same entities
\* by its side as by their ids (flipErdRelationPayloadDirection, buildMaterializeFkFix).
ErdSidesNameEntities == Erd!TypeOK /\ Erd!SidesNameEntities

\* A safe repair resolves what it was offered for, breaks nothing else and takes no field
\* away but those added since the audit it is from; all repairs together resolve those that
\* do not meet, report those that do, and leave fewer; the direction of a relation does not
\* matter (autofix.ts, validate.ts).
ErdRepairsHold ==
    [][view = "erd" => /\ Erd!RepairsHeal
                       /\ Erd!BatchesProgress
                       /\ Erd!SwapsAreNeutral
                       /\ Erd!RepairsKeepFields]_erdVars
==============================================================================
