-------------------------- MODULE MCSemanticPolicy --------------------------
(* Requests and first rows for TLC: two commands that are each right and     *)
(* wrong together, a batch of both, whole snapshots, commands nobody judges  *)
(* (a node of a foreign kind, the removal of the only path out of the start) *)
(* and patches, one of them of the type of the diagram.                      *)
EXTENDS SemanticPolicy

CONSTANTS tree, edge, kind, odd, start, path, table, r1, r2, r3

MCTypes == {flow, tree, erd, unset}
MCMarks == {edge, kind, odd, start, path, table}
MCEdges == {edge, path}
MCRules == {[type |-> flow, shows |-> {edge, kind}, lacks |-> {}],
            [type |-> flow, shows |-> {odd}, lacks |-> {}],
            [type |-> flow, shows |-> {start}, lacks |-> {path}],
            [type |-> tree, shows |-> {edge}, lacks |-> {}]}
MCDrawn == [c \in SUBSET MCMarks |-> IF table \in c THEN erd ELSE flow]

Add(m) == [add |-> {m}, drop |-> {}]
Do(what, main, data) == [does |-> what, main |-> main, data |-> data]
AddEdge == Do("addEdge", Add(edge), NoChange)
SetKind == Do("updateNode", Add(kind), NoChange)
SetData == Do("updateNode", NoChange, Add(kind))
SetKindAndData == Do("updateNode", Add(odd), Add(kind))
AddNode == Do("addNode", Add(odd), NoChange)
Remove(m) == Do("remove", [add |-> {}, drop |-> {m}], NoChange)

NoPatch == [f \in {} |-> TRUE]
Blank == [kind |-> "command", commands |-> <<>>, content |-> {}, patch |-> NoPatch,
          override |-> FALSE, reason |-> FALSE, guarded |-> TRUE, repair |-> FALSE]

Guarded == [Blank EXCEPT !.commands = <<AddEdge>>, !.repair = TRUE]
Unguarded == [Blank EXCEPT !.commands = <<SetKind>>, !.guarded = FALSE]
Forced == [Blank EXCEPT !.commands = <<SetKind>>, !.override = TRUE]
Both == [Blank EXCEPT !.commands = <<AddEdge, SetKind>>, !.override = TRUE, !.reason = TRUE]
Repair == [Blank EXCEPT !.commands = <<Remove(kind), AddEdge>>, !.repair = TRUE,
                        !.guarded = FALSE]
Relabel == [Blank EXCEPT !.commands = <<SetData>>]
Convert == [Blank EXCEPT !.commands = <<SetKindAndData>>, !.override = TRUE, !.reason = TRUE]
Foreign == [Blank EXCEPT !.commands = <<AddNode>>]
Cut == [Blank EXCEPT !.commands = <<Remove(path)>>, !.guarded = FALSE]
Put == [Blank EXCEPT !.kind = "put", !.guarded = FALSE, !.content = {edge, kind}]
PutTable == [Blank EXCEPT !.kind = "put", !.content = {table}]
Allow == [Blank EXCEPT !.kind = "patch", !.patch = [f \in {"allowTechOverride"} |-> TRUE]]
Loosen == [Blank EXCEPT !.kind = "patch",
             !.patch = [f \in {"strictEnabled", "requireOverrideReason"} |-> FALSE]]
Tighten == [Blank EXCEPT !.kind = "patch", !.patch = [f \in {"strictEnabled"} |-> TRUE]]
Retype == [Blank EXCEPT !.kind = "patch", !.patch = [f \in {"diagramType"} |-> tree]]
View == [Blank EXCEPT !.kind = "view"]
Audit == [Blank EXCEPT !.kind = "audit"]

MCMixes ==
    {[r \in Requests |-> CASE r = r1 -> m[1] [] r = r2 -> m[2] [] OTHER -> m[3]] :
       m \in {<<Guarded, Unguarded, Both>>, <<Guarded, Forced, Allow>>,
              <<Put, Loosen, Allow>>, <<Both, Put, Audit>>, <<Both, Repair, Allow>>,
              <<Forced, Loosen, Repair>>, <<View, Allow, Loosen>>,
              <<Unguarded, Put, Tighten>>, <<Relabel, Guarded, Cut>>,
              <<Convert, Foreign, Allow>>, <<Guarded, Retype, Foreign>>,
              <<PutTable, Put, Relabel>>, <<Retype, Tighten, Convert>>}}

Open == [settings |-> [f \in Fields |-> IF f = "diagramType" THEN flow ELSE TRUE],
         version |-> 3]
Relaxed == [settings |-> [f \in Fields |-> IF f = "diagramType" THEN flow
                                                                ELSE f = "enforceOnServer"],
            version |-> 2]
Untyped == [settings |-> DefaultPolicy(unset).settings, version |-> 1]

MCStarts ==
    {[row |-> [revision |-> 1, content |-> {}], policy |-> None],
     [row |-> [revision |-> 1, content |-> {edge, start, path}], policy |-> Open],
     [row |-> [revision |-> 1, content |-> {}], policy |-> Untyped],
     [row |-> [revision |-> 1, content |-> {}], policy |-> Relaxed]}
=============================================================================
