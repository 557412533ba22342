-------------------------- MODULE MCEditorAutosave --------------------------
(* Sessions of the editor for EditorAutosave.                               *)
EXTENDS EditorAutosave

CONSTANTS e1, e2, d1, p1

Session(edits, direct, peers, actions) ==
    [edits |-> edits, direct |-> direct, peers |-> peers, actions |-> actions]

\* Typing beside another tab, relations and inspector beside it, restores.
MCSessions ==
    {Session({e1, e2}, {}, {p1}, {"save"}),
     Session({e1}, {d1}, {p1}, {}),
     Session({e1}, {}, {}, {"save", "restore"})}

\* Where a node is created, and where a version is restored.
NewNodeSession == {Session({e1}, {}, {}, {"save"})}
RestoreSession == {Session({e1, e2}, {}, {}, {"restore"})}

\* Where a direct write and the Save button meet.
DirectSaveSession == {Session({e1}, {d1}, {}, {"save"})}
=============================================================================
