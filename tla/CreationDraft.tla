--------------------------- MODULE CreationDraft ---------------------------
(***************************************************************************)
(* The creation assistant of one project: tabs that edit a draft, save it  *)
(* under the version they know and apply it; and the handlers that find a  *)
(* row, then write it, call by call and without a transaction.             *)
(*                                                                         *)
(* A draft is the set of edits it holds.  A handler goes on when its       *)
(* sender has given up.  Access checks and redaction are left out, and     *)
(* what the editor does to the map later (WorkingSnapshot).                *)
(***************************************************************************)
EXTENDS Naturals, FiniteSets

CONSTANTS
    Tabs,
    Edits,         \* what a user can fill in
    Fills,         \* Fills[t]: what the user of tab t fills in
    Calls,         \* bound: the requests of clients other than the tabs
    Required,      \* what the strict validation of the recipe asks for
    Budget,        \* bound: requests, failing database calls and lost answers together
    None

Drafts == SUBSET Edits
Ids == 1 .. Budget
Rows == [version : Nat, content : Drafts]

ASSUME NoneAssumption == None \notin Rows
ASSUME RequiredAssumption == Required \subseteq Edits /\ Required # {}
ASSUME FillsAssumption == Fills \in [Tabs -> Drafts]
ASSUME CallsAssumption ==
    Calls \subseteq [kind : {"create", "save", "apply", "applyStored"}, content : Drafts,
                     withMap : BOOLEAN]
ASSUME BudgetAssumption == Budget \in Nat

VARIABLES
    draft,     \* project_creation_drafts: a row or None
    applied,   \* project_creation_settings: a row or None
    meta,      \* the draft the project's name and template come from, {} at first
    map,       \* the working snapshot, built from a draft, or None
    torn,      \* history: an apply failed midway or met another one
    mapless,   \* history: the last apply to start was asked for no initial map
    failures,  \* failed calls and lost answers so far
    req,       \* req[i]: the i-th request and how far its handler is
    open,      \* open[t]: the assistant is open in t
    form,      \* form[t]: the draft t shows
    known,     \* known[t]: draftVersion, 0 if unknown
    saw,       \* history: the content t saw under that version
    waiting    \* waiting[t]: the request t waits for, or 0

tables == <<draft, applied, meta, map, torn, mapless, failures>>
tabs == <<open, form, known, saw, waiting>>
vars == <<tables, req, tabs>>

Kinds == {"none", "create", "save", "apply", "applyStored"}
Steps == {"unsent", "check", "find", "write", "meta", "findApplied", "writeApplied",
          "map", "done"}
Answers == {"none", "ok", "conflict", "invalid", "error"}
Request == [kind : Kinds, content : Drafts, expected : Nat, withMap : BOOLEAN, pc : Steps,
            read : Nat, answer : Answers, version : Nat, basis : Drafts, current : Nat]
NoRequest == [kind |-> "none", content |-> {}, expected |-> 0, withMap |-> FALSE,
              pc |-> "unsent", read |-> 0, answer |-> "none", version |-> 0,
              basis |-> {}, current |-> 0]

TypeOK ==
    /\ draft \in Rows \cup {None} /\ applied \in Rows \cup {None}
    /\ map \in Rows \cup {None} /\ meta \in Drafts
    /\ torn \in BOOLEAN /\ mapless \in BOOLEAN /\ failures \in 0 .. Budget
    /\ req \in [Ids -> Request]
    /\ open \in [Tabs -> BOOLEAN]
    /\ form \in [Tabs -> Drafts] /\ saw \in [Tabs -> Drafts]
    /\ known \in [Tabs -> Nat]
    /\ waiting \in [Tabs -> Ids \cup {0}]

VersionOf(row) == IF row = None THEN 0 ELSE row.version
ContentOf(row) == IF row = None THEN {} ELSE row.content
Valid(content) == Required \subseteq content

\* An apply is past its first write to the project, and its last one is still to come;
\* a creation begins with that write.
Applying(i) ==
    \/ req[i].pc \in {"findApplied", "writeApplied", "map"}
    \/ req[i].kind = "create" /\ req[i].pc \in {"find", "write"}

Init ==
    /\ draft = None /\ applied = None /\ map = None /\ meta = {}
    /\ torn = FALSE /\ mapless = FALSE /\ failures = 0
    /\ req = [i \in Ids |-> NoRequest]
    /\ open = [t \in Tabs |-> FALSE]
    /\ form = [t \in Tabs |-> {}] /\ saw = [t \in Tabs |-> {}]
    /\ known = [t \in Tabs |-> 0]
    /\ waiting = [t \in Tabs |-> 0]

-----------------------------------------------------------------------------
(* The tabs.                                                               *)

\* The assistant opens on the stored draft.
Open(t) ==
    /\ ~open[t]
    /\ open' = [open EXCEPT ![t] = TRUE]
    /\ form' = [form EXCEPT ![t] = ContentOf(draft)]
    /\ known' = [known EXCEPT ![t] = VersionOf(draft)]
    /\ saw' = [saw EXCEPT ![t] = ContentOf(draft)]
    /\ UNCHANGED <<tables, req, waiting>>

\* Fields stay editable while a request is under way.
Edit(t, e) ==
    /\ open[t] /\ e \in Fills[t] \ form[t]
    /\ form' = [form EXCEPT ![t] = @ \cup {e}]
    /\ UNCHANGED <<tables, req, open, known, saw, waiting>>

Sent == {i \in Ids : req[i].kind # "none"}
InBudget == Cardinality(Sent) + failures < Budget
NextRequest(i) == InBudget /\ i = Cardinality(Sent) + 1

\* persistDraft() and finishCreation(): only a save names a version, if it knows one.
Send(t, kind) ==
    /\ open[t] /\ waiting[t] = 0
    /\ \E i \in Ids :
         /\ NextRequest(i)
         /\ req' = [req EXCEPT ![i] =
              [NoRequest EXCEPT !.kind = kind, !.content = form[t], !.basis = saw[t],
                                !.expected = IF kind = "save" THEN known[t] ELSE 0,
                                !.current = VersionOf(draft), !.withMap = kind = "apply",
                                !.pc = IF kind = "save" THEN "find" ELSE "check"]]
         /\ waiting' = [waiting EXCEPT ![t] = i]
    /\ UNCHANGED <<tables, open, form, known, saw>>

\* The assistant creates the project, from a draft that no strict validation has seen:
\* its name and template are in place before the handler writes the draft.
Create(call) ==
    /\ call.kind = "create"
    /\ Sent = {} /\ \A t \in Tabs : ~open[t]
    /\ \E i \in Ids :
         /\ NextRequest(i)
         /\ req' = [req EXCEPT ![i] =
              [NoRequest EXCEPT !.kind = "create", !.content = call.content,
                                !.withMap = TRUE, !.pc = "find"]]
    /\ meta' = call.content
    /\ UNCHANGED <<draft, applied, map, torn, mapless, failures, tabs>>

\* The older routes and other clients: the wizard's draft names no version, and an apply
\* takes the stored draft or brings one, and may ask for no initial map.
Call(call) ==
    /\ call.kind # "create"
    /\ \E i \in Ids :
         /\ NextRequest(i)
         /\ req' = [req EXCEPT ![i] =
              [NoRequest EXCEPT !.kind = call.kind, !.content = call.content,
                                !.withMap = call.withMap,
                                !.pc = IF call.kind = "save" THEN "find" ELSE "check"]]
    /\ UNCHANGED <<tables, tabs>>

Mine(t) == req[waiting[t]]

HearSaved(t) ==
    /\ Mine(t).kind = "save" /\ Mine(t).answer = "ok"
    /\ known' = [known EXCEPT ![t] = Mine(t).version]
    /\ saw' = [saw EXCEPT ![t] = Mine(t).content]
    /\ UNCHANGED <<open, form>>

\* The server's draft takes the place of the form.
HearConflict(t) ==
    /\ Mine(t).answer = "conflict"
    /\ form' = [form EXCEPT ![t] = Mine(t).content]
    /\ known' = [known EXCEPT ![t] = Mine(t).version]
    /\ saw' = [saw EXCEPT ![t] = Mine(t).content]
    /\ UNCHANGED open

\* The browser goes on to the editor.
HearApplied(t) ==
    /\ Mine(t).kind # "save" /\ Mine(t).answer = "ok"
    /\ open' = [open EXCEPT ![t] = FALSE]
    /\ form' = [form EXCEPT ![t] = {}]
    /\ known' = [known EXCEPT ![t] = 0]
    /\ saw' = [saw EXCEPT ![t] = {}]

HearError(t) ==
    /\ Mine(t).answer \in {"invalid", "error"}
    /\ UNCHANGED <<open, form, known, saw>>

Hear(t) ==
    /\ waiting[t] # 0 /\ Mine(t).pc = "done"
    /\ HearSaved(t) \/ HearConflict(t) \/ HearApplied(t) \/ HearError(t)
    /\ waiting' = [waiting EXCEPT ![t] = 0]
    /\ UNCHANGED <<tables, req>>

\* fetch() fails; the handler does not notice.
GiveUp(t) ==
    /\ InBudget /\ waiting[t] # 0
    /\ failures' = failures + 1
    /\ waiting' = [waiting EXCEPT ![t] = 0]
    /\ UNCHANGED <<draft, applied, meta, map, torn, mapless, req, open, form, known, saw>>

-----------------------------------------------------------------------------
(* The handlers.                                                           *)

Goto(i, step) == req' = [req EXCEPT ![i].pc = step, ![i].read = 0]

Answer(i, what) ==
    req' = [req EXCEPT ![i].pc = "done", ![i].answer = what, ![i].read = 0]

\* applyCreationToProject(): the draft of the request, or the stored one, has to
\* pass the strict validation of its recipe before anything is written.
Check(i) ==
    /\ req[i].pc = "check"
    /\ \/ /\ req[i].kind = "applyStored" /\ draft = None
          /\ Answer(i, "error")
       \/ /\ req[i].kind = "applyStored" /\ draft # None
          /\ IF Valid(draft.content)
               THEN req' = [req EXCEPT ![i].pc = "meta", ![i].content = draft.content]
               ELSE Answer(i, "invalid")
       \/ /\ req[i].kind = "apply"
          /\ IF Valid(req[i].content) THEN Goto(i, "find") ELSE Answer(i, "invalid")
    /\ UNCHANGED <<tables, tabs>>

\* Fault: versions are not compared.
FindUnguarded(i) ==
    /\ req[i].pc = "find"
    /\ req' = [req EXCEPT ![i].pc = "write", ![i].read = VersionOf(draft)]
    /\ UNCHANGED <<tables, tabs>>

\* saveDraftByProjectId() reads the row and compares versions ...
Find(i) ==
    /\ req[i].pc = "find"
    /\ IF draft # None /\ req[i].expected \notin {0, VersionOf(draft)}
         THEN req' = [req EXCEPT ![i].pc = "done", ![i].answer = "conflict",
                                 ![i].content = draft.content,
                                 ![i].version = draft.version]
         ELSE req' = [req EXCEPT ![i].pc = "write", ![i].read = VersionOf(draft)]
    /\ UNCHANGED <<tables, tabs>>

\* Fault: the row that comes back has only the columns selected.
WrittenSelected(row, content) == [version |-> VersionOf(row) + 1]

\* The row after a write of content.
Written(row, content) == [version |-> VersionOf(row) + 1, content |-> content]

\* A save ends with the draft, an apply goes on to the project, a creation has made it.
AfterDraft(kind) ==
    IF kind = "save" THEN "done" ELSE IF kind = "create" THEN "findApplied" ELSE "meta"

\* Fault: an apply keeps the version of the draft it replaces.
WriteApplyUnversioned(i) ==
    /\ req[i].pc = "write"
    /\ \/ /\ req[i].read # 0 \/ draft = None
          /\ draft' = IF req[i].kind = "apply" /\ draft # None
                        THEN [draft EXCEPT !.content = req[i].content]
                        ELSE Written(draft, req[i].content)
          /\ req' = [req EXCEPT ![i].version = draft'.version, ![i].read = 0,
                       ![i].pc = AfterDraft(req[i].kind),
                       ![i].answer = IF req[i].kind = "save" THEN "ok" ELSE @]
          /\ UNCHANGED torn
       \/ /\ req[i].read = 0 /\ draft # None
          /\ Answer(i, "error")
          /\ torn' = (torn \/ Applying(i))
          /\ UNCHANGED draft
    /\ UNCHANGED <<applied, meta, map, mapless, failures, tabs>>

\* ... then updates it whatever it has become, or inserts it under a unique key.
Write(i) ==
    /\ req[i].pc = "write"
    /\ \/ /\ req[i].read # 0 \/ draft = None
          /\ draft' = Written(draft, req[i].content)
          /\ req' = [req EXCEPT ![i].version = draft'.version, ![i].read = 0,
                       ![i].pc = AfterDraft(req[i].kind),
                       ![i].answer = IF req[i].kind = "save" THEN "ok" ELSE @]
          /\ UNCHANGED torn
       \/ /\ req[i].read = 0 /\ draft # None
          /\ Answer(i, "error")
          /\ torn' = (torn \/ Applying(i))
          /\ UNCHANGED draft
    /\ UNCHANGED <<applied, meta, map, mapless, failures, tabs>>

\* An apply that starts to write alone will have written everything.
Meta(i) ==
    /\ req[i].pc = "meta"
    /\ meta' = req[i].content
    /\ torn' = \E j \in Ids \ {i} : Applying(j)
    /\ mapless' = ~req[i].withMap
    /\ Goto(i, "findApplied")
    /\ UNCHANGED <<draft, applied, map, failures, tabs>>

FindApplied(i) ==
    /\ req[i].pc = "findApplied"
    /\ req' = [req EXCEPT ![i].pc = "writeApplied", ![i].read = VersionOf(applied)]
    /\ UNCHANGED <<tables, tabs>>

\* The initial map, if one is asked for, comes last.
AfterSettings(i) ==
    \/ req[i].withMap /\ Goto(i, "map")
    \/ ~req[i].withMap /\ Answer(i, "ok")

\* Fault: settings that exist are kept.
WriteAppliedOnce(i) ==
    /\ req[i].pc = "writeApplied"
    /\ applied' = IF applied = None THEN Written(applied, req[i].content) ELSE applied
    /\ AfterSettings(i)
    /\ UNCHANGED <<draft, meta, map, torn, mapless, failures, tabs>>

WriteApplied(i) ==
    /\ req[i].pc = "writeApplied"
    /\ \/ /\ req[i].read # 0 \/ applied = None
          /\ applied' = Written(applied, req[i].content)
          /\ AfterSettings(i)
          /\ UNCHANGED torn
       \/ /\ req[i].read = 0 /\ applied # None
          /\ Answer(i, "error")
          /\ torn' = TRUE
          /\ UNCHANGED applied
    /\ UNCHANGED <<draft, meta, map, mapless, failures, tabs>>

\* The initial map replaces the working snapshot, under no revision.
SaveMap(i) ==
    /\ req[i].pc = "map"
    /\ map' = Written(map, req[i].content)
    /\ Answer(i, "ok")
    /\ UNCHANGED <<draft, applied, meta, torn, mapless, failures, tabs>>

\* A database call fails: what was written before stays.
CallFails(i) ==
    /\ InBudget
    /\ req[i].pc \notin {"unsent", "done"}
    /\ failures' = failures + 1
    /\ torn' = (torn \/ Applying(i))
    /\ Answer(i, "error")
    /\ UNCHANGED <<draft, applied, meta, map, mapless, tabs>>

-----------------------------------------------------------------------------

Serve(i) ==
    \/ Check(i) \/ Find(i) \/ Write(i)
    \/ Meta(i) \/ FindApplied(i) \/ WriteApplied(i) \/ SaveMap(i)

Next ==
    \/ \E t \in Tabs :
         \/ Open(t) \/ Hear(t) \/ GiveUp(t)
         \/ \E e \in Edits : Edit(t, e)
         \/ \E kind \in {"save", "apply"} : Send(t, kind)
    \/ \E call \in Calls : Create(call) \/ Call(call)
    \/ \E i \in Ids : Serve(i) \/ CallFails(i)

Spec == Init /\ [][Next]_vars

\* Handlers run and answers arrive.
Fairness ==
    /\ \A i \in Ids : WF_vars(Serve(i))
    /\ \A t \in Tabs : WF_vars(Hear(t))

FairSpec == Spec /\ Fairness

-----------------------------------------------------------------------------

\* A version stands for one content: a tab whose version is the stored one has seen
\* exactly what is stored, though applies and saves without a version come between.
KnownVersionIsKnownContent ==
    \A t \in Tabs : draft # None /\ known[t] = draft.version => saw[t] = draft.content

\* A save under a version drops from the draft only what its tab had seen, unless somebody
\* writes between its handler's reading and its writing: saveDraftByProjectId() compares
\* versions at the first of these two calls.
GuardedSaveDropsOnlyWhatItSaw ==
    [][\A i \in Ids :
         /\ req[i].pc = "write" /\ draft' # draft /\ req'[i].pc = "done"
         /\ req[i].expected # 0 /\ req[i].read = VersionOf(draft)
         => ContentOf(draft) \ ContentOf(draft') \subseteq req[i].basis]_vars

\* A save under a version that was already old when it was sent is never stored.
StaleSavesAreRefused ==
    \A i \in Ids :
      req[i].kind = "save" /\ req[i].answer = "ok" /\ req[i].expected # 0 =>
        req[i].expected = req[i].current

\* What the project was created from, without a strict validation.
FromCreation(content) == \E i \in Ids : req[i].kind = "create" /\ req[i].content = content

\* What fails the strict validation is only ever what the project was created from: no
\* apply brings it in.
OnlyValidIsApplied ==
    LET Allowed(content) == Valid(content) \/ FromCreation(content)
    IN  /\ applied # None => Allowed(applied.content)
        /\ map # None => Allowed(map.content)
        /\ meta # {} => Allowed(meta)

\* Once an apply has run to its end with no other one in its way, the project's
\* metadata and its settings come from one draft, and so does its map if the apply was
\* to make one; whatever failed before.
ProjectAgrees ==
    ~torn /\ applied # None /\ (\A i \in Ids : ~Applying(i)) =>
      /\ meta = applied.content
      /\ mapless \/ ContentOf(map) = applied.content

\* What a tab knows by a version is what is stored under it, and a save under an old
\* version is refused (saveDraftByProjectId, persistDraft).
VersionsAreContents == KnownVersionIsKnownContent /\ StaleSavesAreRefused

\* Only a complete draft reaches a project that exists, and what reaches a project comes
\* from one draft (applyCreationToProject, CreateProjectWithAssistantUseCase).
ProjectIsOneDraft == OnlyValidIsApplied /\ ProjectAgrees

AtRest == (\A i \in Sent : req[i].pc = "done") /\ (\A t \in Tabs : waiting[t] = 0)

\* Every request ends, and no tab stays busy: of the Budget requests there are at most,
\* none is left in the end.
EveryRequestEnds == ~AtRest ~> AtRest

=============================================================================
