# MapIA in TLA+

MapIA is a collaborative diagram editor: a Next.js server that keeps one working
snapshot (a graph) per project in PostgreSQL, an editor in the browser that edits the
graph on its canvas and saves it in the background, and around them workspaces with
roles, a semantic policy that judges diagrams, snapshot versions, a creation assistant
and telemetry. This directory models the parts where interleaving, lost answers and
stale state decide whether a user's work survives, checks them with TLC and proves the
main results with TLAPS.

## 1. The system

| part | state | operations | what makes it correct |
|---|---|---|---|
| working snapshot storage (`graph/infrastructure`) | one `GraphVersion` row: revision, graph | load, save with or without `expectedRevision`, first creation | one writer per revision, truthful answers, no guarded write loses an edit |
| editor server (`editor/application`) | none of its own | apply a command or a batch, replace the snapshot; read row, judge, save | a stored graph is well formed and obeys the policy |
| command processor, graph invariants | none (pure) | seven commands, validation of the whole graph | editor and server agree on the result; removal is always possible |
| editor client autosave (`components/editor/shell`) | canvas, queue, revision, debounce timer, badge, refs | edit, flush, Save, retry on conflict, direct writes, first refresh | every edit is stored or queued, in order; the badge does not lie; the queue drains |
| editor client versions | as above | restore beside autosave | revision stays real, no edit lost |
| workspaces and memberships | membership rows with row locks | grant, change, remove | the last owner stays |
| semantic policy | one row per project, event log | find or create, patch, judge | no lost patch, events tell the truth |
| snapshot versions | append-only versions | save, list, restore, compare | restore is a guarded replacement |
| creation assistant | settings row with draft version; client draft sync | save draft, apply draft (project, settings, snapshot) | a version of the draft stands for one content, a half-applied draft does not go unnoticed |
| transition telemetry | sink cooldown, evaluation queue, store mode, retention | insert with timeout, evaluate gate, degrade, clean up | answers true of their rows, nothing skipped without a failure, no evaluation lost |
| OpenTelemetry runtime | process-wide start/shutdown state | start, shut down, reset | one runtime, no start during a shutdown |
| import telemetry adapter | spans and tombstones of runs | start, progress, finish, late events | a finished run does not reopen |
| authentication | readiness cache, user and identity rows | readiness report, first login | no duplicate identity, bounded staleness |
| entity-relationship domain (`erd/domain`, handlers of the editor shell) | the diagram, the tab's and the server's diagnostics | edit, validate, repair one or all | a safe repair repairs, alone, in a batch and late |
| projects | project rows with slugs | create, plain or by the assistant | unique slugs, an owner, one workspace |
| audit log, layout and kinds of diagrams, dashboard, i18n, renderers, scripts | rows or none | single-row operations, pure functions, presentation | not protocol matters |

How they interact: the tab sends commands, whole snapshots, direct writes and restores
over HTTP; every handler reads the row, computes in memory and saves with separate
database calls and no transaction; the revision is the only concurrency control. The
membership repository is the exception: it uses transactions with `SELECT ... FOR
UPDATE`. Inside the tab the handlers share refs that mirror React state one render
late. The behaviours that are hard: interleaved database calls, answers lost or late,
requests handled after their sender gave up, other tabs, timers, deferred state updates,
lock waits and deadlocks. `PROJECT.json` lists each hazard at its line.

## 2. The modules

| module | models | composed with |
|---|---|---|
| `VersionedRegister` | what a snapshot row promises: an atomic versioned register | implemented by `WorkingSnapshot` |
| `WorkingSnapshot` | the row and the database calls of concurrent requests | refinement `ImplementsRegister` |
| `EditorAutosave` | one tab, the network and the server's row | uses the register's atomicity |
| `GraphCommands` | the graph, the commands and the rules on canvas and server | uses the queue's order |
| `ProcessDiagram` | what the editor of a process offers, repairs and copies | uses `GraphCommands`, composed with it in `MCGraphCommands` |
| `ErdRepairs` | an entity-relationship diagram, its diagnostics and repairs | with `GraphCommands` in `MCGraphCommands` |
| `SemanticPolicy` | the policy row, the judgement under it and the event log | uses the register's atomicity |
| `CreationDraft` | the draft of a project: forms in tabs, saves and applications | with `ProjectCreation` in `MCCreation` |
| `ProjectCreation` | workspaces, projects and their slugs | |
| `WorkspaceMembership` | membership transactions and row locks | with `AuthLogin` in `MCAccess` |
| `AuthLogin` | readiness of the storage, users, identities, logins | |
| `TransitionTelemetry` | events, sink, store and gate evaluations | with `ImportTracing` in `MCServer` |
| `ImportTracing` | the OpenTelemetry runtime, the collector and the runs of imports | |
| `MC*` | instances for TLC | |
| `*_proofs` | theorems | |

`MCCreation`, `MCAccess`, `MCServer` and `MCGraphCommands` hold two or three modules each
that share no state. A variable chosen at the start (`area`, `part`, `view`) says which one
moves; the others stand still in one initial state. One run then covers them all, with each
part's own fairness.  Their properties, and the longer ones elsewhere, are conjunctions of named parts,
which a counterexample tells apart.

### WorkingSnapshot

`pc[r]` names the next database call of request `r`; each action is one call of
`PrismaWorkingSnapshotRepository.save()` (`Find`, `Create`, `Cas`, `Latest`, `Reread`,
`Update`) or the read that precedes it (`Load` for commands, `ReadForReplacement` for a
client that sends a whole snapshot). The row's content is the set of requests whose edit
it carries, so a lost edit is a missing member. `Submit...` covers payloads with and
without `expectedRevision`. A row is never deleted, and the unique key on project and
version number makes the second of two concurrent first inserts fail. Any call may reject
or return what cannot be parsed (`CallFails`), and the read after a successful guarded
update may find no row (`Reread`): there the write took effect and the client gets an error.
So an error says nothing of the write (`AnswersAreTruthful`); but of a request that named a
revision it is the one right after that revision or there is none.

### EditorAutosave

The tab's variables are the hooks' state and refs by name (`pendingCommands`,
`currentRevision`, `localMutationVersionRef`, ...). `setState` with an updater runs at
the next render, or at once when no update is pending; so `queueRef` and `revisionRef`
lag behind `queue` and `revision` until `Render`, and the choice between the two paths is
nondeterministic. `call[o]` is the outstanding request of the task (flush or Save), of a
direct write or restore, and of the first refresh; `Handle` is the server, `Respond` the
answer, `Lose` a request or answer lost, `HandleStray` a request that the server handles
after its sender gave up. `OneShot` edits are commands that cannot be applied twice
(adding an element). Another tab commits edits with `PeerCommits`. `session`, chosen at
the start, says which edits there are and whether the user presses Save or restores a
version. `EndFlush` is the end of a flush: its caller (Save, a direct write) goes on if the
queue looks empty, even after a flush that failed because a restore emptied the queue meanwhile.

Where the claims hold. `UserEdits` is all the user did in the tab, queued or written
directly. A restore is meant to drop it, so sessions with restores promise nothing of it
(`NoRestore`). In a session with direct writes and Save the code does lose an edit (run
`editor_direct_save`); `Steady` leaves that mixture out, and with it nothing else.

Abstractions: `Render` happens before the autosave timer fires or the user clicks (a
render takes far less than the one second of the debounce); a save is atomic, which is
what `ImplementsRegister` shows, but the revision of its answer is read later; the
tracker of stale responses is left out because requests are numbered only while no other
save is in flight; a restored version has none of the tab's edits. Not modelled: leaving
the page and its guard, the import from Prisma, inspector drafts, the viewport. The first
refresh arrives once.

### GraphCommands

Graphs are functions from ids to elements or `Absent`. `Accepts` is
`applyEditorCommandToSnapshot()`: the element is found and the whole graph is valid
afterwards; `Enforces` is `enforceCommandSemantics()` for a strict policy of a flow
diagram without override. `Edit` applies to the canvas and queues, `Sync` is the server
taking the head of the queue, `DirectWrite` a change from an inspector, `PeerWrites`
another tab. The tab shows nodes as they are stored, which is so of those whose data state
their role; what it makes of others is in `ProcessDiagram`. The connection rules are a
constant, `Allowed`; the instance gives those of
`resolveProcessConnectionPolicy()`, the proofs hold for any. A role stands for kind,
label and data together. Not modelled: overrides, batches and whole snapshots (their order
is the subject of the two modules above).

### ProcessDiagram

A process diagram as one tab edits it. A node has a kind, the role that its data states and
a label; `RoleOf` is `resolveFlowProcessRole()` over the three (of the kinds a process has; projects,
workspaces and the like have no role), so a new name can change what a node is (`Infers` is the inference from labels,
over two of them). The graph, its
commands and the server's checks are those of `GraphCommands`, instantiated with these
contents; an update is a patch, as in the command schema, and `ServerTakes` adds the check
of a change of kind (`validateNodeKindChange()`), which judges the new kind with the label
and the data that the node has now.

`server` and `canvas` differ even when the queue is empty: whatever the tab takes over it
first normalizes (`Normalized` is `normalizeDiagramSnapshot()`). The data of every step and
note get the role that the tab finds for them (`Stating`), and a diagram without nodes gets
a start under a fixed id (`MadeUp`), which is never stored.

`QuickAction` and `InsertDrafted` are the HUD's actions and the dialog: a node, and a
relation to the selected one or to what the selected note stands by, of the kind that
`tryCreateEdgeWithSemanticRules()` picks. `Rename` and `EditCanvas` go through the queue.
`Connect`, `ApplyEdge` and `ApplyNode` are direct writes with an empty queue; a change of
kind that breaks relations makes the server answer `REPAIR_REQUIRED` (`OfferRepair`), and
`ConfirmRepair` queues the change and then the repairs of `RepairPlan`. `DuplicateNode` and
`DuplicateEdge` ask the server to audit the canvas with the copies (`AuditErrors`);
`HearPaste` applies them, asks again without the relations that break rules among the copies,
or gives up. `session` says whether the inspector is technical, where the errors of the audit
are warnings, and whether partial copies are allowed. A queued command carries who queued it,
which only properties read.

Left out: labels of relations and their suggestions, positions, overrides (their
bookkeeping is in `SemanticPolicy`), the warnings of the audit, cut, and a fragment pasted
from the system's clipboard.

### ErdRepairs

A diagram maps entities to their sequences of fields and relations to their ends,
cardinality and materialization, or to `None`. `Diagnostics` is `validateErdGraphFull()`
and `FixOf` the safe repair of a diagnostic, both functions of a diagram: a repair is a
sequence of commands that carry whole entities, computed on the diagram as it was.
`ApplyAll` applies the commands one by one, refused ones without effect, as
`applyErdEditorCommands()` does on the canvas. `Repair` and `RepairAll` take the tab's own
diagnostics; `Audit`, `Show` and `RepairAudited` are the server's audit, whose answer may
come after edits and then replaces the tab's own until the next change. The other actions
are the handlers of the inspectors and of quick relate. Entities and relations are
sequences because the first match wins in the code; ids drawn at random are the least
unused; the two relations a conversion adds are constants of the relation it replaces, new
and apart (`ConstantsAssumption`). Names are reduced to the question whose foreign key a field would be called like;
types, texts, NOT NULL and INDEX flags and severities play no part in the commands. The
server's copy of the canvas is taken to be the diagram at some earlier moment; the queue in
between is the subject of `EditorAutosave`.

### SemanticPolicy

A graph is a set of marks (an edge of a kind, the kind or the role of a node, a path out
of the start). A rule belongs to a type of diagram and is broken by a graph that shows some
marks and lacks others. The type is the one the policy names, or else the snapshot's own, so a
patch may change the rules (`TypeFor`); those of entity-relationship diagrams are not
enforced here. Each request has the steps of its handler: load the row, find or create the
policy, judge its commands one after the other on the graph as it becomes (`Judged`: pass,
override with an event, or block with an event), save under the revision, log a repair.
`Violated` is what `enforceCommandSemantics()` looks at and no more: new edges and kinds of
edges by their ends, updates of nodes by the new kind or else by the edges of the node, whole
snapshots by the audit. New nodes and removals are not judged, so what they break is stored
under a strict policy without an override; the properties account for it by the command that
brought it. Patches read the policy and write one field more; the find-then-create of two
requests may fail for one of them, and any database call may fail. History variables keep
the policies there were and who stored what. `CreatePolicy` takes the load of the snapshot
that tells a new policy its type and the insert as one step.

### CreationDraft and ProjectCreation

A draft is the set of fields filled in; the row has a version. `Find` and `Write` are the
two calls of `saveDraftByProjectId()`, with the check of the version in the first one only;
an application goes on through `Meta`, `FindApplied`, `WriteApplied` and, if an initial map
was asked for (`withMap`), `SaveMap`, and may fail after any of them. `Create` is
`create-with-assistant`: it stores the draft, the settings and the map of a draft that never
passed the strict validation. `Calls` are the requests of clients other than the tabs: that
creation, saves of the older wizard without a version, and applications of a draft of their own
or of the stored one, with a map or without. A tab's form, the version it knows and what it does at an
answer (`HearSaved`, `HearConflict`, `HearApplied`, `HearError`) follow the hook.
`ProjectCreation` is the way there: look for a workspace, insert one, look for a free
slug, insert the project, fill its draft, settings and map. A user may also ask for a
workspace by any slug, a primary one of another user included. A slug is a sequence of
characters, because cutting it to its length is what one property is about; `Chars`,
`MaxSuffix` and `WorkspaceSlugs` bound the names, a suffix being one character here.
`FindWorkspace` takes a workspace the user owns; the code takes that of any membership, an
invited one included. `SaveProjectCreationSettingsUseCase` is left out: no route calls it.

### WorkspaceMembership and AuthLogin

One transaction per request: check of access (before the transaction), scan of the owner
rows, a lock per row (READ COMMITTED: a row is checked again after the wait, and skipped
if it is gone; a row that is no longer an owner stays locked but is not counted), lock of
the target row if it exists, decision, write. A target without a row has nothing to lock;
its insertion takes over a row that appeared meanwhile (`ON CONFLICT DO UPDATE`).
PostgreSQL itself (locks released at the end, waits, deadlock abort) is external. The
owner rows act as a mutex for all changes, except when the ownership moved to rows the
scan did not see; that is why the instances need four and five transactions.

`AuthLogin` has the tables of users and identities with their unique keys. A login looks
for its identity and updates the linked user, or upserts a user by address and links it;
a rival that linked the subject first wins, or the login fails: the look-up of the rival's user
compares a UUID column with an uncast parameter (`Link`). Only the user store's calls are
here; a membership's form commits its user by a call of its own, so a membership refused
later does leave the user. Writes are seen by others at the commit, a
writer waits for the holder of its row or key. The readiness of the storage is cached,
and `Expire` is the end of its five seconds, which
in the code count from the start of the inspection. A commit whose answer is lost is left out.

### TransitionTelemetry and ImportTracing

An emitted event is a call with a time limit (`TimeOut` may come before the insertion
ends, which then lands or not). A failure makes the sink rest (`ModeAfter`) until
`CoolDown`; a store whose probe finds no table is degraded until the server restarts.
Stored events of some kinds trigger an evaluation of the gate: one at a time, with the
latest signal remembered, holding a lease (a row with a unique key) and ending in a
warning. A late success puts a resting sink back to ready, as the code does. The lease's
key holds a process-local counter, so after a restart it does not exclude an evaluation
of the same interval; no property claims it does. `SilenceHasACause`: the sink skips an
event only after an earlier one failed, or once the store was given up.

`ImportTracing` has the memoised start of the runtime, the collector and its runs: root
span, child spans, summary, tombstone and its eviction. The run id is a function of the
schema, so an import repeated is taken for late records of the first. Two simplifications: a
root span whose start failed is not tried again at the run's next record, and the shutdown
forgets the start in the step in which it shuts down.

## 3. The runs

| run | instance | shows |
|---|---|---|
| `server` | one command, two replacements, row absent or present at the start; two events, two intervals, two failures, one restart; two schemas, one tombstone, four imports (166 000) | one winner per revision, truthful answers and conflicts, guarded writes keep the row, refinement of `VersionedRegister`; events' answers true and final, skipped only after a failure, one evaluation at a time, no signal left, no second row; traces whole, no run left, SDK started once |
| `editor_autosave` | three sessions: two queued edits beside another tab with Save; a queued and a direct edit beside another tab; an edit with Save and restore; one loss, revision up to 3 (470 000) | no edit lost or reordered, badge truthful, queue scheduled and drained |
| `graph_commands` | flow: two nodes, two edges, three roles, three edge kinds, three start graphs, three commands; process: five nodes, of which one made up by the tab, three edges, two labels, five start graphs, one of them empty, four sessions, two changes; entities: two and one by conversion, two relations and the halves of one, three start diagrams, two edits or audits, any number of repairs (166 000) | the stored graph is valid and conforms, removals pass, the canvas is what the queue makes of the server, refusals need another tab's write; the server takes what the editor of a process offers and copies, its repairs of a change of kind leave nothing broken on the canvas; a repair resolves its diagnostic and breaks nothing, a batch makes progress, a swap is neutral, a late repair takes away only fields added since its audit, sides and entities of foreign keys agree |
| `semantic_policy` | three requests in thirteen mixes, four first rows and policies, one failing call (180 000) | violations are accounted for, those of commands that nobody judges included, refusals store nothing, logged repairs were stored, patches are lost only in races, writes are judged under a policy of their time |
| `creation` | two tabs with a complete and an incomplete draft, three requests or failures; calls of other clients: a creation, a save of the wizard, an application of the stored draft without a map; three projects or workspaces of two users, one slug full (1 190 000) | the version a tab knows stands for what it saw, stale saves are refused, only the draft a project was created from may be stored unvalidated, project, settings and map agree unless an application was torn or asked for no map; one workspace per user who asks for none by its slug, no gap in slugs, a lone creation refused only over another user's workspace, creations with room end |
| `access` | four users, four membership changes; two subjects, two addresses, three requests or failures (361 000) | locked changes keep an owner and write what they decided on; answers name the linked user, users are shared only in races; every request ends |

The bounds are enough in the sense that the mechanisms fit: a conflict needs one peer, a
reordering two edits, a late answer one loss, the retry after a conflict one more
revision; the cascade of a removal needs two edges, the change of a role two nodes; three
membership changes suffice for a wait cycle, four to move the ownership after a scan; a
race of drafts needs two saves, and a third request to see its result; a remembered
signal needs an evaluation under way and an event beside it; two repairs that meet need two
relations on one entity, a swap onto an existing pair two relations between the same
entities, and a late repair one edit after an audit; a copy of a loop needs two new nodes and one edge,
the repair of parallel relations two edges, and a change of kind and what is queued after
it two changes. `CHECK_DEADLOCK` is off
because requests, edits and commands are finite and all of them may be done. Elements and
requests are made once; `MaxLost`, `MaxRevision`, `MaxWrites`, `MaxFailures`, `Budget`
and the like bound the rest, and `MaxRevision` stops only the start of further
whole-snapshot or direct writes and restores.

Fairness. `WorkingSnapshot`, `SemanticPolicy`, `GraphCommands`, `ProcessDiagram` and
`ErdRepairs` state safety only and have none. `CreationDraft`, `ProjectCreation`,
`AuthLogin`: each request that was received makes its next call (the server runs every
handler to its end), and a tab hears its answer. `EditorAutosave`: rendering, the timer,
the delivery of answers and the server's handling are weakly fair (browser event loop and
HTTP), and a user who sees an error presses Save; losses, edits and other tabs are not
fair. `WorkspaceMembership`: each transaction makes its next step when it can, and
PostgreSQL aborts one of a deadlock. `TransitionTelemetry`: timers and calls end; events,
failures and restarts are not fair. `AuthLogin!Expire` is the clock.

### Disagreements with the documents

| run | property | what happens |
|---|---|---|
| `editor_lost_answer` | `QueueDrains` | a stored command whose answer was lost is refused on every retry, and Save cannot get past it |
| `editor_restore_race` | `EditAfterRestoreKept` | a restore resets local versions under a flush, whose answer dequeues a newer edit |
| `workspace_ownerless` | `WorkspaceHasOwner` | an insertion decided on "no membership" demotes the user who became the only owner meanwhile |
| `project_slug_loop` | `EveryCreationEnds` | the second project with a name that fills the slug asks for the same slug for ever |
| `confirmed_repair` | `ConfirmedRepairIsStored` | the change of kind whose repair was confirmed is queued before the repairs; the server refuses it again and the queue stops |
| `editor_direct_save` | `NothingLost` | the answer of a direct write takes an edit made meanwhile off the canvas; its flush stores it, and a later Save stores the canvas without it |

The quotes and lines are in `PROJECT.json`. Observed in the models without a run of its
own: a tab that adopts the revision of a conflict without its content lets a later Save
replace another tab's edit; an unchanged schema imported again has the run id of a finished
run, and all its records are dropped as late (the suggested objective of
`src/docs/observability/open-telemetry.md:338` is that none are); Save does not adopt the revision of a conflict and keeps conflicting until a
flush does; a failed restore leaves queued edits without a timer. Two savers of a draft that
name the same version both pass the check, and the later write silently replaces the earlier
(`Find`, `Write`); a project created with the assistant has settings and a map of a draft that
the strict validation has not seen; an application without an initial map leaves none, or the
map of an earlier draft. A new node out of the profile, or the removal of a start's last path,
is stored under a strict policy, unjudged and without an event.

And of processes: in a technical inspector a copied relation that breaks a rule passes the
audit with a warning, is queued and refused; the label of a copy can make it another role
than the original's; a start can never be duplicated, since its copy leads nowhere and
that is an error; the plan for a node that becomes a page removes its relations although it
makes the node a step again; two repaired relations between the same nodes become the
same, the second is refused and stays broken on the canvas (`Repeats`). The start that the
tab makes up for an empty diagram is never stored: what is queued about it (its removal, a
relation to it) is refused and stops the queue. A step stored without a role has the one of
its label on both sides until it is renamed: then the server goes by the new label and the
tab by the role it wrote into the data, which it never sends, so a relation that one allows
the other may refuse (`Unstated`). A repair is planned with the data that the node has
before the change, so that its plan may be for another role than the one the canvas shows
(`Foreseen`).

And of entity-relationship diagrams: a repair from an audit that is older than an edit takes
the field away that the edit added to the same entity; two repairs of one batch that replace
the fields of one entity leave the first one's field or flag out, which the next validation
reports, without a repair for it, except for a lost UNIQUE, which nothing reports; the new
foreign key field of a 1:1 relation is not UNIQUE although the relation says so, and no
diagnostic looks at the field; the repair of a missing primary key reuses one id, so that
after the flag was taken from the field two fields share it and later repairs change both; a
swap onto an existing pair removes the relation and says that it was swapped; the conversion
of a relation of an entity with itself keeps one of its two halves; quick relate on an
existing pair leaves a foreign key field without a relation.

## 4. The proofs

Proved for every value of the constants that satisfies the modules' assumptions.

`WorkingSnapshot_proofs`. The inductive invariant joins types, what the requests
remember (`MemoryInv`: no revision a request knows or read is ahead of the row, and a
row read at the row's revision is the row), what the next call says of the past
(`PhaseInv`: who has not committed, whose revision is already known to be old),
the history (`HistoryInv`: a revision is the work of one request, and a write that names
a revision makes the next one) and the two properties of answers, which the other parts
alone do not give because an answer is read after the write. Theorems: `TypeCorrect`,
`TruthfulAnswers`, `ConflictProgress`, `OneWinner`, `NoGuardedLoss` and `Refinement`.

`EditorAutosave_proofs`. The invariant has three layers. `Typed` are the types, the
numbering of edits and revisions and the shape of each request, with what its sender
remembers of the tab. `Lined`, for sessions without restores, follows the queue: its
versions ascend, the task's batch is the queue's head or has been overtaken, what a flush
has acknowledged is gone from the queue, and a queued edit has a timer, a task or the
error badge; `QueueAlwaysScheduled` needs it because each of the three is cleared by an
action that must then leave another. `Kept`, for `Steady` sessions, ties the requests to
the row: what the queue no longer has is in the row, every request on its way, a stray one
included, carries nothing that would take an edit out of the row under the revision it
names, and a canvas about to be stored shows what the row has. None of the three parts of
that is inductive alone: a stray replacement is harmless only because its revision is old,
and that it is old only follows from what its sender knew. That `Put`'s filter never removes
a later edit from the queue (`WithoutFirst`) and the unfolding of the recursive function
`Without` are proved by the least counterexample (`LeastElement`). Theorems: `TypeCorrect`,
`QueueAlwaysScheduled`, `NoEditIsLost`, `SavedIsTrue`, `OrderIsKept`, `NothingIsTakenBack`.

`MCGraphCommands_proofs`. Conformance alone is not inductive: that a new node cannot make
an old edge conform or not needs the edges to end at nodes. The invariant is types,
`Valid` and `Conforms` of the server's graph and `Valid` of the canvas. `EnforcedConforms`
shows that the checks of the changed element are enough, command by command;
`ValidRemovable` that the validation of the whole graph never refuses a removal or a
move. For the queue, `QueueInv` says that it was accepted, command by command, from a
graph that differs from the stored one in touched elements only, the ends of their edges
included, and led to the canvas; without touched elements that graph is the stored one. A
trail of graphs stands for the recursion of `Replay` (`ReplayRuns`), and `RefusalTouches`
shows, command by command, that what one of the two graphs accepts and the other refuses
mentions an element they differ in. Theorems: `TypeCorrect`, `StoredGraphConforms`,
`RemovalsAlwaysAccepted`, `QueueFaithful`.

The same module proves `ErdSidesAgree` of the diagrams in `ErdRepairs`. That a relation
names its entities the same way twice is not inductive alone: a conversion adds relations
under ids of its own, and if one of them were there already the command would be refused
while the rest of its repair went through. `Ready` therefore says of a diagram that every
foreign key agrees with its ends and that the halves of a conversion are there only once
its relation is gone. What a repair says is judged on the diagram it was computed on
(`TrueOf`) and stays true while the repairs of a batch are applied one after the other
(`Computed`), because no safe repair changes the ends of a relation; a batch holds the
commands of its repairs and no others (`BatchRange`). `ErdTypes` has, beside types, that
relations end at entities that are there, which the commands' validation keeps, also for
repairs of an older diagram. `ErdSidesAgree` assumes of the constants
(`ConstantsAssumption`) that ids of entities and relations differ, that a conversion's are
its own, and that the diagrams to start from are as they should be.

`ProcessDiagram_proofs` proves `QueuesAreTaken` (`EditorAndServerAgree`). That the head of
the queue is acceptable is not inductive: once it is stored, the next one has to be.
`Leads` says of the whole queue that it leads, command by command, to the canvas, and that
each command on its way was judged as the server will judge it, or is one of those that
need not be (`Judged`). It does not lead there from the stored graph, since the tab
normalizes after each command, but from one that is alike (`LeadsFrom`): the same
relations, the same nodes but for the start that the tab made up, and contents of the same
role, except that a step may state a role where the stored one states none
(`SameButStated`). It holds as long as no other tab writes. A command enters the queue by
`LeadsAlong`, which follows the commands of a list that fit, and leaves it by `LeadsTail`;
that the stored graph and its like stay alike under a command is `AlikeAfter`. Copies are
judged on one canvas and applied to a later one: `PasteOk` keeps that their nodes are new
to both graphs and to the queue, and that relations among them are allowed by what the
copies themselves hold, so that what the canvas became in between does not matter
(`CopiesJudged`). `CopiesFit` shows that all three copies of a relation are on the canvas
that the server audits, without which its verdict would say nothing of them, and
`AllowedAgreed` that the partial paste keeps allowed relations only. Assumed of the
constants (`ConstantsAssumption`): finite ids, one label at least for a step, and diagrams
that are well formed when the tab opens them; they may break the rules.

`RepairsHealed` (`ProcessRepairsHeal`) says what a confirmed repair leaves on the canvas. It
needs `PlanInv` beside that invariant: a repair is planned from the stored graph and applied
to the canvas, and while its dialog is open only copies that were asked for before reach the
queue and the stored graph, so that the relations of the node are the same in both
(`SameAt`) and the plan stays what the server would make of what it has by then
(`PlanSame`). The repairs are followed one by one (`MendAlong`): `Mends` says what the canvas
is by then, `Mended` that a relation of the plan is gone, or that some relation is what it
was to become. A repair that does not fit, since it would repeat a relation, leaves its
relation as it was, and the other one may itself be in the plan; that no later repair takes
it away again (`RepairMends`) rests on relations between the same nodes being planned alike
(`PlanOf`). Last, a relation that is what the plan says is allowed on the canvas, since the
roles of the plan are those of the canvas (`Foreseen`, `AllowedAfter`); a node that was to be
a page has no relation that is allowed, and the plan removes all of them.

`SemanticPolicy_proofs`. The invariant ties each request's memory to the past: a request
that judges has a policy that was in force since it was received, what it is about to
store is what its judged commands make of the graph it loaded, and the log has an event
for every override on the way. `VersionFacts`: versions only grow, so a policy read under
the version of the present one is the present one, and its patch keeps the other fields.
`HeldFacts`: what a request holds was in force since it was received, and every rule that
its graph breaks and the loaded one did not has an override of its own, a policy of that time
that did not enforce it, or a command of its own that is not judged for it. That the last case
is no loophole for what is judged rests on `Violated`, which is of one command on one graph.
Theorems: `TypeCorrect`, `ViolationsAccounted`, `TrueEvents`, `PatchesLostInRaces`,
`StoredInItsTime`.

`MCCreation_proofs`. For drafts, one invariant ties versions to contents (`VersionInv`: what a tab
knows, what a request was sent with and what an answer says is of the past, or it is the
row), and one follows an application through its writes (`ProjectInv`: requests are numbered
as they are sent, what is going to be written has passed the strict validation or is what the
project was created from (`FromCreation`), and as long as nothing is torn one application at
most is under way and all it has written is its own, the map excepted if it was asked for none). For projects
and workspaces, `CreationInv` says in which order creations are numbered and what each
holds at its step, that slugs are unique, and that a search for a free one has looked at
its candidates in turn and past used ones only (`Counted`), so that a slug with a suffix
always has those before it. Candidates differ as long as there is room for the suffix and
are alike without, which is why a search may not end. Two more parts are about who is
there: a workspace was made by one of its owner's creations, and a creation that ran alone
knows all there is. Theorems: `KnownContent`, `GuardedSaves`, `OneDraft`, `TypesCorrect`,
`ProjectsSound`.

`MCAccess_proofs`. Of memberships, the invariant says that the owners a transaction counted
stay locked by it and stay owners (`OwnersHeld`), that before the submission there is
nothing (`Asked`), and that a transaction about to write over a row it read holds that row,
unchanged, and has another owner locked if it takes an ownership away (`Decided`).
`LastOwnerKept` and `DecisionStillHolds` follow at the write. Of logins, `LoginsInv`
numbers the requests, says what each holds at its step (locks of rows and keys, what it has
looked up), and what a request that ran alone knows of the tables. A shared user has a race
behind it: an earlier form of the property, over pairs of subjects, fails with a fourth
request, and it is stated over the links now. Theorem: `AccessSound`.

`MCServer_proofs`. `ImportsInv`: the open root span is the last one and belongs to the
import under way, the newest tombstone is of the last root span, so that neighbours
differ, and a fresh import has one step for each record. `EventsInv`: one evaluation is
under way at most, the event that is awaited belongs to it, and what is pending is newer
than all that was evaluated; events and those that evaluations have yet to emit never
exceed three times `MaxEvents`, which is why the ids suffice. `SilenceInv` says that a resting sink
has a failed insertion behind it and a skipped event one before it; what an event has to show
for itself is only ever added to (`Excused`). Theorems: `TracesWhole`,
`EventsTold`, `EvaluationsInTurn`.

Only model-checked: liveness (fairness and leads-to are beyond the prover: `QueueDrains`,
`NobodyIsForgotten`, `EverythingEnds`, `CallsAndCandidatesEnd`), and what the repairs of entities leave
(`ErdRepairsHold`).

## 5. Not modelled

Presentation, parsers, layout, exports, i18n, scripts and the Python prototypes have no
protocol state. Sessions are next-auth's. The audit log is never read back. Of the
telemetry, the manual evaluation of the gate, the retention cleanup, the snapshot for
readers and migrations beside a running server are left out; of the creation assistant,
templates and the content of the initial map.

## 6. Plan

1. Pure parts with a reference definition: the warnings of the semantic audit, the diff
   of versions, the mapping of imported schemas, the other kinds of diagrams.
2. Theorems: what the repairs of `ErdRepairs` leave (`ErdRepairsHold`).
