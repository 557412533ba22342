--------------------------- MODULE EditorAutosave ---------------------------
(***************************************************************************)
(* One editor tab: the local graph, the queue of commands waiting for the  *)
(* server, the debounced autosave, the Save button, the writes that bypass *)
(* the queue, the restore of a version and the first refresh; against the  *)
(* versioned row of WorkingSnapshot, which other tabs write too.           *)
(*                                                                         *)
(* A snapshot is the set of edits it shows.  Requests and answers travel   *)
(* apart: an answer may be lost, and a request whose sender has given up   *)
(* may still reach the server later.  A save of the repository is atomic   *)
(* here, which is what ImplementsRegister of WorkingSnapshot shows, but    *)
(* its answer is a later read of the row.                                  *)
(*                                                                         *)
(* React runs state updaters at the next render unless nothing else waits  *)
(* for one, so the refs the handlers read lag behind the state they        *)
(* mirror.  The tracker of stale responses is left out: requests are       *)
(* numbered only while no other save is in flight, so none is ever stale.  *)
(***************************************************************************)
EXTENDS Naturals, Sequences, FiniteSets

CONSTANTS
    Edits,         \* edits the user makes on the canvas: queued commands
    DirectEdits,   \* edits sent to the server at once (relations, inspector)
    OneShot,       \* edits the server refuses to apply twice (a new node)
    Peers,         \* edits committed by other tabs
    Sessions,      \* what the user and the other tabs do in a behaviour
    MaxLost,       \* bound: requests or answers lost
    MaxRevision,   \* bound: no whole-snapshot or direct write starts past it
    None           \* "no expectedRevision", "no revision in the answer"

ASSUME EditsAssumption ==
    /\ Edits \cap (DirectEdits \cup Peers) = {}
    /\ DirectEdits \cap Peers = {}
ASSUME SessionsAssumption ==
    Sessions \subseteq [edits : SUBSET Edits, direct : SUBSET DirectEdits,
                        peers : SUBSET Peers, actions : SUBSET {"save", "restore"}]
ASSUME NoneAssumption == None \notin Nat
ASSUME BoundAssumption == MaxLost \in Nat /\ MaxRevision \in Nat

AllEdits == Edits \cup DirectEdits \cup Peers
Owners == {"task", "write", "query"}

VARIABLES
    session,       \* one of Sessions
    row,           \* the row of the server: [revision, content]
    call,          \* call[o]: the request of owner o and what became of it
    stray,         \* requests whose sender gave up, still on their way
    lost,          \* requests and answers lost so far
    peered,        \* history: edits other tabs committed
    made,          \* history: the edits the user queued, in order
    local,         \* the graph of the canvas
    localVersion,  \* localMutationVersionRef
    queue,         \* pendingCommands, the state
    queueRef,      \* pendingCommandsRef, what the handlers read
    revision,      \* currentRevision, the state
    revisionRef,   \* currentRevisionRef, what the handlers read
    rendering,     \* some state update waits for the next render
    timer,         \* the debounce timer is running
    status,        \* saveState.status
    dirty,         \* saveState.isDirty
    task           \* the save in flight, and what it does when it ends

server == <<row, stray, lost, peered>>
canvas == <<made, local, localVersion>>
refs == <<queue, queueRef, revision, revisionRef, rendering>>
badge == <<status, dirty>>
vars == <<session, server, call, canvas, refs, badge, timer, task>>

Entries == [version : Nat, edit : Edits]
Phases == {"idle", "sent", "committed", "ok", "conflict", "failed"}
Calls == [op : {"none", "command", "put", "restore", "get"},
          content : SUBSET AllEdits, expected : Nat \cup {None},
          phase : Phases, revision : Nat \cup {None}]
NoCall == [op |-> "none", content |-> {}, expected |-> None,
           phase |-> "idle", revision |-> None]
Tasks == [kind : {"none", "flush", "put"}, items : Seq(Entries),
          retried : BOOLEAN, version : Nat,
          after : {"nothing", "put", "write"}, wants : SUBSET DirectEdits]
NoTask == [kind |-> "none", items |-> <<>>, retried |-> FALSE, version |-> 0,
           after |-> "nothing", wants |-> {}]

TypeOK ==
    /\ session \in Sessions
    /\ row \in [revision : Nat, content : SUBSET AllEdits]
    /\ call \in [Owners -> Calls]
    /\ stray \subseteq Calls
    /\ lost \in 0 .. MaxLost
    /\ peered \subseteq Peers
    /\ made \in Seq(Edits)
    /\ local \subseteq AllEdits
    /\ localVersion \in Nat
    /\ queue \in Seq(Entries) /\ queueRef \in Seq(Entries)
    /\ revision \in Nat /\ revisionRef \in Nat
    /\ rendering \in BOOLEAN /\ timer \in BOOLEAN /\ dirty \in BOOLEAN
    /\ status \in {"saved", "dirty", "saving", "error"}
    /\ task \in Tasks

Request(op, content, expected) ==
    [op |-> op, content |-> content, expected |-> expected,
     phase |-> "sent", revision |-> None]

Init ==
    /\ session \in Sessions
    /\ row = [revision |-> 1, content |-> {}]
    /\ call = [o \in Owners |-> IF o = "query" THEN Request("get", {}, None)
                                               ELSE NoCall]
    /\ stray = {} /\ lost = 0 /\ peered = {} /\ made = <<>>
    /\ local = {} /\ localVersion = 0
    /\ queue = <<>> /\ queueRef = <<>>
    /\ revision = 1 /\ revisionRef = 1
    /\ rendering = FALSE /\ timer = FALSE
    /\ status = "saved" /\ dirty = FALSE
    /\ task = NoTask

Busy == task.kind # "none"
Edited(s) == {s[i] : i \in DOMAIN s}
Queued == {queue[i].edit : i \in DOMAIN queue}

\* q.filter(): the entries of q whose version is not one of versions.
Without(q, versions) ==
    LET kept[n \in 0 .. Len(q)] ==
          IF n = 0 THEN <<>>
          ELSE IF q[n].version \in versions THEN kept[n - 1]
          ELSE Append(kept[n - 1], q[n])
    IN  kept[Len(q)]

-----------------------------------------------------------------------------
(* The server and the network.                                             *)

\* The handler edits the row it loads, then saves under the revision; a command
\* that no longer applies is refused before the revision is looked at.
Refused(c) == c.op = "command" /\ c.content \cap OneShot \cap row.content # {}

\* Fault: a whole snapshot is stored whatever revision it names.
StaleCommandsOnly(c) ==
    c.op = "command" /\ c.expected # None /\ c.expected # row.revision

Stale(c) == c.expected # None /\ c.expected # row.revision

Verdict(c) ==
    CASE c.op = "get" -> "ok"
      [] c.op # "get" /\ Refused(c) -> "failed"
      [] c.op # "get" /\ ~Refused(c) /\ Stale(c) -> "conflict"
      [] OTHER -> "committed"

Stored(c) == IF c.op = "command" THEN row.content \cup c.content ELSE c.content

Apply(c) ==
    row' = IF Verdict(c) = "committed"
             THEN [revision |-> row.revision + 1, content |-> Stored(c)]
             ELSE row

Handle(o) ==
    /\ call[o].phase = "sent"
    /\ Apply(call[o])
    /\ call' = [call EXCEPT ![o].phase = Verdict(call[o]),
                            ![o].content = row.content,
                            ![o].revision = IF Verdict(call[o]) = "failed"
                                              THEN None ELSE row.revision]
    /\ UNCHANGED <<stray, lost, peered, canvas, refs, badge, timer, task>>

\* The answer to a write is read from the row after the write.
Respond(o) ==
    /\ call[o].phase = "committed"
    /\ call' = [call EXCEPT ![o].phase = "ok",
                            ![o].content = row.content,
                            ![o].revision = row.revision]
    /\ UNCHANGED <<server, canvas, refs, badge, timer, task>>

\* fetch() fails: the request was lost, or is still on its way, or its answer was.
Lose(o) ==
    /\ lost < MaxLost
    /\ call[o].phase # "idle"
    /\ lost' = lost + 1
    /\ stray' \in {stray} \cup (IF call[o].phase = "sent"
                                  THEN {stray \cup {call[o]}} ELSE {})
    /\ call' = [call EXCEPT ![o].phase = "failed", ![o].revision = None]
    /\ UNCHANGED <<row, peered, canvas, refs, badge, timer, task>>

HandleStray(c) ==
    /\ c \in stray
    /\ Apply(c)
    /\ stray' = stray \ {c}
    /\ UNCHANGED <<call, lost, peered, canvas, refs, badge, timer, task>>

\* Another tab commits a command of its own.
PeerCommits(p) ==
    /\ p \notin peered
    /\ peered' = peered \cup {p}
    /\ row' = [revision |-> row.revision + 1, content |-> row.content \cup {p}]
    /\ UNCHANGED <<call, stray, lost, canvas, refs, badge, timer, task>>

-----------------------------------------------------------------------------
(* React, the queue and the debounce.                                      *)

Render ==
    /\ rendering
    /\ queueRef' = queue
    /\ revisionRef' = revision
    /\ rendering' = FALSE
    /\ UNCHANGED <<server, call, canvas, queue, revision, badge, timer, task>>

\* setCurrentRevision(n) followed by setPendingCommandsState(q): the updater runs
\* at once only if no update waits, and then not always.
SetRevisionAndQueue(n, q) ==
    /\ revision' = n
    /\ queue' = q
    /\ queueRef' \in IF rendering \/ revision # n THEN {queueRef} ELSE {queueRef, q}
    /\ rendering' = TRUE
    /\ UNCHANGED revisionRef

\* setCurrentRevision(n) or another update of the state alone.
SetRevision(n) ==
    /\ revision' = n
    /\ rendering' = TRUE
    /\ UNCHANGED <<queue, queueRef, revisionRef>>

SetStatus(s) ==
    /\ status' = s
    /\ dirty' = CASE s = "saved" -> FALSE
                  [] s = "saving" -> dirty
                  [] OTHER -> TRUE

\* applyLocalCommandAndQueue(): an event handler, its updates are rendered at once.
Edit(e) ==
    /\ e \notin Edited(made)
    /\ made' = Append(made, e)
    /\ local' = local \cup {e}
    /\ localVersion' = localVersion + 1
    /\ queue' = Append(queue, [version |-> localVersion + 1, edit |-> e])
    /\ queueRef' = queue'
    /\ revisionRef' = revision
    /\ rendering' = FALSE
    /\ SetStatus("dirty")
    /\ timer' = TRUE
    /\ UNCHANGED <<server, call, revision, task>>

\* The first request of a flush of items, by a caller that then does "after".
Flush(items, after, wants) ==
    /\ task' = [NoTask EXCEPT !.kind = "flush", !.items = items,
                              !.after = after, !.wants = wants]
    /\ call' = [call EXCEPT !["task"] =
                  Request("command", {Head(items).edit}, revisionRef)]
    /\ SetStatus("saving")
    /\ SetRevision(revision)

\* saveWorkingSnapshotForEditor() with the graph of this moment.
Put ==
    /\ task' = [NoTask EXCEPT !.kind = "put", !.version = localVersion]
    /\ call' = [call EXCEPT !["task"] = Request("put", local, revisionRef)]
    /\ status' = "saving"

EndTask ==
    /\ task' = NoTask
    /\ call' = [call EXCEPT !["task"] = NoCall]

\* The debounced callback; a save in flight or an empty queue makes it a no-op.
\* A render takes less than the delay of the timer.
AutosaveFires ==
    /\ timer /\ ~rendering
    /\ timer' = FALSE
    /\ IF Busy \/ queueRef = <<>>
         THEN UNCHANGED <<call, refs, badge, task>>
         ELSE Flush(queueRef, "nothing", {})
    /\ UNCHANGED <<server, canvas>>

\* handleManualSave(): flush first if commands wait, else send the snapshot.
Save ==
    /\ "save" \in session.actions
    /\ ~rendering /\ status # "saving" /\ ~Busy
    /\ queueRef # <<>> \/ row.revision < MaxRevision
    /\ timer' = FALSE
    /\ IF queueRef # <<>>
         THEN Flush(queueRef, "put", {})
         ELSE Put /\ SetRevision(revision) /\ UNCHANGED dirty
    /\ UNCHANGED <<server, canvas>>

-----------------------------------------------------------------------------
(* Answers to the save in flight.                                          *)

Answered(kind, phase) == task.kind = kind /\ call["task"].phase = phase

Sent == Head(task.items)
Dequeued == Without(queue, {Sent.version})

\* A command was applied and another one of the flush follows.
FlushContinues ==
    /\ Answered("flush", "ok") /\ Len(task.items) > 1
    /\ SetRevisionAndQueue(call["task"].revision, Dequeued)
    /\ task' = [task EXCEPT !.items = Tail(@), !.retried = FALSE]
    /\ call' = [call EXCEPT !["task"] =
                  Request("command", {task.items[2].edit}, call["task"].revision)]
    /\ UNCHANGED <<server, canvas, badge, timer>>

\* Fault: the end of a flush is taken for the end of all changes.
FlushCompletesUnchecked ==
    /\ Answered("flush", "ok") /\ Len(task.items) = 1
    /\ SetRevisionAndQueue(call["task"].revision, Dequeued)
    /\ SetStatus("saved")
    /\ EndTask
    /\ UNCHANGED <<server, canvas, timer>>

\* A flush ends with the badge s; if the queue looks empty, the caller goes on in the
\* same turn, whether the flush failed or not.
EndFlush(s) ==
    \/ /\ queueRef' # <<>> \/ task.after = "nothing"
       /\ SetStatus(s)
       /\ EndTask
    \/ /\ queueRef' = <<>> /\ task.after = "put"
       /\ dirty' = (s # "saved")
       /\ Put
    \/ /\ queueRef' = <<>> /\ task.after = "write"
       /\ SetStatus(s)
       /\ task' = NoTask
       /\ call' = [call EXCEPT !["task"] = NoCall,
                               !["write"] = Request("command", task.wants, revisionRef)]

\* The last command was applied: saved if the queue looks empty, else again later.
FlushCompletes ==
    /\ Answered("flush", "ok") /\ Len(task.items) = 1
    /\ SetRevisionAndQueue(call["task"].revision, Dequeued)
    /\ \/ queueRef' # <<>> /\ EndFlush("dirty") /\ timer' = TRUE
       \/ queueRef' = <<>> /\ EndFlush("saved") /\ UNCHANGED timer
    /\ UNCHANGED <<server, canvas>>

\* Fault: the revision of an answer is adopted though the answer may carry none.
FlushRetriesOnAnyError ==
    /\ Answered("flush", "conflict") \/ Answered("flush", "failed")
    /\ ~task.retried
    /\ SetRevision(call["task"].revision)
    /\ task' = [task EXCEPT !.retried = TRUE]
    /\ call' = [call EXCEPT !["task"] =
                  Request("command", {Sent.edit}, call["task"].revision)]
    /\ UNCHANGED <<server, canvas, badge, timer>>

\* A first conflict: the command is sent again under the revision of the answer.
FlushRetries ==
    /\ Answered("flush", "conflict") /\ ~task.retried
    /\ SetRevision(call["task"].revision)
    /\ task' = [task EXCEPT !.retried = TRUE]
    /\ call' = [call EXCEPT !["task"] =
                  Request("command", {Sent.edit}, call["task"].revision)]
    /\ UNCHANGED <<server, canvas, badge, timer>>

\* Fault: the flush goes on with the command after the one that failed.
FlushSkipsFailure ==
    /\ Answered("flush", "failed") \/ (Answered("flush", "conflict") /\ task.retried)
    /\ SetRevision(revision)
    /\ IF Len(task.items) > 1
         THEN /\ task' = [task EXCEPT !.items = Tail(@), !.retried = FALSE]
              /\ call' = [call EXCEPT !["task"] =
                            Request("command", {task.items[2].edit}, revision)]
              /\ UNCHANGED badge
         ELSE SetStatus("error") /\ EndTask
    /\ UNCHANGED <<server, canvas, timer>>

\* Fault: a command that failed leaves the queue.
FlushDropsFailure ==
    /\ Answered("flush", "failed") \/ (Answered("flush", "conflict") /\ task.retried)
    /\ queue' = Dequeued
    /\ rendering' = TRUE
    /\ SetStatus("error")
    /\ EndTask
    /\ UNCHANGED <<server, canvas, queueRef, revision, revisionRef, timer>>

\* Fault: the save stays marked as in flight after an error.
FlushFailsUnfinished ==
    /\ Answered("flush", "failed") \/ (Answered("flush", "conflict") /\ task.retried)
    /\ SetRevision(revision)
    /\ SetStatus("error")
    /\ call' = [call EXCEPT !["task"] = NoCall]
    /\ UNCHANGED <<server, canvas, timer, task>>

\* A second conflict, a refusal or a network error ends the flush; nothing rearms
\* the timer.
FlushFails ==
    /\ \/ /\ Answered("flush", "conflict") /\ task.retried
          /\ SetRevision(call["task"].revision)
       \/ /\ Answered("flush", "failed")
          /\ SetRevision(revision)
    /\ EndFlush("error")
    /\ UNCHANGED <<server, canvas, timer>>

\* Fault: commands queued during the request are not waited for.
PutSucceedsForgetful ==
    /\ Answered("put", "ok")
    /\ SetRevisionAndQueue(call["task"].revision,
                           Without(queue, 0 .. task.version))
    /\ SetStatus("dirty")
    /\ EndTask
    /\ UNCHANGED <<server, canvas, timer>>

\* The whole snapshot was stored: commands it contains leave the queue.
PutSucceeds ==
    /\ Answered("put", "ok")
    /\ SetRevisionAndQueue(call["task"].revision,
                           Without(queue, 0 .. task.version))
    /\ IF queueRef' = <<>>
         THEN SetStatus("saved") /\ UNCHANGED timer
         ELSE SetStatus("dirty") /\ timer' = TRUE
    /\ EndTask
    /\ UNCHANGED <<server, canvas>>

\* A conflict is an error like any other here: its revision is not adopted.
PutFails ==
    /\ Answered("put", "conflict") \/ Answered("put", "failed")
    /\ SetRevision(revision)
    /\ SetStatus("error")
    /\ EndTask
    /\ UNCHANGED <<server, canvas, timer>>

-----------------------------------------------------------------------------
(* Direct writes, restore of a version, first refresh.                     *)

\* runDirectWrite(): at once if nothing is pending, after a flush otherwise.
DirectWrite(e) ==
    /\ e \notin local
    /\ ~rendering /\ call["write"] = NoCall /\ row.revision < MaxRevision
    /\ \/ /\ queueRef = <<>> /\ ~dirty
          /\ call' = [call EXCEPT !["write"] = Request("command", {e}, revisionRef)]
          /\ UNCHANGED <<refs, badge, task>>
       \/ /\ queueRef = <<>> /\ dirty /\ ~Busy
          /\ call' = [call EXCEPT !["write"] = Request("command", {e}, revisionRef)]
          /\ SetStatus("saved")
          /\ SetRevision(revision)
          /\ UNCHANGED task
       \/ /\ queueRef # <<>> /\ ~Busy
          /\ Flush(queueRef, "write", {e})
    /\ UNCHANGED <<server, canvas, timer>>

\* The canvas becomes the snapshot of the answer.
DirectSucceeds ==
    /\ call["write"].op = "command" /\ call["write"].phase = "ok"
    /\ local' = call["write"].content
    /\ SetRevision(call["write"].revision)
    /\ call' = [call EXCEPT !["write"] = NoCall]
    /\ UNCHANGED <<server, made, localVersion, badge, timer, task>>

DirectFails ==
    /\ call["write"].op = "command" /\ call["write"].phase \in {"conflict", "failed"}
    /\ SetRevision(IF call["write"].phase = "conflict" THEN call["write"].revision
                                                       ELSE revision)
    /\ call' = [call EXCEPT !["write"] = NoCall]
    /\ UNCHANGED <<server, canvas, badge, timer, task>>

\* handleRestoreVersion(), confirmed by the user: the version holds no edit of this
\* session, and the request names no revision.
Restore ==
    /\ "restore" \in session.actions
    /\ ~rendering /\ status # "saving" /\ call["write"] = NoCall
    /\ row.revision < MaxRevision
    /\ timer' = FALSE
    /\ call' = [call EXCEPT !["write"] = Request("restore", {}, None)]
    /\ UNCHANGED <<server, canvas, refs, badge, task>>

\* Canvas, queue and local versions start again from the restored snapshot.
RestoreSucceeds ==
    /\ call["write"].op = "restore" /\ call["write"].phase = "ok"
    /\ local' = call["write"].content
    /\ revision' = call["write"].revision
    /\ queue' = <<>>
    /\ rendering' = TRUE
    /\ localVersion' = 0
    /\ SetStatus("saved")
    /\ call' = [call EXCEPT !["write"] = NoCall]
    /\ UNCHANGED <<server, made, queueRef, revisionRef, timer, task>>

RestoreFails ==
    /\ call["write"].op = "restore" /\ call["write"].phase = "failed"
    /\ call' = [call EXCEPT !["write"] = NoCall]
    /\ UNCHANGED <<server, canvas, refs, badge, timer, task>>

\* refreshFromQuery(): the answer replaces an untouched canvas; of an edited one it
\* only sets the revision.
RefreshArrives ==
    /\ call["query"].phase = "ok"
    /\ call' = [call EXCEPT !["query"] = NoCall]
    /\ IF queueRef # <<>> \/ localVersion > 0
         THEN /\ SetRevision(call["query"].revision)
              /\ UNCHANGED <<local, badge>>
         ELSE /\ local' = call["query"].content
              /\ revision' = call["query"].revision
              /\ queue' = <<>>
              /\ rendering' = TRUE
              /\ SetStatus("saved")
              /\ UNCHANGED <<queueRef, revisionRef>>
    /\ UNCHANGED <<server, made, localVersion, timer, task>>

RefreshFails ==
    /\ call["query"].phase = "failed"
    /\ call' = [call EXCEPT !["query"] = NoCall]
    /\ UNCHANGED <<server, canvas, refs, badge, timer, task>>

-----------------------------------------------------------------------------

TaskStep ==
    \/ FlushContinues
    \/ FlushCompletes
    \/ FlushRetries
    \/ FlushFails
    \/ PutSucceeds
    \/ PutFails

WriteStep == DirectSucceeds \/ DirectFails \/ RestoreSucceeds \/ RestoreFails
QueryStep == RefreshArrives \/ RefreshFails

UserStep ==
    \/ \E e \in session.edits : Edit(e)
    \/ \E e \in session.direct : DirectWrite(e)
    \/ Save
    \/ Restore

NetworkStep ==
    \/ \E o \in Owners : Handle(o) \/ Respond(o) \/ Lose(o)
    \/ \E c \in stray : HandleStray(c)
    \/ \E p \in session.peers : PeerCommits(p)

Next ==
    /\ \/ UserStep
       \/ NetworkStep
       \/ Render
       \/ AutosaveFires
       \/ TaskStep
       \/ WriteStep
       \/ QueryStep
    /\ UNCHANGED session

Spec == Init /\ [][Next]_vars

\* The browser renders, fires timers and delivers answers; the server answers what
\* reaches it; a user who sees an error presses Save again.
Fairness ==
    /\ WF_vars(Render /\ UNCHANGED session)
    /\ WF_vars(AutosaveFires /\ UNCHANGED session)
    /\ WF_vars(TaskStep /\ UNCHANGED session)
    /\ WF_vars(WriteStep /\ UNCHANGED session)
    /\ WF_vars(QueryStep /\ UNCHANGED session)
    /\ \A o \in Owners : WF_vars((Handle(o) \/ Respond(o)) /\ UNCHANGED session)
    /\ WF_vars(status = "error" /\ Save /\ UNCHANGED session)

FairSpec == Spec /\ Fairness

-----------------------------------------------------------------------------

\* A restore is meant to drop what is on the canvas and in the queue.
NoRestore == "restore" \notin session.actions

\* The Save button stores the canvas, and the answer to a direct write replaces the
\* canvas: a user who does both loses edits (NothingLost below).
Steady == NoRestore /\ (session.direct = {} \/ "save" \notin session.actions)

\* What the user did in this tab: the edits queued, and all the canvas shows that
\* is not the work of another tab.
UserEdits == Edited(made) \cup (local \ Peers)

\* What the user did is on the server or still waiting in the queue, whatever fails
\* and however answers, timers and edits interleave.
PendingOrStored == Steady => UserEdits \subseteq row.content \cup Queued

\* The badge says "saved" only when all the user did is on the server.
SavedMeansStored == Steady /\ status = "saved" => UserEdits \subseteq row.content

\* The server holds the user's edits in the order they were made: never a later
\* one without the earlier ones.
StoredInOrder ==
    Steady => \A i, j \in DOMAIN made :
                i < j /\ made[j] \in row.content => made[i] \in row.content

\* Commands never wait for nothing: a timer runs, a save is in flight, or the badge
\* asks the user to retry.
QueueIsScheduled == NoRestore /\ queue # <<>> => timer \/ Busy \/ status = "error"

\* No save of this tab, a late one whose sender gave up included, takes an edit of
\* this tab out of the row.
OwnEditsStay == [][Steady => row.content \ Peers \subseteq row'.content]_vars

\* The queue drains, after losses and conflicts too, if the user retries on error.
QueueDrains == (session.actions = {"save"} /\ queue # <<>>) ~> (queue = <<>>)

-----------------------------------------------------------------------------
(* What the documents promise and the code does not keep.                  *)

\* Once a restore is over, an edit on the canvas is stored or waits in the queue.
EditAfterRestoreKept ==
    call["write"] = NoCall =>
      \A e \in local \cap Edits : e \in row.content \/ e \in Queued

\* An edit is on the canvas, on the server or in the queue: an answer of the server
\* never takes it off the canvas.
NothingLost == NoRestore => Edited(made) \subseteq local \cup row.content \cup Queued

=============================================================================
