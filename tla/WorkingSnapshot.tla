-------------------------- MODULE WorkingSnapshot --------------------------
(***************************************************************************)
(* PrismaWorkingSnapshotRepository and the read-then-save protocol of its  *)
(* callers.  A project has one mutable GraphVersion row (versionNumber 1)  *)
(* with a revision.  A save is several database calls without a            *)
(* transaction: find the row, then create it, update it where the revision *)
(* is the expected one, or update it unconditionally; then read the row    *)
(* again to answer.  Each call is one atomic action here, the calls of     *)
(* different requests interleave, and any call may fail, a write also      *)
(* after it took effect.                                                   *)
(*                                                                         *)
(* A snapshot is abstracted to the set of requests whose edit it carries:  *)
(* a writer's snapshot is the one it started from plus its own edit, so an *)
(* edit is lost when a later row no longer holds it.                       *)
(***************************************************************************)
EXTENDS Naturals, FiniteSets

CONSTANTS
    Commands,      \* requests whose handler loads the row, edits it, saves it
    Replacements,  \* requests whose client sends a whole snapshot
    None           \* "no expectedRevision in the payload"

ASSUME KindsAssumption == Commands \cap Replacements = {}
ASSUME NoneAssumption == None \notin Nat

Requests == Commands \cup Replacements

VARIABLES
    row,          \* the GraphVersion row; revision 0 is "no row"
    pc,           \* pc[r]: the call request r makes next
    expected,     \* expected[r]: expectedRevision of the payload, or None
    base,         \* base[r]: the row r's snapshot was computed from
    reply,        \* reply[r]: what the handler answered
    committedAt   \* history: the revision r's own write created, 0 if none

vars == <<row, pc, expected, base, reply, committedAt>>

Contents == SUBSET Requests
Rows == [revision : Nat, content : Contents]
Absent == [revision |-> 0, content |-> {}]
Phases == {"new", "compose", "load", "find", "create", "cas", "latest",
           "reread", "update", "done"}
Statuses == {"none", "ok", "conflict", "not_found", "error"}
Replies == [status : Statuses, revision : Nat, content : Contents]
NoReply == [status |-> "none", revision |-> 0, content |-> {}]

TypeOK ==
    /\ row \in Rows
    /\ pc \in [Requests -> Phases]
    /\ expected \in [Requests -> Nat \cup {None}]
    /\ base \in [Requests -> Rows]
    /\ reply \in [Requests -> Replies]
    /\ committedAt \in [Requests -> Nat]

Init ==
    /\ row \in {Absent, [revision |-> 1, content |-> {}]}
    /\ pc = [r \in Requests |-> "new"]
    /\ expected = [r \in Requests |-> None]
    /\ base = [r \in Requests |-> Absent]
    /\ reply = [r \in Requests |-> NoReply]
    /\ committedAt = [r \in Requests |-> 0]

-----------------------------------------------------------------------------

\* The snapshot r asks the repository to store.
NextContent(r) == base[r].content \cup {r}

Goto(r, phase) == pc' = [pc EXCEPT ![r] = phase]

Answer(r, status, revision, content) ==
    /\ Goto(r, "done")
    /\ reply' = [reply EXCEPT ![r] = [status |-> status, revision |-> revision,
                                      content |-> content]]

\* The revisions a client can name: one some answer told it, or none.
Expectable(lowest) == {None} \cup (lowest .. row.revision)

\* A command arrives with the revision its client knows.
SubmitCommand(r) ==
    /\ r \in Commands
    /\ pc[r] = "new"
    /\ \E e \in Expectable(0) : expected' = [expected EXCEPT ![r] = e]
    /\ Goto(r, "load")
    /\ UNCHANGED <<row, base, reply, committedAt>>

\* load(): the handler of a command reads the row it will edit.
Load(r) ==
    /\ pc[r] = "load"
    /\ IF row.revision = 0
         THEN Answer(r, "not_found", 0, {}) /\ UNCHANGED base
         ELSE Goto(r, "find") /\ base' = [base EXCEPT ![r] = row] /\ UNCHANGED reply
    /\ UNCHANGED <<row, expected, committedAt>>

\* A client that will send a whole snapshot first reads one.
ReadForReplacement(r) ==
    /\ r \in Replacements
    /\ pc[r] = "new"
    /\ base' = [base EXCEPT ![r] = row]
    /\ Goto(r, "compose")
    /\ UNCHANGED <<row, expected, reply, committedAt>>

\* It sends its snapshot, naming the revision it read, a newer one it was told
\* of since (a conflict answer carries one), or none.
SubmitReplacement(r) ==
    /\ pc[r] = "compose"
    /\ \E e \in Expectable(base[r].revision) :
         expected' = [expected EXCEPT ![r] = e]
    /\ Goto(r, "find")
    /\ UNCHANGED <<row, base, reply, committedAt>>

-----------------------------------------------------------------------------

\* save(), first findUnique and the branches on what it found.
Find(r) ==
    /\ pc[r] = "find"
    /\ IF row.revision = 0
         THEN IF expected[r] \in {None, 0}
                THEN Goto(r, "create") /\ UNCHANGED reply
                ELSE Answer(r, "conflict", 0, {})
         ELSE /\ Goto(r, IF expected[r] = None THEN "update" ELSE "cas")
              /\ UNCHANGED reply
    /\ UNCHANGED <<row, expected, base, committedAt>>

\* Fault: the unconditional update leaves the revision alone.
StoreWithoutIncrement(r) ==
    /\ row' = [row EXCEPT !.content = NextContent(r)]
    /\ committedAt' = [committedAt EXCEPT ![r] = row.revision + 1]

\* Storing r's snapshot: one statement of the database.
Store(r) ==
    /\ row' = [revision |-> row.revision + 1, content |-> NextContent(r)]
    /\ committedAt' = [committedAt EXCEPT ![r] = row.revision + 1]

\* The answer of the statement that stored the row: the row, or an error when the
\* statement took effect and its answer is lost or cannot be parsed.
AnswerStored(r) ==
    \/ Answer(r, "ok", row'.revision, row'.content)
    \/ Answer(r, "error", 0, {})

\* Fault: an upsert instead of a create.
CreateOrReplace(r) ==
    /\ pc[r] = "create"
    /\ Store(r)
    /\ Answer(r, "ok", row'.revision, row'.content)
    /\ UNCHANGED <<expected, base>>

\* create(): the unique key (projectId, versionNumber) refuses a second row.
Create(r) ==
    /\ pc[r] = "create"
    /\ IF row.revision = 0
         THEN /\ Store(r)
              /\ AnswerStored(r)
         ELSE /\ Answer(r, "error", 0, {})
              /\ UNCHANGED <<row, committedAt>>
    /\ UNCHANGED <<expected, base>>

\* Fault: the revision is compared when the row is found, not when it is updated.
CasUnchecked(r) ==
    /\ pc[r] = "cas"
    /\ Store(r)
    /\ Goto(r, "reread")
    /\ UNCHANGED <<expected, base, reply>>

\* Fault: the count of updated rows is ignored.
CasCountIgnored(r) ==
    /\ pc[r] = "cas"
    /\ IF row.revision = expected[r]
         THEN Store(r)
         ELSE UNCHANGED <<row, committedAt>>
    /\ Goto(r, "reread")
    /\ UNCHANGED <<expected, base, reply>>

\* updateMany(): the update and its condition on the revision are one statement.
Cas(r) ==
    /\ pc[r] = "cas"
    /\ IF row.revision = expected[r]
         THEN Store(r) /\ Goto(r, "reread")
         ELSE Goto(r, "latest") /\ UNCHANGED <<row, committedAt>>
    /\ UNCHANGED <<expected, base, reply>>

\* Fault: the conflict reports the revision the request was computed from.
LatestStale(r) ==
    /\ pc[r] = "latest"
    /\ Answer(r, "conflict", base[r].revision, {})
    /\ UNCHANGED <<row, expected, base, committedAt>>

\* The conflict answer reports the revision found by a further read.
Latest(r) ==
    /\ pc[r] = "latest"
    /\ Answer(r, "conflict", row.revision, {})
    /\ UNCHANGED <<row, expected, base, committedAt>>

\* Fault: the answer keeps the phase of the request as its status.
RereadWithPhase(r) ==
    /\ pc[r] = "reread"
    /\ Answer(r, pc[r], row.revision, row.content)
    /\ UNCHANGED <<row, expected, base, committedAt>>

\* The success answer is the row found by a further read.  That read may find no row
\* (nothing in this code removes one): a 404 although the write took effect.
Reread(r) ==
    /\ pc[r] = "reread"
    /\ \/ Answer(r, "ok", row.revision, row.content)
       \/ Answer(r, "not_found", 0, {})
    /\ UNCHANGED <<row, expected, base, committedAt>>

\* update() without expectedRevision: whatever the row holds is replaced.
Update(r) ==
    /\ pc[r] = "update"
    /\ Store(r)
    /\ AnswerStored(r)
    /\ UNCHANGED <<expected, base>>

\* A call rejects or what it read cannot be parsed.  The reread of a write that took
\* effect fails the same way: the client gets an error and the write stays.
CallFails(r) ==
    /\ pc[r] \in {"load", "find", "create", "cas", "latest", "reread", "update"}
    /\ Answer(r, "error", 0, {})
    /\ UNCHANGED <<row, expected, base, committedAt>>

-----------------------------------------------------------------------------

ClientStep(r) == SubmitCommand(r) \/ ReadForReplacement(r) \/ SubmitReplacement(r)

ServerStep(r) ==
    \/ Load(r)
    \/ Find(r)
    \/ Create(r)
    \/ Cas(r)
    \/ Latest(r)
    \/ Reread(r)
    \/ Update(r)
    \/ CallFails(r)

Next == \E r \in Requests : ClientStep(r) \/ ServerStep(r)

Spec == Init /\ [][Next]_vars

-----------------------------------------------------------------------------

\* r's write is checked against the very row its snapshot was computed from.
Guarded(r) ==
    /\ expected[r] # None
    /\ r \in Commands \/ expected[r] = base[r].revision

\* A write that names the revision it started from never drops an edit that the
\* row holds, however the calls of other requests interleave with its own.
GuardedWriteKeepsRow ==
    [][\A r \in Requests :
         committedAt'[r] # committedAt[r] /\ Guarded(r)
           => row.content \cup {r} \subseteq row'.content]_vars

\* Two requests that name the same revision, the first creation included, do not
\* both take effect.  So a retry under the revision of a request that was answered
\* with an error stores nothing twice (the updateMany under the revision).
OneWinnerPerRevision ==
    \A r, s \in Requests :
      /\ expected[r] # None
      /\ expected[r] = expected[s]
      /\ committedAt[r] # 0
      /\ committedAt[s] # 0
      => r = s

\* An answer tells what happened to the write: ok only after the write is in the
\* row, at a revision at or after its own; a conflict only if it left no trace.  An
\* error, or a row that is gone, says nothing of it; but if the request named a
\* revision, its write is the one right after that revision or there is none, so
\* the client can find out (save, its updateMany and its reread).
AnswersAreTruthful ==
    \A r \in Requests :
      /\ reply[r].status = "ok" => committedAt[r] \in 1 .. reply[r].revision
      /\ reply[r].status = "conflict" => committedAt[r] = 0
      /\ reply[r].status \in {"not_found", "error"} /\ expected[r] # None
           => committedAt[r] \in {0, expected[r] + 1}

\* The revision a conflict answer reports is newer than the one the client named,
\* so adopting it always makes progress.
ConflictTellsNewerRevision ==
    \A r \in Requests :
      reply[r].status = "conflict" =>
        expected[r] # None /\ reply[r].revision > expected[r]

\* The repository implements the register its callers rely on.
Outcome(r) ==
    CASE committedAt[r] # 0 -> "written"
      [] committedAt[r] = 0 /\ pc[r] \in {"new", "compose"} -> "idle"
      [] committedAt[r] = 0 /\ pc[r] = "done" /\ reply[r].status = "error" -> "failed"
      [] committedAt[r] = 0 /\ pc[r] = "done" /\ reply[r].status # "error" -> "refused"
      [] OTHER -> "pending"

Outcomes == [r \in Requests |-> Outcome(r)]

Register == INSTANCE VersionedRegister WITH outcome <- Outcomes

\* Every behaviour of the repository is one of the versioned register: writes are
\* atomic, and no write that names the current revision is refused (it may fail).
ImplementsRegister == Register!Spec

=============================================================================
