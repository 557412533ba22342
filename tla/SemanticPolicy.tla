--------------------------- MODULE SemanticPolicy ---------------------------
(***************************************************************************)
(* The semantic policy of a project and the requests that go through it:   *)
(* commands, batches and whole snapshots are judged under a policy that    *)
(* was read earlier, events are appended on the way, and the graph is      *)
(* stored at the end; other requests patch the policy or audit the graph.  *)
(* Every await of the handlers is a step, and any of them may fail.        *)
(*                                                                         *)
(* A graph is a set of marks (an edge of a kind, the kind or the role of a *)
(* node, a path out of the start).  A rule of a type of diagram is broken  *)
(* by a graph that shows some marks and lacks others; Rules are the errors *)
(* of the audit, the wrong connections among them.  The save under a       *)
(* revision is atomic, as WorkingSnapshot shows.  The custom rules of      *)
(* entity-relationship diagrams are not modelled.                          *)
(***************************************************************************)
EXTENDS Naturals, Sequences, FiniteSets

CONSTANTS
    Requests,      \* the requests of a run
    Mixes,         \* what the requests of a run ask for, together
    Types,         \* the types of diagram a policy or a snapshot names
    flow, erd,     \* two of them: processes, entity-relationship diagrams
    unset,         \* a policy or a snapshot that names no type
    Marks,         \* what a graph can show
    Edges,         \* the marks that are edges
    Rules,         \* the rules, each of one type of diagram
    Drawn,         \* Drawn[content]: the type the snapshot itself names
    Starts,        \* initial rows and policies
    MaxFailures,   \* bound: database calls that fail
    None           \* no policy, no expectedRevision

Fields == {"strictEnabled", "enforceOnServer", "allowTechOverride",
           "requireOverrideReason", "diagramType"}
Values(f) == IF f = "diagramType" THEN Types ELSE BOOLEAN
Settings == {s \in [Fields -> Types \cup BOOLEAN] : \A f \in Fields : s[f] \in Values(f)}
Policies == [settings : Settings, version : Nat]
Patches == UNION {{p \in [S -> Types \cup BOOLEAN] : \A f \in S : p[f] \in Values(f)} :
                    S \in SUBSET Fields}

\* main: what a command changes of the graph; of an update of a node, its kind.
\* data: what an update of a node changes by its label and data.
Changes == [add : SUBSET Marks, drop : SUBSET Marks]
Commands == [does : {"addNode", "addEdge", "updateNode", "updateEdge", "remove", "replace"},
             main : Changes, data : Changes]
RuleType == [type : Types, shows : SUBSET Marks, lacks : SUBSET Marks]

\* "put" replaces the graph, "command" changes it (one command or a batch).
Kinds == {"command", "put", "patch", "view", "audit"}

\* content: the snapshot of a put; override: technical mode with
\* allowSemanticOverride; reason: long enough; guarded: the request names the
\* revision its sender saw.
AskType == [kind : Kinds, commands : Seq(Commands), content : SUBSET Marks,
            patch : Patches, override : BOOLEAN, reason : BOOLEAN, guarded : BOOLEAN,
            repair : BOOLEAN]

ASSUME MixesAssumption == Mixes \subseteq [Requests -> AskType]
ASSUME TypesAssumption == {flow, erd, unset} \subseteq Types /\ flow \notin {erd, unset}
ASSUME RulesAssumption == Rules \subseteq {rule \in RuleType : rule.shows # {}}
ASSUME DrawnAssumption == Drawn \in [SUBSET Marks -> Types]
ASSUME NoneAssumption == None \notin Nat /\ None \notin Policies
ASSUME MaxFailuresAssumption == MaxFailures \in Nat
ASSUME StartsAssumption ==
    Starts \subseteq [row : [revision : Nat, content : SUBSET Marks],
                      policy : {None} \cup Policies]

VARIABLES
    row,       \* the working snapshot: [revision, content]
    policy,    \* the semantic_policies row, or None
    log,       \* the semantic event log
    past,      \* history: the policies there have been, the present one last
    first,     \* history: the graph of the first row
    stored,    \* history: who stored which revision
    failures,  \* failed database calls so far
    ask,       \* ask[r]: what r asks for
    pc,        \* pc[r]: the step r is at
    expected,  \* expected[r]: the revision r names, or None
    since,     \* history: Len(past) when r was received
    seen,      \* seen[r]: the graph r loaded
    graph,     \* graph[r]: the graph r is about to store
    left,      \* left[r]: the commands of r not judged yet
    used,      \* used[r]: the policy r read
    told,      \* told[r]: the revision the save of r answered
    answer     \* answer[r]: what r was told

request == <<ask, pc, expected, since, seen, graph, left, used, told, answer>>
vars == <<row, policy, log, past, first, stored, failures, request>>

Events == {"semantic_override_applied", "semantic_violation_blocked",
           "repair_applied", "audit_run"}
Entries == [event : Events, by : Requests, broken : SUBSET Rules, revision : Nat]
Steps == {"idle", "load", "policy", "create", "update", "report", "judge", "save",
          "reread", "repair", "done"}
Answers == {"none", "ok", "conflict", "violation", "error"}

TypeOK ==
    /\ row \in [revision : Nat, content : SUBSET Marks]
    /\ policy \in {None} \cup Policies
    /\ log \subseteq Entries
    /\ past \in Seq({None} \cup Policies) /\ past # <<>>
    /\ first \subseteq Marks
    /\ stored \subseteq [by : Requests, revision : Nat]
    /\ failures \in 0 .. MaxFailures
    /\ ask \in Mixes
    /\ pc \in [Requests -> Steps]
    /\ expected \in [Requests -> Nat \cup {None}]
    /\ since \in [Requests -> Nat]
    /\ seen \in [Requests -> SUBSET Marks]
    /\ graph \in [Requests -> SUBSET Marks]
    /\ left \in [Requests -> Seq(Commands)]
    /\ used \in [Requests -> {None} \cup Policies]
    /\ told \in [Requests -> Nat]
    /\ answer \in [Requests -> Answers]

IsBroken(rule, content) == rule.shows \subseteq content /\ rule.lacks \cap content = {}
BrokenIn(content) == {rule \in Rules : IsBroken(rule, content)}

\* The type the policy names, else the one of the snapshot.
TypeFor(settings, content) ==
    IF settings.diagramType # unset THEN settings.diagramType ELSE Drawn[content]

\* The rules a policy enforces on a graph; entity-relationship diagrams pass.
Enforced(settings, content) ==
    {rule \in Rules : /\ settings.enforceOnServer /\ settings.strictEnabled
                      /\ rule.type = TypeFor(settings, content)
                      /\ rule.type # erd}

CanOverride(a, settings) ==
    /\ a.override
    /\ settings.allowTechOverride
    /\ settings.requireOverrideReason => a.reason

DefaultPolicy(type) ==
    [settings |-> [f \in Fields |-> IF f = "diagramType" THEN type
                                                        ELSE f # "allowTechOverride"],
     version |-> 1]

NoChange == [add |-> {}, drop |-> {}]
Replacement(content) ==
    [does |-> "replace", main |-> [add |-> content, drop |-> Marks], data |-> NoChange]

\* The commands of a request; a put is the one that replaces everything.
CommandsOf(a) == IF a.kind = "put" THEN <<Replacement(a.content)>> ELSE a.commands

Init ==
    /\ \E s \in Starts : /\ row = s.row
                         /\ policy = s.policy
                         /\ past = <<s.policy>>
                         /\ first = s.row.content
    /\ log = {} /\ stored = {} /\ failures = 0
    /\ ask \in Mixes
    /\ pc = [r \in Requests |-> "idle"]
    /\ expected = [r \in Requests |-> None]
    /\ since = [r \in Requests |-> 1]
    /\ seen = [r \in Requests |-> {}]
    /\ graph = [r \in Requests |-> {}]
    /\ left = [r \in Requests |-> <<>>]
    /\ used = [r \in Requests |-> None]
    /\ told = [r \in Requests |-> 0]
    /\ answer = [r \in Requests |-> "none"]

Goto(r, step) == pc' = [pc EXCEPT ![r] = step]

Answer(r, what) ==
    /\ Goto(r, "done")
    /\ answer' = [answer EXCEPT ![r] = what]

-----------------------------------------------------------------------------
(* Receiving a request, loading the graph, finding the policy.             *)

Receive(r) ==
    /\ pc[r] = "idle"
    /\ expected' = [expected EXCEPT ![r] =
                      IF ask[r].guarded THEN row.revision ELSE None]
    /\ since' = [since EXCEPT ![r] = Len(past)]
    /\ left' = [left EXCEPT ![r] = CommandsOf(ask[r])]
    /\ Goto(r, IF ask[r].kind \in {"command", "audit"} THEN "load" ELSE "policy")
    /\ UNCHANGED <<row, policy, log, past, first, stored, failures, ask, seen,
                   graph, used, told, answer>>

Load(r) ==
    /\ pc[r] = "load"
    /\ seen' = [seen EXCEPT ![r] = row.content]
    /\ graph' = [graph EXCEPT ![r] = row.content]
    /\ Goto(r, "policy")
    /\ UNCHANGED <<row, policy, log, past, first, stored, failures, ask, expected,
                   since, left, used, told, answer>>

\* What a request does once it has its policy.
AfterPolicy(a) ==
    CASE a.kind \in {"command", "put"} -> "judge"
      [] a.kind = "audit" -> "report"
      [] a.kind = "patch" /\ DOMAIN a.patch # {} -> "update"
      [] OTHER -> "done"

Got(r, p) ==
    /\ used' = [used EXCEPT ![r] = p]
    /\ Goto(r, AfterPolicy(ask[r]))
    /\ answer' = [answer EXCEPT ![r] = IF AfterPolicy(ask[r]) = "done" THEN "ok" ELSE @]

\* Fault: the first policy ever read is kept in memory.
ReadPolicyCached(r) ==
    /\ pc[r] = "policy"
    /\ IF past[1] # None THEN Got(r, past[1])
       ELSE IF policy = None THEN Goto(r, "create") /\ UNCHANGED <<used, answer>>
       ELSE Got(r, policy)
    /\ UNCHANGED <<row, policy, log, past, first, stored, failures, ask, expected,
                   since, seen, graph, left, told>>

ReadPolicy(r) ==
    /\ pc[r] = "policy"
    /\ \/ /\ policy = None
          /\ Goto(r, "create")
          /\ UNCHANGED <<used, answer>>
       \/ /\ policy # None
          /\ Got(r, policy)
    /\ UNCHANGED <<row, policy, log, past, first, stored, failures, ask, expected,
                   since, seen, graph, left, told>>

\* The type a new policy takes: of the snapshot that is sent, that was loaded, or
\* (views, patches and audits) that is loaded for it.
NewType(r) ==
    CASE ask[r].kind = "put" -> Drawn[ask[r].content]
      [] ask[r].kind = "command" -> Drawn[seen[r]]
      [] OTHER -> Drawn[row.content]

\* An insert under a unique key: whoever comes second gets a database error.
CreatePolicy(r) ==
    /\ pc[r] = "create"
    /\ \/ /\ policy = None
          /\ policy' = DefaultPolicy(NewType(r))
          /\ past' = Append(past, policy')
          /\ Got(r, policy')
       \/ /\ policy # None
          /\ Answer(r, "error")
          /\ UNCHANGED <<policy, past, used>>
    /\ UNCHANGED <<row, log, first, stored, failures, ask, expected, since, seen,
                   graph, left, told>>

\* Fault: fields the patch does not name take their defaults.
PatchedFromDefaults(settings, patch) ==
    [f \in Fields |-> IF f \in DOMAIN patch THEN patch[f]
                                            ELSE DefaultPolicy(unset).settings[f]]

\* Fault: only the fields of the patch are written.
PatchedOnly(settings, patch) == patch

\* The fields of the patch, and those of the policy read for the others.
Patched(settings, patch) ==
    [f \in Fields |-> IF f \in DOMAIN patch THEN patch[f] ELSE settings[f]]

\* Every field is written, under no version.
UpdatePolicy(r) ==
    /\ pc[r] = "update"
    /\ policy' = [settings |-> Patched(used[r].settings, ask[r].patch),
                  version |-> policy.version + 1]
    /\ past' = Append(past, policy')
    /\ Answer(r, "ok")
    /\ UNCHANGED <<row, log, first, stored, failures, ask, expected, since, seen,
                   graph, left, used, told>>

-----------------------------------------------------------------------------
(* Judging, command by command, and storing the result at once.            *)

Entry(event, r, broken, revision) ==
    [event |-> event, by |-> r, broken |-> broken, revision |-> revision]

Changed(content, change) == (content \ change.drop) \cup change.add
Applied(content, command) == Changed(Changed(content, command.main), command.data)

\* Rules that a connection or the kind of a node breaks, and that `marks` play a part in.
Touched(rules, content, marks) ==
    {rule \in rules : /\ IsBroken(rule, content)
                      /\ rule.lacks = {} /\ rule.shows \cap marks # {}}

\* A change of kind, judged before the rest of its patch.
KindViolations(rules, content, command) ==
    Touched(rules, Changed(content, command.main), command.main.add)

\* Of a process, the edges of a node whose kind, label or data change.
DataViolations(rules, content, command) ==
    {rule \in Touched(rules, Applied(content, command),
                      command.main.add \cup command.data.add) :
       rule.type = flow /\ rule.shows \cap Edges # {}}

\* What a command is refused or overridden for.  New edges and kinds of edges are
\* judged by their ends, updates of nodes by their kind or else by the edges of the
\* node, whole snapshots by the audit.  New nodes and removals are not judged.
Violated(rules, content, command) ==
    LET ofKind == KindViolations(rules, content, command)
        ofData == DataViolations(rules, content, command)
    IN  CASE command.does = "replace" ->
               {rule \in rules : IsBroken(rule, Applied(content, command))}
          [] command.does \in {"addEdge", "updateEdge"} -> ofKind
          [] command.does = "updateNode" -> IF ofKind # {} THEN ofKind ELSE ofData
          [] command.does \in {"addNode", "remove"} -> {}

\* Fault: every command of a batch is judged on the graph that was loaded.
JudgedOnLoaded(r) ==
    LET command == Head(left[r])
    IN  Violated(Enforced(used[r].settings, Applied(graph[r], command)), seen[r], command)

\* A command leaves the type of the diagram alone, a replacement may bring another.
Judged(r) ==
    LET command == Head(left[r])
    IN  Violated(Enforced(used[r].settings, Applied(graph[r], command)), graph[r], command)

Accept(r) ==
    /\ graph' = [graph EXCEPT ![r] = Applied(@, Head(left[r]))]
    /\ left' = [left EXCEPT ![r] = Tail(@)]

Pass(r) ==
    /\ pc[r] = "judge" /\ left[r] # <<>>
    /\ Judged(r) = {}
    /\ Accept(r)
    /\ UNCHANGED <<row, policy, log, past, first, stored, failures, ask, pc,
                   expected, since, seen, used, told, answer>>

Override(r) ==
    /\ pc[r] = "judge" /\ left[r] # <<>>
    /\ Judged(r) # {}
    /\ CanOverride(ask[r], used[r].settings)
    /\ log' = log \cup {Entry("semantic_override_applied", r, Judged(r), 0)}
    /\ Accept(r)
    /\ UNCHANGED <<row, policy, past, first, stored, failures, ask, pc, expected,
                   since, seen, used, told, answer>>

\* Fault: the command is left out and the rest of the batch goes on.
BlockAndContinue(r) ==
    /\ pc[r] = "judge" /\ left[r] # <<>>
    /\ Judged(r) # {}
    /\ ~CanOverride(ask[r], used[r].settings)
    /\ log' = log \cup {Entry("semantic_violation_blocked", r, Judged(r), 0)}
    /\ left' = [left EXCEPT ![r] = Tail(@)]
    /\ UNCHANGED <<row, policy, past, first, stored, failures, ask, pc, expected,
                   since, seen, graph, used, told, answer>>

\* One refused command refuses the whole request.
Block(r) ==
    /\ pc[r] = "judge" /\ left[r] # <<>>
    /\ Judged(r) # {}
    /\ ~CanOverride(ask[r], used[r].settings)
    /\ log' = log \cup {Entry("semantic_violation_blocked", r, Judged(r), 0)}
    /\ Answer(r, "violation")
    /\ UNCHANGED <<row, policy, past, first, stored, failures, ask, expected, since,
                   seen, graph, left, used, told>>

AllJudged(r) ==
    /\ pc[r] = "judge" /\ left[r] = <<>>
    /\ Goto(r, "save")
    /\ UNCHANGED <<row, policy, log, past, first, stored, failures, ask, expected,
                   since, seen, graph, left, used, told, answer>>

\* What follows the answer of the save; a repair is logged with its revision.
Finish(r) ==
    \/ /\ ask[r].repair
       /\ Goto(r, "repair")
       /\ UNCHANGED answer
    \/ /\ ~ask[r].repair
       /\ Answer(r, "ok")

\* Under a revision the update is conditional and the row is read again to answer;
\* without one the update itself answers the row.
Save(r) ==
    /\ pc[r] = "save"
    /\ \/ /\ expected[r] \in {None, row.revision}
          /\ row' = [revision |-> row.revision + 1, content |-> graph[r]]
          /\ stored' = stored \cup {[by |-> r, revision |-> row.revision + 1]}
          /\ \/ /\ expected[r] # None
                /\ Goto(r, "reread")
                /\ UNCHANGED <<told, answer>>
             \/ /\ expected[r] = None
                /\ told' = [told EXCEPT ![r] = row.revision + 1]
                /\ Finish(r)
       \/ /\ expected[r] \notin {None, row.revision}
          /\ Answer(r, "conflict")
          /\ UNCHANGED <<row, stored, told>>
    /\ UNCHANGED <<policy, log, past, first, failures, ask, expected, since, seen,
                   graph, left, used>>

\* The answer of a save under a revision is the row as it is later.
Reread(r) ==
    /\ pc[r] = "reread"
    /\ told' = [told EXCEPT ![r] = row.revision]
    /\ Finish(r)
    /\ UNCHANGED <<row, policy, log, past, first, stored, failures, ask, expected,
                   since, seen, graph, left, used>>

LogRepair(r) ==
    /\ pc[r] = "repair"
    /\ log' = log \cup {Entry("repair_applied", r, {}, told[r])}
    /\ Answer(r, "ok")
    /\ UNCHANGED <<row, policy, past, first, stored, failures, ask, expected, since,
                   seen, graph, left, used, told>>

\* The audit of the stored graph is logged whatever it finds.
Report(r) ==
    /\ pc[r] = "report"
    /\ log' = log \cup {Entry("audit_run", r, BrokenIn(graph[r]), 0)}
    /\ Answer(r, "ok")
    /\ UNCHANGED <<row, policy, past, first, stored, failures, ask, expected, since,
                   seen, graph, left, used, told>>

\* A database call fails: what was written before stays.
CallFails(r) ==
    /\ failures < MaxFailures
    /\ pc[r] \notin {"idle", "done"}
    /\ failures' = failures + 1
    /\ Answer(r, "error")
    /\ UNCHANGED <<row, policy, log, past, first, stored, ask, expected, since,
                   seen, graph, left, used, told>>

-----------------------------------------------------------------------------

Step(r) ==
    \/ Receive(r) \/ Load(r)
    \/ ReadPolicy(r) \/ CreatePolicy(r) \/ UpdatePolicy(r)
    \/ Pass(r) \/ Override(r) \/ Block(r) \/ AllJudged(r)
    \/ Save(r) \/ Reread(r) \/ LogRepair(r) \/ Report(r)

Next == \E r \in Requests : Step(r) \/ CallFails(r)

Spec == Init /\ [][Next]_vars

-----------------------------------------------------------------------------

\* A policy that enforces the rule whatever the snapshot says of its type.
Firm(settings, rule) ==
    /\ settings.enforceOnServer /\ settings.strictEnabled
    /\ settings.diagramType = rule.type /\ rule.type \notin {erd, unset}

Lax(rule) == \E i \in DOMAIN past : past[i] # None /\ ~Firm(past[i].settings, rule)

Overridden(rule) ==
    \E e \in log : e.event = "semantic_override_applied" /\ rule \in e.broken

\* A command that can leave a rule broken that it does not find broken.
Brings(command, rule) ==
    \/ rule.shows \cap (command.main.add \cup command.data.add) # {}
    \/ rule.lacks \cap (command.main.drop \cup command.data.drop) # {}

\* The commands of a request of kind a that are judged for a rule they bring: not new
\* nodes and removals, nothing by what is missing, label and data only for the edges
\* of a process, and not when an override of the kind in the same patch let it through.
Covers(a, command, rule) ==
    \/ command.does = "replace"
    \/ /\ command.does \in {"addEdge", "updateEdge", "updateNode"}
       /\ rule.lacks = {}
       /\ \/ rule.shows \cap command.data.add = {}
          \/ /\ command.does = "updateNode"
             /\ rule.type = flow /\ rule.shows \cap Edges # {}
             /\ command.main.add = {} \/ ~a.override

Unjudged(a, rule) ==
    \E i \in DOMAIN CommandsOf(a) :
      Brings(CommandsOf(a)[i], rule) /\ ~Covers(a, CommandsOf(a)[i], rule)

\* A stored violation is accounted for: it was in the first graph, an override of it
\* was logged, the policy did not enforce the rule at some time, or a stored request
\* brought it by a command enforceCommandSemantics does not judge for it (a node out of
\* profile by addNode, a start without a path by a removal); whatever requests
\* interleave, fail or are judged on graphs and policies that have changed since.
ViolationsAreAccounted ==
    \A rule \in BrokenIn(row.content) :
      \/ rule \in BrokenIn(first) \/ Overridden(rule) \/ Lax(rule)
      \/ \E s \in stored : Unjudged(ask[s.by], rule)

RefusedStoresNothing ==
    \A s \in stored :
      /\ answer[s.by] \notin {"violation", "conflict"}
      /\ \A e \in log : e.by = s.by => e.event # "semantic_violation_blocked"

RepairsWereStored ==
    \A e \in log : e.event = "repair_applied" =>
      \E s \in stored : s.by = e.by /\ s.revision <= e.revision

\* A request that was logged as blocked, or refused as a violation or a conflict, stored
\* nothing; a repair the log shows was stored, at the revision the log names or before it.
EventsTellTheTruth == RefusedStoresNothing /\ RepairsWereStored

\* A patch changes a field it does not name only if another patch came between its
\* reading and its writing.
PatchesAreLostOnlyInRaces ==
    [][\A r \in Requests : pc[r] = "update" /\ answer'[r] = "ok" =>
         \/ used[r].version # policy.version
         \/ \A f \in Fields \ DOMAIN ask[r].patch :
              policy'.settings[f] = policy.settings[f]]_vars

\* A request stores a violation it adds only by an override of its own, under a policy
\* that did not enforce the rule at some time while the request ran, or by a command
\* of its own that is not judged for it.
StoredUnderAPolicyOfItsTime ==
    [][\A s \in stored' \ stored :
         \A rule \in BrokenIn(row'.content) \ BrokenIn(seen[s.by]) :
           \/ \E e \in log : /\ e.event = "semantic_override_applied"
                             /\ e.by = s.by /\ rule \in e.broken
           \/ \E i \in since[s.by] .. Len(past) :
                past[i] # None /\ ~Firm(past[i].settings, rule)
           \/ Unjudged(ask[s.by], rule)]_vars

=============================================================================
