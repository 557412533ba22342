-------------------------- MODULE ProjectCreation --------------------------
(***************************************************************************)
(* Workspaces and projects come into being: an assistant creates both, one *)
(* database call after the other and without a transaction; two more       *)
(* routes create either alone.  Slugs are looked for, then inserted under  *)
(* a unique key.                                                           *)
(*                                                                         *)
(* A slug is the sequence of its characters, cut at Width.  A user belongs *)
(* to the workspaces it owns; nothing is ever deleted.                     *)
(***************************************************************************)
EXTENDS Naturals, Sequences, FiniteSets

CONSTANTS
    Users, Names,
    Wishes,        \* what is asked for: records of a user, a kind and a name
    Base,          \* Base[n]: the slug of the name n
    Chars,         \* what slugs are made of
    Digit,         \* Digit[k]: how the number k is written, as one character
    MaxSuffix,     \* bound: the largest number; more than the requests need
    Width,         \* slugs are this long at most
    WorkspaceSlugs,
    Budget,        \* bound: requests and failing calls together
    None

Ids == 1 .. Budget
Parts == {"draft", "settings", "map"}
Suffixes == 2 .. MaxSuffix
Slugs == {s \in Seq(Chars) : Len(s) <= Width}
Project == [ws : Nat, slug : Slugs, has : SUBSET Parts]

\* What is assumed of the constants; where this module is an instance, its user assumes it.
ConstantsAssumption ==
    /\ Users # {} /\ Names # {}
    /\ Wishes \subseteq
         [user : Users, kind : {"assistant", "project", "workspace"}, name : Names]
    /\ Budget \in Nat /\ Width \in Nat /\ MaxSuffix \in Nat /\ MaxSuffix > Budget + 1
    /\ Base \in [Names -> Slugs] /\ "-" \in Chars
    /\ Digit \in [Suffixes -> Chars]
    /\ \A j, k \in Suffixes : Digit[j] = Digit[k] => j = k
    /\ None \notin Project /\ None \notin WorkspaceSlugs

VARIABLES
    primarySlug,   \* primarySlug[u]: addresses may give the same slug
    workspaces,    \* the workspaces in the order of their creation
    projects,      \* projects[i]: the project request i inserted, or None
    req,           \* req[i]: the i-th request
    met,           \* history: requests that ran beside another one
    failures

vars == <<primarySlug, workspaces, projects, req, met, failures>>

Kinds == {"none", "assistant", "project", "workspace"}
Steps == {"unsent", "workspace", "insertWorkspace", "slug", "insert",
          "draft", "settings", "map", "done"}
Answers == {"none", "ok", "conflict", "duplicate", "failed"}
Workspace == [slug : WorkspaceSlugs, owner : Users]
Request == [user : Users, kind : Kinds, name : Names, pc : Steps, ws : Nat,
            target : WorkspaceSlugs \cup {None}, slug : Slugs, suffix : Suffixes,
            answer : Answers]

\* `${baseSlug}-${suffix}`.slice(0, 80)
Candidate(n, k) ==
    LET whole == Base[n] \o <<"-", Digit[k]>>
    IN  SubSeq(whole, 1, IF Len(whole) < Width THEN Len(whole) ELSE Width)

NoRequest ==
    LET u == CHOOSE u \in Users : TRUE
        n == CHOOSE n \in Names : TRUE
    IN  [user |-> u, kind |-> "none", name |-> n, pc |-> "unsent", ws |-> 0,
         target |-> None, slug |-> Base[n], suffix |-> 2, answer |-> "none"]

TypeOK ==
    /\ primarySlug \in [Users -> WorkspaceSlugs]
    /\ workspaces \in Seq(Workspace)
    /\ projects \in [Ids -> Project \cup {None}]
    /\ \A i \in Ids : projects[i] # None => projects[i].ws \in DOMAIN workspaces
    /\ req \in [Ids -> Request]
    /\ met \subseteq Ids
    /\ failures \in 0 .. Budget

Init ==
    /\ primarySlug \in [Users -> WorkspaceSlugs]
    /\ workspaces = <<>>
    /\ projects = [i \in Ids |-> None]
    /\ req = [i \in Ids |-> NoRequest]
    /\ met = {}
    /\ failures = 0

-----------------------------------------------------------------------------

Sent == {i \in Ids : req[i].kind # "none"}
Running == {i \in Sent : req[i].pc # "done"}
InBudget == Cardinality(Sent) + failures < Budget

Owned(u) == {w \in DOMAIN workspaces : workspaces[w].owner = u}
WorkspaceTaken(s) == \E w \in DOMAIN workspaces : workspaces[w].slug = s
Taken(w, s) ==
    \E i \in Ids : projects[i] # None /\ projects[i].ws = w /\ projects[i].slug = s

\* The slug of the workspace to create: any, or the one made of the user's address.
Targets(u, kind) ==
    CASE kind = "workspace" -> WorkspaceSlugs
      [] kind = "assistant" -> {primarySlug[u]}
      [] kind = "project"   -> {None}

\* A user asks for a workspace, or for a project in a workspace it owns, or lets
\* the assistant see to both.
Send(u, kind, n) ==
    /\ InBudget
    /\ LET i == Cardinality(Sent) + 1
       IN  /\ \E w \in (IF kind = "project" THEN Owned(u) ELSE {0}), s \in Targets(u, kind) :
                req' = [req EXCEPT ![i] =
                  [NoRequest EXCEPT
                    !.user = u, !.kind = kind, !.name = n, !.ws = w, !.target = s,
                    !.slug = Base[n],
                    !.pc = IF kind = "project" THEN "slug" ELSE "workspace"]]
           /\ met' = IF Running = {} THEN met ELSE met \cup Running \cup {i}
    /\ UNCHANGED <<primarySlug, workspaces, projects, failures>>

Goto(i, step) == req' = [req EXCEPT ![i].pc = step]
Answer(i, what) == req' = [req EXCEPT ![i].pc = "done", ![i].answer = what]

\* The route for workspaces refuses a slug that exists; the assistant takes the
\* oldest workspace of its user, if there is one.
FindWorkspace(i) ==
    /\ req[i].pc = "workspace"
    /\ \/ /\ req[i].kind = "workspace"
          /\ IF WorkspaceTaken(req[i].target)
               THEN Answer(i, "conflict")
               ELSE Goto(i, "insertWorkspace")
       \/ /\ req[i].kind = "assistant"
          /\ IF Owned(req[i].user) = {}
               THEN Goto(i, "insertWorkspace")
               ELSE req' = [req EXCEPT ![i].pc = "slug",
                              ![i].ws = CHOOSE w \in Owned(req[i].user) :
                                          \A v \in Owned(req[i].user) : w <= v]
    /\ UNCHANGED <<primarySlug, workspaces, projects, met, failures>>

Inserted(i) ==
    /\ workspaces' = Append(workspaces, [slug |-> req[i].target,
                                         owner |-> req[i].user])
    /\ req' = [req EXCEPT ![i].ws = Len(workspaces'),
                 ![i].pc = IF req[i].kind = "workspace" THEN "done" ELSE "slug",
                 ![i].answer = IF req[i].kind = "workspace" THEN "ok" ELSE @]

\* Fault: workspaces may share a slug.
InsertWorkspaceAnyway(i) ==
    /\ req[i].pc = "insertWorkspace"
    /\ Inserted(i)
    /\ UNCHANGED <<primarySlug, projects, met, failures>>

\* The workspace and its owner's membership, in one transaction.
InsertWorkspace(i) ==
    /\ req[i].pc = "insertWorkspace"
    /\ IF WorkspaceTaken(req[i].target)
         THEN Answer(i, "duplicate") /\ UNCHANGED workspaces
         ELSE Inserted(i)
    /\ UNCHANGED <<primarySlug, projects, met, failures>>

\* Past the bound the count starts again: only a name without room for a suffix,
\* whose candidates are all the same, gets there.
After(k) == IF k + 1 \in Suffixes THEN k + 1 ELSE 2

\* Fault: the suffix is not counted up.
LookUpSame(i) ==
    /\ req[i].pc = "slug"
    /\ IF Taken(req[i].ws, req[i].slug)
         THEN req' = [req EXCEPT ![i].slug = Candidate(req[i].name, 2),
                                 ![i].suffix = IF @ = 2 THEN 3 ELSE 2]
         ELSE Goto(i, "insert")
    /\ UNCHANGED <<primarySlug, workspaces, projects, met, failures>>

\* One turn of the loop in resolveUniqueProjectSlug().
LookUp(i) ==
    /\ req[i].pc = "slug"
    /\ IF Taken(req[i].ws, req[i].slug)
         THEN req' = [req EXCEPT ![i].slug = Candidate(req[i].name, req[i].suffix),
                                 ![i].suffix = After(@)]
         ELSE Goto(i, "insert")
    /\ UNCHANGED <<primarySlug, workspaces, projects, met, failures>>

InsertProject(i) ==
    /\ req[i].pc = "insert"
    /\ \/ /\ Taken(req[i].ws, req[i].slug)
          /\ Answer(i, "duplicate")
          /\ UNCHANGED projects
       \/ /\ ~Taken(req[i].ws, req[i].slug)
          /\ projects' = [projects EXCEPT ![i] =
               [ws |-> req[i].ws, slug |-> req[i].slug, has |-> {}]]
          /\ IF req[i].kind = "project" THEN Answer(i, "ok") ELSE Goto(i, "draft")
    /\ UNCHANGED <<primarySlug, workspaces, met, failures>>

\* The draft, the settings and the initial map, each a call of its own.
Fill(i) ==
    /\ req[i].pc \in Parts
    /\ projects' = [projects EXCEPT ![i].has = @ \cup {req[i].pc}]
    /\ CASE req[i].pc = "draft"    -> Goto(i, "settings")
         [] req[i].pc = "settings" -> Goto(i, "map")
         [] req[i].pc = "map"      -> Answer(i, "ok")
    /\ UNCHANGED <<primarySlug, workspaces, met, failures>>

\* What was inserted before stays.
CallFails(i) ==
    /\ InBudget /\ i \in Running
    /\ failures' = failures + 1
    /\ Answer(i, "failed")
    /\ UNCHANGED <<primarySlug, workspaces, projects, met>>

-----------------------------------------------------------------------------

Serve(i) ==
    \/ FindWorkspace(i) \/ InsertWorkspace(i) \/ LookUp(i) \/ InsertProject(i) \/ Fill(i)

Next ==
    \/ \E wish \in Wishes : Send(wish.user, wish.kind, wish.name)
    \/ \E i \in Ids : Serve(i) \/ CallFails(i)

Spec == Init /\ [][Next]_vars

\* Handlers run.
Fairness == \A i \in Ids : WF_vars(Serve(i))
FairSpec == Spec /\ Fairness

-----------------------------------------------------------------------------

HasRoom(n) == Len(Base[n]) + 2 <= Width

\* A user who never asks for a workspace by its slug has one at most, whatever it sends
\* at the same time.
AssistantMakesOneWorkspace ==
    \A u \in Users :
      (\A i \in Sent : req[i].user = u => req[i].kind # "workspace")
        => Cardinality(Owned(u)) <= 1

\* Slugs are numbered without a gap: the numbers below one in use were all used,
\* the plain slug included, whoever inserted them.
SuffixesHaveNoGap ==
    \A i \in Ids, k \in Suffixes :
      projects[i] # None /\ projects[i].slug = Candidate(req[i].name, k) =>
        Taken(projects[i].ws, IF k = 2 THEN Base[req[i].name]
                                       ELSE Candidate(req[i].name, k - 1))

\* A creation that met no other one and no failure is not refused for a slug that is in
\* use, unless it is the assistant's, whose user has no workspace, and another user's has
\* the slug of this user's address.
LoneCreationSucceeds ==
    \A i \in Sent :
      req[i].answer = "duplicate" /\ i \notin met =>
        /\ req[i].kind = "assistant"
        /\ \E w \in DOMAIN workspaces :
             /\ workspaces[w].slug = primarySlug[req[i].user]
             /\ workspaces[w].owner # req[i].user

RunningWithRoom == {i \in Running : HasRoom(req[i].name)}

\* The creation of a project whose name leaves room for a number ends: of the Budget
\* requests there are at most, none is left in the end.
CreationsWithRoomEnd == RunningWithRoom # {} ~> RunningWithRoom = {}

\* Every creation ends: a slug that is in use is resolved.
EveryCreationEnds == \A i \in Ids : req[i].kind # "none" ~> req[i].pc = "done"

=============================================================================
