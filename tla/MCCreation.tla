----------------------------- MODULE MCCreation -----------------------------
(***************************************************************************)
(* How a project comes into being and how its draft is filled in, saved    *)
(* and applied: the two share no row, for a draft's project exists.  A     *)
(* behaviour is one of either part, the other one stands still.            *)
(***************************************************************************)
EXTENDS CreationDraft, TLC

CONSTANTS t1, t2, a, b, u1, u2,
    Areas,
    Users, Names, Wishes, Base, Chars, Digit, MaxSuffix, Width, WorkspaceSlugs, Budget2

VARIABLES area, primarySlug, workspaces, projects, creation, met, lost

Projects == INSTANCE ProjectCreation
              WITH req <- creation, failures <- lost, Budget <- Budget2

ASSUME ProjectsAssumption == Projects!ConstantsAssumption

draftVars == vars
projectVars == <<primarySlug, workspaces, projects, creation, met, lost>>

-----------------------------------------------------------------------------
(* A draft without a is incomplete.  Of three names one fills the slug and  *)
(* one is the other's numbered slug.                                        *)

MCFills == t1 :> {a} @@ t2 :> {b}
MCCalls ==
    LET One(kind, content, withMap) ==
          [kind |-> kind, content |-> content, withMap |-> withMap]
    IN  {One("create", {b}, TRUE), One("save", {}, FALSE),
         One("applyStored", {}, FALSE)}

MCNames == {"plan", "plan-2", "longest"}
MCBase ==
    [n \in MCNames |-> CASE n = "plan"    -> <<"p">>
                         [] n = "plan-2"  -> <<"p", "-", "2">>
                         [] n = "longest" -> <<"l", "o", "n", "g", "e">>]
MCWishes ==
    LET Wish(u, kind, names) == [user : {u}, kind : {kind}, name : names]
    IN  Wish(u1, "assistant", MCNames) \cup Wish(u1, "project", {"plan", "longest"})
          \cup Wish(u2, "assistant", {"plan"}) \cup Wish(u2, "workspace", {"plan"})
MCDigit == [k \in 2 .. 5 |-> <<"1", "2", "3", "4", "5">>[k]]
MCChars == {"-", "2", "3", "4", "5", "p", "l", "o", "n", "g", "e"}

-----------------------------------------------------------------------------

MCInit ==
    /\ area \in Areas
    /\ Init
    /\ Projects!Init
    /\ area = "draft" => primarySlug \in [Users -> {CHOOSE s \in WorkspaceSlugs : TRUE}]

MCNext ==
    \/ area = "draft" /\ Next /\ UNCHANGED <<area, projectVars>>
    \/ area = "projects" /\ Projects!Next /\ UNCHANGED <<area, draftVars>>

\* Each part's own fairness, as its module has it.
MCSpec ==
    /\ MCInit /\ [][MCNext]_<<area, draftVars, projectVars>>
    /\ \A i \in Ids : WF_draftVars(area = "draft" /\ Serve(i))
    /\ \A t \in Tabs : WF_draftVars(area = "draft" /\ Hear(t))
    /\ \A i \in 1 .. Budget2 : WF_projectVars(area = "projects" /\ Projects!Serve(i))

\* Drafts, tabs, workspaces, projects and requests keep their types (ProjectCreationDraft,
\* Project).
TypesOK == TypeOK /\ Projects!TypeOK

\* One workspace for a user of the assistant, no gap in the numbers of slugs, no refusal
\* of a creation on its own (getOrCreatePrimaryWorkspace, resolveUniqueProjectSlug).
ProjectsAreSound ==
    /\ Projects!AssistantMakesOneWorkspace
    /\ Projects!SuffixesHaveNoGap
    /\ Projects!LoneCreationSucceeds

\* Every save and application of a draft ends, and every creation whose name leaves room
\* for a number (applyCreationToProject, resolveUniqueProjectSlug).
CallsAndCandidatesEnd == EveryRequestEnds /\ Projects!CreationsWithRoomEnd

\* Every creation ends, as create-project.test.ts:93 has it: 'creates a project and
\* resolves slug collision'.
EveryCreationEnds == Projects!EveryCreationEnds
=============================================================================
