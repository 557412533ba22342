------------------------------ MODULE MCAccess ------------------------------
(***************************************************************************)
(* Who gets in and who belongs to a workspace: logins with their users and *)
(* identities, and memberships.  They meet in no row here.  A behaviour is *)
(* one of either part, the other one stands still.                         *)
(***************************************************************************)
EXTENDS WorkspaceMembership, TLC

CONSTANTS ann, bob, cy, dan, t1, t2, t3, t4, t5, s1, s2, e1, e2,
    Areas,
    Subjects, Emails, Seeds, Wishes, Budget, None

VARIABLES area, users, links, storage, cache, login, met, failures

Logins == INSTANCE AuthLogin WITH req <- login

ASSUME LoginsAssumption == Logins!ConstantsAssumption

memberVars == vars
loginVars == <<users, links, storage, cache, login, met, failures>>

-----------------------------------------------------------------------------

Request(x, u, g) == [actor |-> x, target |-> u, grant |-> g]

\* The ownership moves from ann to bob, then to cy, while t1 makes cy a member.
HandoverAsks ==
    t1 :> {Request(ann, cy, "member")}
    @@ t2 :> {Request(ann, bob, "owner")}
    @@ t3 :> {Request(bob, ann, "member")}
    @@ t4 :> {Request(bob, cy, "owner")}
    @@ t5 :> {Request(cy, bob, "member")}

\* Its first four requests, of which t3 may remove ann, and t4 may invite or remove
\* dan or remove bob instead.
MixedAsks ==
    [t \in Txs |-> HandoverAsks[t] \cup
       CASE t = t3 -> {Request(ann, ann, "none")}
         [] t = t4 -> {Request(ann, dan, "member"), Request(bob, dan, "none"),
                       Request(ann, bob, "none")}
         [] OTHER -> {}]

\* Two subjects that share an address.
MCSeeds == [user : {[email |-> e1, active |-> b] : b \in BOOLEAN} \cup {None}, subject : {s1}]
MCWishes ==
    {[kind |-> "login", subject |-> s1, email |-> e] : e \in {e1, e2}}
    \cup {[kind |-> k, subject |-> s2, email |-> e2] : k \in {"login", "invite"}}

-----------------------------------------------------------------------------

\* ann's workspace, with or without cy and dan.
OneOwner == Init /\ Owners = {ann} /\ role[bob] = "none"

\* What stands still does so in one state.
MCInit ==
    /\ area \in Areas
    /\ OneOwner /\ (area = "logins" => \A u \in Users : role[u] = "none" \/ u = ann)
    /\ Logins!Init /\ (area = "members" => storage /\ users[0] = None)

MCNext ==
    \/ area = "members" /\ Next /\ UNCHANGED <<area, loginVars>>
    \/ area = "logins" /\ Logins!Next /\ UNCHANGED <<area, memberVars>>

\* Each part's own fairness, as its module has it.
MCSpec ==
    /\ MCInit /\ [][MCNext]_<<area, memberVars, loginVars>>
    /\ \A t \in Txs : WF_memberVars(area = "members" /\ Step(t))
    /\ \A i \in 1 .. Budget : WF_loginVars(area = "logins" /\ Logins!Serve(i))
    /\ WF_loginVars(area = "logins" /\ Logins!Expire)

\* Memberships, users, identities and requests keep their types.  Who was let in is whom
\* its identity names, shares a user only in a race, and a call of the user store that was
\* refused left nothing; the user of a membership is committed by a call of its own, before
\* the membership's transaction (upsertMembership, syncAuthenticatedActor, updateExistingUserTx).
AccessIsSound ==
    /\ TypeOK
    /\ Logins!TypeOK
    /\ Logins!AnswersNameTheLinkedUser
    /\ Logins!SubjectsShareAUserOnlyInRaces
    /\ Logins!RefusedRequestsLeaveNoUser
    /\ Logins!KeyStopsOnlyRaces

\* Every membership change, login and invitation ends, and a storage that is there is
\* found in time (upsertMembership, removeMembership, inspectAuthStorageReadiness).
EverythingEnds ==
    /\ EveryRequestEnds
    /\ Logins!EveryRequestEnds
    /\ Logins!ReadinessCatchesUp
=============================================================================
