----------------------------- MODULE AuthLogin -----------------------------
(***************************************************************************)
(* Users and their identities: a login looks its subject up, then updates  *)
(* the linked user or creates and links one, in a READ COMMITTED           *)
(* transaction; a membership for an address creates a user alone.  Before  *)
(* either, the readiness of the storage is inspected or taken from a       *)
(* cache.                                                                  *)
(*                                                                         *)
(* Requests write into a transaction of their own, that others see when it *)
(* commits; a writer waits for the transaction that holds its row or key.  *)
(* There is one provider.  User 0 and its identity may be there at first.  *)
(***************************************************************************)
EXTENDS Naturals, FiniteSets

CONSTANTS
    Subjects, Emails,
    Seeds,     \* user 0 at first, or None, and a subject that may be linked to it
    Wishes,    \* what is sent: records of a kind, a subject and an email
    Budget,    \* bound: requests and failing calls together
    None

Ids == 1 .. Budget
UserIds == 0 .. Budget     \* user i > 0 is inserted by request i
User == [email : Emails, active : BOOLEAN]

\* What is assumed of the constants; where this module is an instance, its user assumes it.
ConstantsAssumption ==
    /\ Seeds \subseteq [user : User \cup {None}, subject : Subjects]
    /\ Wishes \subseteq [kind : {"login", "invite"}, subject : Subjects, email : Emails]
    /\ Subjects # {} /\ Emails # {}
    /\ Budget \in Nat
    /\ None \notin User \cup UserIds

VARIABLES
    users,       \* app_users, committed: a user or None
    links,       \* auth_identities, committed: links[s] is the user of s, or None
    storage,     \* the tables and their migrations are in place
    cache,       \* readinessCache: "none", "ready" or "missing"
    req,         \* req[i]: the i-th request and its transaction
    met,         \* history: requests that ran beside another one
    failures

vars == <<users, links, storage, cache, req, met, failures>>
tables == <<users, links, storage, cache>>

Kinds == {"none", "login", "invite"}
Steps == {"unsent", "ready", "inspected", "find", "conflict", "update", "rival",
          "upsert", "link", "commit", "done"}
Answers == {"none", "ok", "refused", "duplicate", "missing", "failed"}

\* user, write: the user the transaction goes for and the row it has written;
\* link: the user of the identity it has inserted; locked: it holds the identity's row;
\* held: the emails of the user's row, old and new; seen: what it saw of the storage.
Request == [kind : Kinds, subject : Subjects, email : Emails, pc : Steps,
            user : UserIds \cup {None}, write : UserIds \cup {None},
            link : UserIds \cup {None}, locked : BOOLEAN, held : SUBSET Emails,
            seen : BOOLEAN, answer : Answers]
NoRequest ==
    [kind |-> "none", subject |-> CHOOSE s \in Subjects : TRUE,
     email |-> CHOOSE e \in Emails : TRUE, pc |-> "unsent", user |-> None,
     write |-> None, link |-> None, locked |-> FALSE, held |-> {}, seen |-> FALSE,
     answer |-> "none"]

TypeOK ==
    /\ users \in [UserIds -> User \cup {None}]
    /\ links \in [Subjects -> UserIds \cup {None}]
    /\ \A s \in Subjects : links[s] # None => users[links[s]] # None
    /\ storage \in BOOLEAN /\ cache \in {"none", "ready", "missing"}
    /\ req \in [Ids -> Request]
    /\ met \subseteq Ids /\ failures \in 0 .. Budget

Init ==
    /\ \E seed \in Seeds, linked \in BOOLEAN :
         /\ users = [u \in UserIds |-> IF u = 0 THEN seed.user ELSE None]
         /\ links = [s \in Subjects |->
              IF linked /\ seed.user # None /\ s = seed.subject THEN 0 ELSE None]
    /\ storage \in BOOLEAN
    /\ IF storage THEN cache = "ready" ELSE cache = "none" /\ users[0] = None
    /\ req = [i \in Ids |-> NoRequest]
    /\ met = {} /\ failures = 0

-----------------------------------------------------------------------------

Sent == {i \in Ids : req[i].kind # "none"}
Running == {i \in Sent : req[i].pc # "done"}
InBudget == Cardinality(Sent) + failures < Budget

Send(wish) ==
    /\ InBudget
    /\ LET i == Cardinality(Sent) + 1
       IN  /\ req' = [req EXCEPT ![i] =
                [NoRequest EXCEPT !.kind = wish.kind, !.subject = wish.subject,
                                  !.email = wish.email, !.pc = "ready"]]
           /\ met' = IF Running = {} THEN met ELSE met \cup Running \cup {i}
    /\ UNCHANGED <<tables, failures>>

Goto(i, step) == req' = [req EXCEPT ![i].pc = step]

\* The transaction, if there is one, is rolled back.
Rollback(i, what) ==
    req' = [req EXCEPT ![i] =
              [NoRequest EXCEPT !.kind = req[i].kind, !.pc = "done", !.answer = what]]

First(i) == IF req[i].kind = "login" THEN "find" ELSE "upsert"

\* inspectAuthStorageReadiness(): a report that has not expired is used again ...
Inspect(i) ==
    /\ req[i].pc = "ready"
    /\ \/ cache = "ready" /\ Goto(i, First(i))
       \/ cache = "missing" /\ Rollback(i, "missing")
       \/ cache = "none" /\ req' = [req EXCEPT ![i].pc = "inspected", ![i].seen = storage]
    /\ UNCHANGED <<tables, met, failures>>

\* ... and a new one replaces whatever is cached by then.
Report(i) ==
    /\ req[i].pc = "inspected"
    /\ cache' = IF req[i].seen THEN "ready" ELSE "missing"
    /\ IF req[i].seen THEN Goto(i, First(i)) ELSE Rollback(i, "missing")
    /\ UNCHANGED <<users, links, storage, met, failures>>

\* Five seconds are over.  Bound: a report of a ready storage only expires while an
\* older inspection may still replace it; another one would say the same.
Expire ==
    /\ cache # "none" /\ cache' = "none"
    /\ cache = "ready" => \E i \in Ids : req[i].pc = "inspected" /\ ~req[i].seen
    /\ UNCHANGED <<users, links, storage, req, met, failures>>

\* The migrations are applied.
Migrate ==
    /\ ~storage /\ storage' = TRUE
    /\ UNCHANGED <<users, links, cache, req, met, failures>>

Email(u) == IF users[u] = None THEN None ELSE users[u].email
HasEmail(e) == {u \in UserIds : users[u] # None /\ users[u].email = e}

\* syncAuthenticatedActor() reads the identity and its user.
Find(i) ==
    /\ req[i].pc = "find"
    /\ LET u == links[req[i].subject]
       IN  \/ u = None /\ Goto(i, "rival")
           \/ /\ u # None
              /\ IF users[u].active
                   THEN req' = [req EXCEPT ![i].pc = "conflict", ![i].user = u]
                   ELSE Rollback(i, "refused")
    /\ UNCHANGED <<tables, met, failures>>

\* updateExistingUserTx(): the address may belong to somebody else ...
Conflict(i) ==
    /\ req[i].pc = "conflict"
    /\ IF HasEmail(req[i].email) \ {req[i].user} # {}
         THEN Rollback(i, "refused")
         ELSE Goto(i, "update")
    /\ UNCHANGED <<tables, met, failures>>

\* Another transaction holds one of these rows or keys.
UserHeld(i, u) == \E j \in Running \ {i} : req[j].write = u
KeyHeld(i, e) == \E j \in Running \ {i} : e \in req[j].held
LinkHeld(i, s) == \E j \in Running \ {i} : req[j].locked /\ req[j].subject = s

\* ... and may do so by now.
Update(i) ==
    /\ req[i].pc = "update"
    /\ ~UserHeld(i, req[i].user) /\ ~KeyHeld(i, req[i].email)
    /\ IF HasEmail(req[i].email) \ {req[i].user} # {}
         THEN Rollback(i, "duplicate")
         ELSE req' = [req EXCEPT ![i].pc = "commit", ![i].write = req[i].user,
                                 ![i].held = {Email(req[i].user), req[i].email}]
    /\ UNCHANGED <<tables, met, failures>>

\* Fault: any identity of the user is accepted beside the new one.
RivalAccepted(i) ==
    /\ req[i].pc = "rival"
    /\ Goto(i, "upsert")
    /\ UNCHANGED <<tables, met, failures>>

\* A new subject may not take a user that another subject is linked to.
Rival(i) ==
    /\ req[i].pc = "rival"
    /\ IF \E s \in Subjects \ {req[i].subject} :
            links[s] # None /\ Email(links[s]) = req[i].email
         THEN Rollback(i, "refused")
         ELSE Goto(i, "upsert")
    /\ UNCHANGED <<tables, met, failures>>

\* upsertUserByEmailTx(): the row with the address, or a new one.
Upsert(i) ==
    /\ req[i].pc = "upsert"
    /\ ~KeyHeld(i, req[i].email)
    /\ \E u \in (IF HasEmail(req[i].email) = {} THEN {i} ELSE HasEmail(req[i].email)) :
         req' = [req EXCEPT ![i].user = u, ![i].write = u, ![i].held = {req[i].email},
                   ![i].pc = IF req[i].kind = "login" THEN "link" ELSE "commit"]
    /\ UNCHANGED <<tables, met, failures>>

\* Whoever the identity belongs to has to be active.
Resolved(i, u, link) ==
    IF users[u] # None /\ ~users[u].active
      THEN Rollback(i, "refused")
      ELSE req' = [req EXCEPT ![i].pc = "commit", ![i].locked = TRUE, ![i].user = u,
                              ![i].link = link]

\* The identity is inserted, or found after all, with the user it has.  A user other than
\* the upserted one is looked up by findUserByIdTx(), which compares the UUID column with
\* an uncast parameter: the build's driver and database may answer it or fail it.
Link(i) ==
    /\ req[i].pc = "link"
    /\ ~LinkHeld(i, req[i].subject)
    /\ IF links[req[i].subject] = None
         THEN Resolved(i, req[i].user, req[i].user)
         ELSE \/ Resolved(i, links[req[i].subject], None)
              \/ links[req[i].subject] # req[i].user /\ Rollback(i, "failed")
    /\ UNCHANGED <<tables, met, failures>>

Committed(i) ==
    /\ users' = [users EXCEPT ![req[i].write] =
         [email |-> req[i].email, active |-> IF @ = None THEN TRUE ELSE @.active]]
    /\ links' = [links EXCEPT ![req[i].subject] =
         IF req[i].link = None THEN @ ELSE req[i].link]

\* A login by a known subject updates the identity's row first.
Commit(i) ==
    /\ req[i].pc = "commit"
    /\ req[i].kind = "login" => ~LinkHeld(i, req[i].subject)
    /\ Committed(i)
    /\ req' = [req EXCEPT ![i].pc = "done", ![i].answer = "ok", ![i].write = None,
                 ![i].link = None, ![i].locked = FALSE, ![i].held = {}]
    /\ UNCHANGED <<storage, cache, met, failures>>

\* A call fails, or the server stops: the transaction is rolled back.
CallFails(i) ==
    /\ InBudget /\ i \in Running
    /\ failures' = failures + 1
    /\ Rollback(i, "failed")
    /\ UNCHANGED <<tables, met>>

-----------------------------------------------------------------------------

Serve(i) ==
    \/ Inspect(i) \/ Report(i) \/ Find(i) \/ Conflict(i) \/ Update(i)
    \/ Rival(i) \/ Upsert(i) \/ Link(i) \/ Commit(i)

Next ==
    \/ \E wish \in Wishes : Send(wish)
    \/ \E i \in Ids : Serve(i) \/ CallFails(i)
    \/ Expire \/ Migrate

Spec == Init /\ [][Next]_vars

\* Requests are served, and time passes.
Fairness == (\A i \in Ids : WF_vars(Serve(i))) /\ WF_vars(Expire)
FairSpec == Spec /\ Fairness

-----------------------------------------------------------------------------

Done(i, what) == i \in Sent /\ req[i].answer = what

\* A login that succeeds answers with the user its subject is linked to.
AnswersNameTheLinkedUser ==
    \A i \in Ids :
      Done(i, "ok") /\ req[i].kind = "login" => req[i].user = links[req[i].subject]

\* Two subjects are linked to one user only if logins met: the one that linked the
\* second looked for the first before it was there.
SubjectsShareAUserOnlyInRaces ==
    \A s, t \in Subjects :
      s # t /\ links[s] # None /\ links[s] = links[t] =>
        \E i \in met : Done(i, "ok") /\ req[i].kind = "login" /\ req[i].subject \in {s, t}

\* A call of the user store that is refused leaves no user behind.  (The administrator's
\* form commits the user with its own call, upsertAppUserByEmail(), before the membership:
\* a membership refused after it does leave the user.)
RefusedRequestsLeaveNoUser ==
    \A i \in Ids : users[i] # None => req[i].answer = "ok"

\* An address that another user has is refused as such; the key of the table only
\* stops logins that met another request.
KeyStopsOnlyRaces == \A i \in Ids : Done(i, "duplicate") => i \in met

\* Every request ends: whoever waits for a row or a key gets it.  As there are Budget of
\* them at most, this is to say that none is left in the end.
EveryRequestEnds == Running # {} ~> Running = {}

\* Once the storage is there, requests are not refused for it for long.
ReadinessCatchesUp == [](storage => <>(cache # "missing"))

=============================================================================
