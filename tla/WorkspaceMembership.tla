------------------------ MODULE WorkspaceMembership ------------------------
(***************************************************************************)
(* Concurrent changes of the memberships of one workspace.  A request      *)
(* checks that its actor is an owner, then runs a READ COMMITTED           *)
(* transaction: lock the owner rows, lock the target's row, decide, write. *)
(* SELECT ... FOR UPDATE takes the rows its snapshot shows one by one,     *)
(* waiting for each, and keeps those that still match when it has them;    *)
(* a row it does not find is not locked.  The write commits in one step,   *)
(* so role only holds committed rows.                                      *)
(*                                                                         *)
(* Roles below owner differ in nothing here and are one.                   *)
(***************************************************************************)
EXTENDS Naturals, FiniteSets

CONSTANTS
    Users,     \* users that may have a membership
    Inactive,  \* users whose account is disabled
    Txs,       \* requests
    Asks,      \* Asks[t]: what request t may ask for
    Free       \* no transaction: the row is not locked

Roles == {"owner", "member"}
Requests == [actor : Users, target : Users, grant : Roles \cup {"none"}]

ASSUME UsersAssumption == IsFiniteSet(Users)
ASSUME AsksAssumption == Asks \in [Txs -> SUBSET Requests]
ASSUME FreeAssumption == Free \notin Txs

VARIABLES
    role,     \* role[u]: u's membership, "none" without one
    lock,     \* lock[u]: the transaction that holds u's row
    pc,       \* pc[t]: the database call t makes next
    ask,      \* ask[t]: what t asks for
    toLock,   \* toLock[t]: owner rows of t's snapshot it has not reached yet
    owners,   \* owners[t]: owner rows t has locked and found to be owners
    current,  \* current[t]: the target's role when t locked it
    outcome   \* outcome[t]: the answer

vars == <<role, lock, pc, ask, toLock, owners, current, outcome>>
locals == <<ask, toLock, owners, current, outcome>>

Phases == {"new", "access", "scan", "owners", "target", "write", "done"}
Outcomes == {"pending", "ok", "forbidden", "inactive", "not_found",
             "last_owner", "aborted"}
NoRequest == [actor |-> "none", target |-> "none", grant |-> "none"]

TypeOK ==
    /\ role \in [Users -> Roles \cup {"none"}]
    /\ lock \in [Users -> Txs \cup {Free}]
    /\ pc \in [Txs -> Phases]
    /\ ask \in [Txs -> Requests \cup {NoRequest}]
    /\ toLock \in [Txs -> SUBSET Users]
    /\ owners \in [Txs -> SUBSET Users]
    /\ current \in [Txs -> Roles \cup {"none"}]
    /\ outcome \in [Txs -> Outcomes]

Owners == {u \in Users : role[u] = "owner"}

Init ==
    /\ role \in [Users -> Roles \cup {"none"}]
    /\ Owners # {}
    /\ lock = [u \in Users |-> Free]
    /\ pc = [t \in Txs |-> "new"]
    /\ ask = [t \in Txs |-> NoRequest]
    /\ toLock = [t \in Txs |-> {}]
    /\ owners = [t \in Txs |-> {}]
    /\ current = [t \in Txs |-> "none"]
    /\ outcome = [t \in Txs |-> "pending"]

-----------------------------------------------------------------------------

Goto(t, phase) == pc' = [pc EXCEPT ![t] = phase]

Release(t) == lock' = [u \in Users |-> IF lock[u] = t THEN Free ELSE lock[u]]

\* Commit and rollback alike release the locks and answer.
End(t, answer) ==
    /\ Release(t)
    /\ Goto(t, "done")
    /\ outcome' = [outcome EXCEPT ![t] = answer]

CanLock(t, u) == lock[u] \in {Free, t}

Submit(t) ==
    /\ pc[t] = "new"
    /\ \E a \in Asks[t] : ask' = [ask EXCEPT ![t] = a]
    /\ Goto(t, "access")
    /\ UNCHANGED <<role, lock, toLock, owners, current, outcome>>

\* assertWorkspaceAccess(), and for a grant the state of the target's account.
CheckAccess(t) ==
    /\ pc[t] = "access"
    /\ \/ /\ role[ask[t].actor] # "owner"
          /\ End(t, "forbidden")
       \/ /\ role[ask[t].actor] = "owner"
          /\ ask[t].grant # "none" /\ ask[t].target \in Inactive
          /\ End(t, "inactive")
       \/ /\ role[ask[t].actor] = "owner"
          /\ ask[t].grant = "none" \/ ask[t].target \notin Inactive
          /\ Goto(t, "scan")
          /\ UNCHANGED <<lock, outcome>>
    /\ UNCHANGED <<role, ask, toLock, owners, current>>

\* The snapshot of the first SELECT: the owners it will try to lock.
ScanOwners(t) ==
    /\ pc[t] = "scan"
    /\ toLock' = [toLock EXCEPT ![t] = Owners]
    /\ Goto(t, "owners")
    /\ UNCHANGED <<role, lock, ask, owners, current, outcome>>

\* Mutant: the rows of the snapshot count without a second look.
LockOwnerStale(t, u) ==
    /\ pc[t] = "owners"
    /\ u \in toLock[t]
    /\ CanLock(t, u)
    /\ toLock' = [toLock EXCEPT ![t] = @ \ {u}]
    /\ lock' = [lock EXCEPT ![u] = t]
    /\ owners' = [owners EXCEPT ![t] = @ \cup {u}]
    /\ UNCHANGED <<role, pc, ask, current, outcome>>

\* One of them: a row that is no owner any more stays locked but does not count.
LockOwner(t, u) ==
    /\ pc[t] = "owners"
    /\ u \in toLock[t]
    /\ CanLock(t, u)
    /\ toLock' = [toLock EXCEPT ![t] = @ \ {u}]
    /\ lock' = [lock EXCEPT ![u] = t]
    /\ owners' = IF role[u] = "owner" THEN [owners EXCEPT ![t] = @ \cup {u}]
                                      ELSE owners
    /\ UNCHANGED <<role, pc, ask, current, outcome>>

OwnersLocked(t) ==
    /\ pc[t] = "owners"
    /\ toLock[t] = {}
    /\ Goto(t, "target")
    /\ UNCHANGED <<role, lock, locals>>

\* assertWorkspaceOwnerMutationAllowed()
Allowed(t) ==
    \/ role[ask[t].target] # "owner"
    \/ ask[t].grant = "owner"
    \/ Cardinality(owners[t]) > 1

\* Mutant: the second SELECT without FOR UPDATE.
LockTargetUnlocked(t) ==
    /\ pc[t] = "target"
    /\ current' = [current EXCEPT ![t] = role[ask[t].target]]
    /\ \/ /\ role[ask[t].target] = "none" /\ ask[t].grant = "none"
          /\ End(t, "not_found")
       \/ /\ role[ask[t].target] # "none" \/ ask[t].grant # "none"
          /\ ~Allowed(t)
          /\ End(t, "last_owner")
       \/ /\ role[ask[t].target] # "none" \/ ask[t].grant # "none"
          /\ Allowed(t)
          /\ Goto(t, "write")
          /\ UNCHANGED <<lock, outcome>>
    /\ UNCHANGED <<role, ask, toLock, owners>>

\* Mutant: a refusal answers without rolling its transaction back.
LockTargetKeepsLocks(t) ==
    /\ pc[t] = "target"
    /\ \/ role[ask[t].target] = "none"
       \/ CanLock(t, ask[t].target)
    /\ current' = [current EXCEPT ![t] = role[ask[t].target]]
    /\ lock' = IF role[ask[t].target] = "none" THEN lock
               ELSE [lock EXCEPT ![ask[t].target] = t]
    /\ \/ /\ role[ask[t].target] = "none" /\ ask[t].grant = "none"
          /\ outcome' = [outcome EXCEPT ![t] = "not_found"]
          /\ Goto(t, "done")
       \/ /\ role[ask[t].target] # "none" \/ ask[t].grant # "none"
          /\ ~Allowed(t)
          /\ outcome' = [outcome EXCEPT ![t] = "last_owner"]
          /\ Goto(t, "done")
       \/ /\ role[ask[t].target] # "none" \/ ask[t].grant # "none"
          /\ Allowed(t)
          /\ Goto(t, "write")
          /\ UNCHANGED outcome
    /\ UNCHANGED <<role, ask, toLock, owners>>

\* The second SELECT and the decision on what it returns.
LockTarget(t) ==
    /\ pc[t] = "target"
    /\ \/ role[ask[t].target] = "none"
       \/ CanLock(t, ask[t].target)
    /\ current' = [current EXCEPT ![t] = role[ask[t].target]]
    /\ \/ /\ role[ask[t].target] = "none" /\ ask[t].grant = "none"
          /\ End(t, "not_found")
       \/ /\ role[ask[t].target] # "none" \/ ask[t].grant # "none"
          /\ ~Allowed(t)
          /\ End(t, "last_owner")
       \/ /\ role[ask[t].target] # "none" \/ ask[t].grant # "none"
          /\ Allowed(t)
          /\ lock' = IF role[ask[t].target] = "none" THEN lock
                     ELSE [lock EXCEPT ![ask[t].target] = t]
          /\ Goto(t, "write")
          /\ UNCHANGED outcome
    /\ UNCHANGED <<role, ask, toLock, owners>>

\* DELETE, or INSERT ... ON CONFLICT DO UPDATE, which takes over a row inserted
\* since the target was looked for; and the commit.  A deleted row is gone for
\* the transactions that have yet to lock it, even if the user gets a new one.
Write(t) ==
    /\ pc[t] = "write"
    /\ CanLock(t, ask[t].target)
    /\ role' = [role EXCEPT ![ask[t].target] = ask[t].grant]
    /\ toLock' = IF ask[t].grant = "none"
                 THEN [s \in Txs |-> toLock[s] \ {ask[t].target}] ELSE toLock
    /\ End(t, "ok")
    /\ UNCHANGED <<ask, owners, current>>

\* t waits for a row that s holds.
WaitsFor(t, s) ==
    \/ pc[t] = "owners" /\ \E u \in toLock[t] : lock[u] = s
    \/ pc[t] \in {"target", "write"} /\ lock[ask[t].target] = s

Deadlocked(t) ==
    \E D \in SUBSET Txs :
      /\ t \in D
      /\ \A s \in D : \E other \in D \ {s} : WaitsFor(s, other)

\* The database ends a deadlock by aborting one of its transactions.
Abort(t) ==
    /\ Deadlocked(t)
    /\ End(t, "aborted")
    /\ UNCHANGED <<role, ask, toLock, owners, current>>

-----------------------------------------------------------------------------

Step(t) ==
    \/ CheckAccess(t)
    \/ ScanOwners(t)
    \/ \E u \in Users : LockOwner(t, u)
    \/ OwnersLocked(t)
    \/ LockTarget(t)
    \/ Write(t)
    \/ Abort(t)

Next == \E t \in Txs : Submit(t) \/ Step(t)

Spec == Init /\ [][Next]_vars

FairSpec == Spec /\ \A t \in Txs : WF_vars(Step(t))

-----------------------------------------------------------------------------

\* A transaction that found the target's row and decided on it leaves an owner
\* behind, whatever the others did since it counted the owners.
LockedWriteKeepsAnOwner ==
    [][\A t \in Txs :
         Write(t) /\ current[t] # "none" /\ Owners # {} => Owners' # {}]_vars

\* The role a change replaces is the one the decision was made on.
LockedWriteReplacesWhatItRead ==
    [][\A t \in Txs :
         Write(t) /\ current[t] # "none" => role[ask[t].target] = current[t]]_vars

\* Requests that wait for each other's rows are all answered.
EveryRequestEnds == \A t \in Txs : (pc[t] # "new") ~> (pc[t] = "done")

\* The workspace always has an owner.
WorkspaceHasOwner == Owners # {}

=============================================================================
