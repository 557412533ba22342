--------------------------- MODULE MCAccess_proofs ---------------------------
(***************************************************************************)
(* Proofs about WorkspaceMembership, for any users and requests: types,    *)
(* and that what a transaction decides under its row locks still holds     *)
(* when it writes.  And about logins beside it, for any subjects,          *)
(* addresses and requests, and any number of them: types, whom an answer   *)
(* names, who shares a user, and what a refused request leaves behind.     *)
(***************************************************************************)
EXTENDS MCAccess, FiniteSetTheorems, TLAPS

\* Nothing is asked before it is submitted and no owner is locked before the scan.
Asked ==
    \A t \in Txs :
      /\ pc[t] # "new" => ask[t] \in Requests
      /\ pc[t] \in {"new", "access", "scan"} => owners[t] = {}

\* The owners a transaction counted stay locked by it and stay owners.
OwnersHeld ==
    \A t \in Txs :
      pc[t] \in {"owners", "target", "write"} =>
        \A u \in owners[t] : lock[u] = t /\ role[u] = "owner"

\* A transaction about to write over a row it read holds the row, the row is as it
\* read it, and somebody else is an owner if it takes an ownership away.
Decided ==
    \A t \in Txs :
      pc[t] = "write" /\ current[t] # "none" =>
        /\ lock[ask[t].target] = t
        /\ role[ask[t].target] = current[t]
        /\ \/ current[t] # "owner"
           \/ ask[t].grant = "owner"
           \/ \E u \in owners[t] : u # ask[t].target

IInv == TypeOK /\ Asked /\ OwnersHeld /\ Decided

-----------------------------------------------------------------------------

\* A finite set with more than one element has one besides any given value.
LEMMA AnotherElement ==
    ASSUME NEW S, IsFiniteSet(S), Cardinality(S) > 1, NEW x
    PROVE  \E u \in S : u # x
<1>1. SUFFICES ASSUME \A u \in S : u = x PROVE FALSE
  OBVIOUS
<1>2. S \subseteq {x}
  BY <1>1
<1>3. IsFiniteSet({x}) /\ Cardinality({x}) = 1
  BY FS_Singleton
<1>4. Cardinality(S) \in Nat /\ Cardinality(S) <= 1
  BY <1>2, <1>3, FS_Subset, FS_CardinalityType
<1> QED
  BY <1>4

\* assertWorkspaceOwnerMutationAllowed() lets an ownership go only when another of
\* the counted owners remains.
LEMMA AllowedKeepsOwner ==
    ASSUME TypeOK, NEW t \in Txs, Allowed(t)
    PROVE  \/ role[ask[t].target] # "owner"
           \/ ask[t].grant = "owner"
           \/ \E u \in owners[t] : u # ask[t].target
<1>1. CASE Cardinality(owners[t]) > 1
  <2>1. owners[t] \subseteq Users
    BY DEF TypeOK
  <2>2. IsFiniteSet(owners[t])
    BY <2>1, UsersAssumption, FS_Subset
  <2> QED
    BY <1>1, <2>2, AnotherElement
<1> QED
  BY <1>1 DEF Allowed

\* Initially nothing is asked, locked or decided.
LEMMA InitIInv == Init => IInv
BY DEF Init, IInv, TypeOK, Asked, OwnersHeld, Decided, Phases, Outcomes

-----------------------------------------------------------------------------

\* Submitting keeps the invariant.
LEMMA SubmitIInv ==
    ASSUME IInv, NEW t \in Txs, Submit(t)
    PROVE  IInv'
<1> USE DEF Submit, Goto
<1>0. ask' \in [Txs -> Requests \cup {NoRequest}] /\ ask'[t] \in Requests
  <2>1. PICK a \in Asks[t] : ask' = [ask EXCEPT ![t] = a]
    OBVIOUS
  <2>2. a \in Requests
    BY AsksAssumption
  <2>3. ask \in [Txs -> Requests \cup {NoRequest}]
    BY DEF IInv, TypeOK
  <2> QED
    BY <2>1, <2>2, <2>3
<1>1. TypeOK'
  BY <1>0 DEF IInv, TypeOK, Phases
<1>2. Asked'
  BY <1>0 DEF IInv, TypeOK, Asked
<1>3. OwnersHeld'
  BY DEF IInv, TypeOK, Asked, OwnersHeld
<1>4. Decided'
  BY DEF IInv, TypeOK, Decided
<1> QED
  BY <1>1, <1>2, <1>3, <1>4 DEF IInv

\* Releasing t's locks and answering leaves the others' locks alone.
LEMMA EndFacts ==
    ASSUME TypeOK, NEW t \in Txs, NEW a \in Outcomes, End(t, a)
    PROVE  /\ lock' \in [Users -> Txs \cup {Free}]
           /\ pc' \in [Txs -> Phases]
           /\ outcome' \in [Txs -> Outcomes]
           /\ \A s \in Txs \ {t} :
                /\ pc'[s] = pc[s]
                /\ \A u \in Users : lock[u] = s => lock'[u] = s
           /\ pc'[t] = "done"
BY DEF TypeOK, End, Release, Goto, Phases

\* A transaction that ends without writing keeps the invariant.
LEMMA EndIInv ==
    ASSUME IInv, NEW t \in Txs, NEW a \in Outcomes, End(t, a), pc[t] # "new",
           current' \in [Txs -> Roles \cup {"none"}],
           \A s \in Txs \ {t} : current'[s] = current[s],
           UNCHANGED <<role, ask, toLock, owners>>
    PROVE  IInv'
<1>1. TypeOK'
  BY EndFacts DEF IInv, TypeOK
<1>2. Asked'
  BY EndFacts DEF IInv, Asked
<1>3. OwnersHeld'
  BY EndFacts DEF IInv, TypeOK, OwnersHeld
<1>4. Decided'
  <2> SUFFICES ASSUME NEW s \in Txs, pc'[s] = "write", current'[s] # "none"
               PROVE  /\ lock'[ask[s].target] = s
                      /\ role[ask[s].target] = current[s]
                      /\ \/ current[s] # "owner"
                         \/ ask[s].grant = "owner"
                         \/ \E u \in owners[s] : u # ask[s].target
    BY EndFacts DEF IInv, Decided
  <2>1. s # t /\ pc[s] = "write" /\ current[s] # "none"
    BY EndFacts DEF IInv
  <2>2. ask[s].target \in Users
    BY <2>1 DEF IInv, Asked, Requests
  <2> QED
    BY <2>1, <2>2, EndFacts DEF IInv, Decided
<1> QED
  BY <1>1, <1>2, <1>3, <1>4 DEF IInv

\* The access check keeps the invariant.
LEMMA CheckAccessIInv ==
    ASSUME IInv, NEW t \in Txs, CheckAccess(t)
    PROVE  IInv'
<1>1. CASE \E a \in Outcomes : End(t, a)
  BY <1>1, EndIInv DEF CheckAccess, IInv, TypeOK
<1>2. CASE Goto(t, "scan") /\ UNCHANGED <<lock, outcome>>
  <2> USE <1>2 DEF CheckAccess, Goto, IInv
  <2>1. TypeOK'
    BY DEF TypeOK, Phases
  <2>2. Asked'
    BY DEF TypeOK, Asked
  <2>3. OwnersHeld'
    BY DEF TypeOK, OwnersHeld
  <2>4. Decided'
    BY DEF TypeOK, Decided
  <2> QED
    BY <2>1, <2>2, <2>3, <2>4
<1> QED
  BY <1>1, <1>2 DEF CheckAccess, Outcomes

\* Taking the snapshot keeps the invariant.
LEMMA ScanOwnersIInv ==
    ASSUME IInv, NEW t \in Txs, ScanOwners(t)
    PROVE  IInv'
<1> USE DEF ScanOwners, Goto, IInv
<1>1. TypeOK'
  BY DEF TypeOK, Phases, Owners
<1>2. Asked'
  BY DEF TypeOK, Asked
<1>3. OwnersHeld'
  BY DEF TypeOK, Asked, OwnersHeld
<1>4. Decided'
  BY DEF TypeOK, Decided
<1> QED
  BY <1>1, <1>2, <1>3, <1>4

\* Locking a row of the snapshot keeps the invariant.
LEMMA LockOwnerIInv ==
    ASSUME IInv, NEW t \in Txs, NEW u \in Users, LockOwner(t, u)
    PROVE  IInv'
<1> USE DEF LockOwner, IInv
<1>1. TypeOK'
  BY DEF TypeOK
<1>2. Asked'
  BY DEF TypeOK, Asked
<1>3. OwnersHeld'
  BY FreeAssumption DEF TypeOK, OwnersHeld, CanLock
<1>4. Decided'
  <2> SUFFICES ASSUME NEW s \in Txs, pc[s] = "write", current[s] # "none"
               PROVE  /\ lock'[ask[s].target] = s
                      /\ owners'[s] = owners[s]
    BY DEF Decided
  <2>1. s # t /\ ask[s].target \in Users
    BY DEF Asked, Requests
  <2>2. lock[ask[s].target] = s
    BY DEF Decided
  <2> QED
    BY <2>1, <2>2, FreeAssumption DEF TypeOK, CanLock
<1> QED
  BY <1>1, <1>2, <1>3, <1>4

\* Moving on to the target keeps the invariant.
LEMMA OwnersLockedIInv ==
    ASSUME IInv, NEW t \in Txs, OwnersLocked(t)
    PROVE  IInv'
<1> USE DEF OwnersLocked, Goto, IInv, locals
<1>1. TypeOK'
  BY DEF TypeOK, Phases
<1>2. Asked'
  BY DEF TypeOK, Asked
<1>3. OwnersHeld'
  BY DEF TypeOK, OwnersHeld
<1>4. Decided'
  BY DEF TypeOK, Decided
<1> QED
  BY <1>1, <1>2, <1>3, <1>4

\* Locking the target and deciding keeps the invariant.
LEMMA LockTargetIInv ==
    ASSUME IInv, NEW t \in Txs, LockTarget(t)
    PROVE  IInv'
<1> DEFINE x == ask[t].target
<1>1. x \in Users /\ role[x] \in Roles \cup {"none"}
  BY DEF LockTarget, IInv, TypeOK, Asked, Requests
<1>2. /\ current' \in [Txs -> Roles \cup {"none"}]
      /\ current'[t] = role[x]
      /\ \A s \in Txs \ {t} : current'[s] = current[s]
  BY <1>1 DEF LockTarget, IInv, TypeOK
<1>3. CASE \E a \in Outcomes : End(t, a)
  BY <1>2, <1>3, EndIInv DEF LockTarget
<1>4. CASE /\ Allowed(t)
           /\ lock' = IF role[x] = "none" THEN lock ELSE [lock EXCEPT ![x] = t]
           /\ Goto(t, "write")
           /\ UNCHANGED outcome
  <2>1. TypeOK'
    BY <1>1, <1>2, <1>4 DEF LockTarget, Goto, IInv, TypeOK, Phases
  <2>2. Asked'
    BY <1>4 DEF LockTarget, Goto, IInv, TypeOK, Asked
  <2>3. \A s \in Txs \ {t}, u \in Users : lock[u] = s => lock'[u] = s
    BY <1>4, FreeAssumption DEF LockTarget, CanLock, IInv, TypeOK
  <2>4. \A u \in Users : lock[u] = t => lock'[u] = t
    BY <1>4 DEF IInv, TypeOK
  <2>5. OwnersHeld'
    BY <1>4, <2>3, <2>4 DEF LockTarget, Goto, IInv, TypeOK, OwnersHeld
  <2>6. Decided'
    <3> SUFFICES ASSUME NEW s \in Txs, pc'[s] = "write", current'[s] # "none"
                 PROVE  /\ lock'[ask[s].target] = s
                        /\ role[ask[s].target] = current'[s]
                        /\ \/ current'[s] # "owner"
                           \/ ask[s].grant = "owner"
                           \/ \E u \in owners[s] : u # ask[s].target
      BY DEF LockTarget, Decided
    <3>1. CASE s = t
      <4>1. lock'[x] = t
        BY <1>1, <1>2, <1>4, <3>1 DEF IInv, TypeOK
      <4> QED
        BY <1>2, <1>4, <3>1, <4>1, AllowedKeepsOwner DEF IInv
    <3>2. CASE s # t
      <4>1. pc[s] = "write" /\ current'[s] = current[s]
        BY <1>2, <1>4, <3>2 DEF Goto, IInv, TypeOK
      <4>2. ask[s].target \in Users
        BY <4>1 DEF IInv, Asked, Requests
      <4> QED
        BY <2>3, <3>2, <4>1, <4>2 DEF IInv, Decided
    <3> QED
      BY <3>1, <3>2
  <2> QED
    BY <2>1, <2>2, <2>5, <2>6 DEF IInv
<1> QED
  BY <1>3, <1>4 DEF LockTarget, Outcomes

\* Writing keeps the invariant: the row written is locked by nobody else.
LEMMA WriteIInv ==
    ASSUME IInv, NEW t \in Txs, Write(t)
    PROVE  IInv'
<1> DEFINE x == ask[t].target
<1>1. x \in Users /\ ask[t].grant \in Roles \cup {"none"}
  BY DEF Write, IInv, Asked, Requests
<1>2. /\ End(t, "ok")
      /\ "ok" \in Outcomes
  BY DEF Write, Outcomes
<1>3. TypeOK'
  BY <1>1, <1>2, EndFacts DEF Write, IInv, TypeOK
<1>4. Asked'
  BY <1>2, EndFacts DEF Write, IInv, Asked
<1>5. \A s \in Txs \ {t}, u \in Users :
        lock[u] = s => lock'[u] = s /\ role'[u] = role[u]
  BY <1>1, <1>2, EndFacts, FreeAssumption DEF Write, CanLock, IInv, TypeOK
<1>6. OwnersHeld'
  BY <1>2, <1>5, EndFacts DEF Write, IInv, TypeOK, OwnersHeld
<1>7. Decided'
  <2> SUFFICES ASSUME NEW s \in Txs, pc'[s] = "write", current[s] # "none"
               PROVE  /\ lock'[ask[s].target] = s
                      /\ role'[ask[s].target] = current[s]
                      /\ \/ current[s] # "owner"
                         \/ ask[s].grant = "owner"
                         \/ \E u \in owners[s] : u # ask[s].target
    BY DEF Write, Decided
  <2>1. s # t /\ pc[s] = "write"
    BY <1>2, EndFacts DEF IInv
  <2>2. ask[s].target \in Users
    BY <2>1 DEF IInv, Asked, Requests
  <2> QED
    BY <1>5, <2>1, <2>2 DEF IInv, Decided
<1> QED
  BY <1>3, <1>4, <1>6, <1>7 DEF IInv

\* The deadlock's victim keeps the invariant.
LEMMA AbortIInv ==
    ASSUME IInv, NEW t \in Txs, Abort(t)
    PROVE  IInv'
<1>1. pc[t] # "new"
  BY DEF Abort, Deadlocked, WaitsFor
<1>2. End(t, "aborted") /\ "aborted" \in Outcomes
  BY DEF Abort, Outcomes
<1> QED
  BY <1>1, <1>2, EndIInv DEF Abort, IInv, TypeOK

-----------------------------------------------------------------------------

\* No step breaks the invariant.
LEMMA NextIInv == IInv /\ [Next]_vars => IInv'
<1> SUFFICES ASSUME IInv, [Next]_vars PROVE IInv'
  OBVIOUS
<1>1. CASE UNCHANGED vars
  BY <1>1 DEF vars, IInv, TypeOK, Asked, OwnersHeld, Decided
<1>2. CASE Next
  <2> PICK t \in Txs : Submit(t) \/ Step(t)
    BY <1>2 DEF Next
  <2> QED
    BY SubmitIInv, CheckAccessIInv, ScanOwnersIInv, LockOwnerIInv, OwnersLockedIInv,
       LockTargetIInv, WriteIInv, AbortIInv DEF Step
<1> QED
  BY <1>1, <1>2

\* Every reachable state satisfies the invariant.
THEOREM Invariant == Spec => []IInv
BY InitIInv, NextIInv, PTL DEF Spec

\* Roles, locks, requests and answers keep their types.
THEOREM TypeCorrect == Spec => []TypeOK
BY Invariant, PTL DEF IInv

\* upsertMembership() and removeMembership() never take the last owner away when
\* they found the target's row.
THEOREM LastOwnerKept == Spec => LockedWriteKeepsAnOwner
<1>1. ASSUME IInv, NEW t \in Txs, Write(t), current[t] # "none", Owners # {}
      PROVE  Owners' # {}
  <2> DEFINE x == ask[t].target
  <2>1. /\ x \in Users
        /\ role'[x] = ask[t].grant
        /\ \A u \in Users \ {x} : role'[u] = role[u]
    BY <1>1 DEF Write, IInv, TypeOK, Asked, Requests
  <2>2. role[x] = current[t] /\ pc[t] = "write"
    BY <1>1 DEF IInv, Decided, Write
  <2>3. CASE current[t] # "owner"
    <3> PICK o \in Users : role[o] = "owner"
      BY <1>1 DEF Owners
    <3> QED
      BY <2>1, <2>2, <2>3 DEF Owners
  <2>4. CASE ask[t].grant = "owner"
    BY <2>1, <2>4 DEF Owners
  <2>5. CASE \E u \in owners[t] : u # x
    <3> PICK u \in owners[t] : u # x
      BY <2>5
    <3>1. u \in Users /\ role[u] = "owner"
      BY <1>1, <2>2 DEF IInv, TypeOK, OwnersHeld
    <3> QED
      BY <2>1, <3>1 DEF Owners
  <2> QED
    BY <1>1, <2>2, <2>3, <2>4, <2>5 DEF IInv, Decided
<1>2. IInv /\ [Next]_vars =>
        [\A t \in Txs :
           Write(t) /\ current[t] # "none" /\ Owners # {} => Owners' # {}]_vars
  BY <1>1
<1> QED
  BY Invariant, <1>2, PTL DEF Spec, LockedWriteKeepsAnOwner

\* The role a locked change replaces is the one its decision was made on.
THEOREM DecisionStillHolds == Spec => LockedWriteReplacesWhatItRead
<1>1. IInv /\ [Next]_vars =>
        [\A t \in Txs :
           Write(t) /\ current[t] # "none" =>
             role[ask[t].target] = current[t]]_vars
  BY DEF IInv, Decided, Write
<1> QED
  BY Invariant, <1>1, PTL DEF Spec, LockedWriteReplacesWhatItRead

-----------------------------------------------------------------------------
(* Logins.                                                                 *)

\* Requests are numbered as they are sent.
Numbered == \E n \in 0 .. Budget : Logins!Sent = 1 .. n

\* What a request holds at each of its steps.
Shape(r) ==
    /\ r.kind = "none" <=> r.pc = "unsent"
    /\ r.pc \in {"find", "conflict", "update", "rival", "link"} => r.kind = "login"
    /\ r.pc = "done" <=> r.answer # "none"
    /\ r.write # None <=> r.pc \in {"link", "commit"}
    /\ r.link # None => r.locked
    /\ r.locked => r.pc = "commit" /\ r.kind = "login"

\* What a request knows of the tables stays true while it is under way: identities are
\* never changed, and the lock on its own keeps others from inserting it.
Knows(r) ==
    /\ r.pc \in {"conflict", "update"} => r.user # None /\ links[r.subject] = r.user
    /\ r.pc = "link" => r.user = r.write
    /\ r.link # None => r.user = r.link /\ r.write = r.link /\ links[r.subject] = None
    /\ r.pc = "commit" /\ r.kind = "login" /\ r.link = None =>
         r.user # None /\ links[r.subject] = r.user
    /\ r.answer = "ok" /\ r.kind = "login" => r.user # None /\ links[r.subject] = r.user

\* A request writes its own user, or one that is there.
WritesOwn ==
    \A i \in Logins!Ids :
      login[i].write # None => login[i].write = i \/ users[login[i].write] # None

LockedApart ==
    \A i, j \in Logins!Ids :
      login[i].locked /\ login[j].locked /\ login[i].subject = login[j].subject => i = j

\* Requests under way together have met.
MetTogether == \A i, j \in Logins!Running : i # j => i \in met

\* What a request that met no other knows of other users and subjects.
KnowsAlone(r) ==
    /\ r.pc = "update" => Logins!HasEmail(r.email) \subseteq {r.user}
    /\ r.pc = "upsert" /\ r.kind = "login" =>
         \A s \in Subjects \ {r.subject} : links[s] # None => Logins!Email(links[s]) # r.email
    /\ r.pc = "link" \/ r.link # None => \A s \in Subjects \ {r.subject} : links[s] # r.user

LoginsInv ==
    /\ Logins!TypeOK
    /\ Numbered
    /\ \A i \in Logins!Ids : Shape(login[i]) /\ Knows(login[i])
    /\ WritesOwn /\ LockedApart /\ MetTogether
    /\ \A i \in Logins!Running : i \notin met => KnowsAlone(login[i])
    /\ Logins!SubjectsShareAUserOnlyInRaces
    /\ Logins!RefusedRequestsLeaveNoUser
    /\ Logins!KeyStopsOnlyRaces

-----------------------------------------------------------------------------
(* Steps of one request that leave the tables alone. *)

\* The empty record of a request is one.
LEMMA NoRequestTyped == Logins!NoRequest \in Logins!Request
<1>1. (CHOOSE s \in Subjects : TRUE) \in Subjects
  BY LoginsAssumption DEF Logins!ConstantsAssumption
<1>2. (CHOOSE e \in Emails : TRUE) \in Emails
  BY LoginsAssumption DEF Logins!ConstantsAssumption
<1> HIDE DEF Logins!NoRequest
<1> QED
  BY <1>1, <1>2 DEF Logins!NoRequest, Logins!Request, Logins!Kinds, Logins!Steps, Logins!Answers

\* A request under way was sent, has no answer, and has inserted no user yet.
LEMMA RunningFacts ==
    ASSUME LoginsInv, NEW i \in Logins!Running
    PROVE  /\ i \in Logins!Ids /\ login[i] \in Logins!Request
           /\ Shape(login[i]) /\ Knows(login[i])
           /\ login[i].kind # "none" /\ login[i].pc # "done" /\ login[i].pc # "unsent"
           /\ login[i].answer = "none" /\ users[i] = None
<1>1. i \in Logins!Ids /\ login[i].kind # "none" /\ login[i].pc # "done"
  BY DEF Logins!Running, Logins!Sent
<1>2. login[i] \in Logins!Request /\ Shape(login[i]) /\ Knows(login[i])
  BY <1>1 DEF LoginsInv, Logins!TypeOK
<1>3. login[i].answer = "none"
  BY <1>1, <1>2 DEF Shape
<1>4. users[i] = None
  BY <1>1, <1>3 DEF LoginsInv, Logins!RefusedRequestsLeaveNoUser
<1> QED
  BY <1>1, <1>2, <1>3, <1>4 DEF Shape

\* A request at a step other than the first and the last is under way.
LEMMA StepsRun ==
    ASSUME LoginsInv, NEW i \in Logins!Ids, login[i].pc \notin {"unsent", "done"}
    PROVE  i \in Logins!Running
BY DEF LoginsInv, Shape, Logins!Running, Logins!Sent

\* A request under way becomes r, and r holds and knows what it should: the invariant
\* is kept.
LEMMA LocalStep ==
    ASSUME LoginsInv, NEW i \in Logins!Running, NEW r \in Logins!Request,
           login' = [login EXCEPT ![i] = r],
           users' = users, links' = links, met' = met,
           storage' \in BOOLEAN, cache' \in {"none", "ready", "missing"},
           failures' \in 0 .. Budget,
           r.kind = login[i].kind, Shape(r), Knows(r), r.answer # "ok",
           r.write # None => r.write = i \/ users[r.write] # None,
           r.locked => \A j \in Logins!Running \ {i} :
                         login[j].locked => login[j].subject # r.subject,
           i \notin met => r.answer # "duplicate" /\ (r.pc # "done" => KnowsAlone(r))
    PROVE  LoginsInv'
<1>1. PICK t : t = login[i]
  OBVIOUS
<1>2. /\ i \in Logins!Ids /\ t \in Logins!Request /\ Shape(t) /\ Knows(t)
      /\ t.kind # "none" /\ t.pc # "done" /\ t.answer = "none" /\ users[i] = None
  BY <1>1, RunningFacts
<1>3. /\ login \in [Logins!Ids -> Logins!Request]
      /\ login'[i] = r /\ \A j \in Logins!Ids \ {i} : login'[j] = login[j]
  BY <1>2 DEF LoginsInv, Logins!TypeOK
<1>4. Logins!TypeOK'
  BY <1>2, <1>3 DEF LoginsInv, Logins!TypeOK
<1>5. Logins!Sent' = Logins!Sent
  BY <1>1, <1>2, <1>3 DEF Logins!Sent
<1>6. Numbered'
  BY <1>5 DEF LoginsInv, Numbered
<1>7. \A j \in Logins!Ids : Shape(login'[j]) /\ Knows(login[j])
  BY <1>2, <1>3 DEF LoginsInv
<1>8. \A j \in Logins!Ids : Knows(login'[j])
  BY <1>2, <1>3, <1>7
<1>9. (\A j \in Logins!Ids : Shape(login[j]) /\ Knows(login[j]))'
  BY <1>7, <1>8 DEF Shape, Knows
<1>10. WritesOwn'
  BY <1>2, <1>3 DEF LoginsInv, WritesOwn
<1>11. \A j \in Logins!Ids \ {i} : login[j].locked => j \in Logins!Running
  BY StepsRun, <1>7, <1>3 DEF Shape
<1>12. LockedApart'
  BY <1>2, <1>3, <1>11 DEF LoginsInv, LockedApart
<1>13. Logins!Running' \subseteq Logins!Running
  BY <1>2, <1>3, <1>5 DEF Logins!Running
<1>14. MetTogether'
  BY <1>13 DEF LoginsInv, MetTogether
<1>15. ASSUME NEW j \in Logins!Running', j \notin met PROVE KnowsAlone(login[j])'
  <2>1. j \in Logins!Running /\ j \in Logins!Ids
    BY <1>13, <1>15 DEF Logins!Running, Logins!Sent
  <2>2. KnowsAlone(login'[j])
    <3>1. CASE j = i
      <4>1. r.pc # "done"
        BY <3>1, <1>3, <1>15 DEF Logins!Running
      <4> QED
        BY <3>1, <4>1, <1>3, <1>15
    <3>2. CASE j # i
      BY <3>2, <2>1, <1>3, <1>15 DEF LoginsInv
    <3> QED
      BY <3>1, <3>2
  <2> QED
    BY <2>2 DEF KnowsAlone, Logins!HasEmail, Logins!Email
<1>16. (\A j \in Logins!Running : j \notin met => KnowsAlone(login[j]))'
  BY <1>15
<1>17. \A j \in Logins!Ids : Logins!Done(j, "ok") => j # i /\ Logins!Done(j, "ok")'
  BY <1>1, <1>2, <1>3, <1>5 DEF Logins!Done
<1>18. Logins!SubjectsShareAUserOnlyInRaces'
  <2> SUFFICES ASSUME NEW s \in Subjects, NEW u \in Subjects,
                      s # u, links[s] # None, links[s] = links[u]
               PROVE  \E j \in met : Logins!Done(j, "ok")' /\ login'[j].kind = "login"
                                     /\ login'[j].subject \in {s, u}
    BY DEF Logins!SubjectsShareAUserOnlyInRaces
  <2>1. PICK j \in met : Logins!Done(j, "ok") /\ login[j].kind = "login"
                         /\ login[j].subject \in {s, u}
    BY DEF LoginsInv, Logins!SubjectsShareAUserOnlyInRaces
  <2>2. j \in Logins!Ids
    BY DEF LoginsInv, Logins!TypeOK
  <2> QED
    BY <2>1, <2>2, <1>3, <1>17
<1>19. Logins!RefusedRequestsLeaveNoUser'
  BY <1>2, <1>3 DEF LoginsInv, Logins!RefusedRequestsLeaveNoUser
<1>20. Logins!KeyStopsOnlyRaces'
  BY <1>2, <1>3, <1>5 DEF LoginsInv, Logins!KeyStopsOnlyRaces, Logins!Done
<1> QED
  BY <1>4, <1>6, <1>9, <1>10, <1>12, <1>14, <1>16, <1>18, <1>19, <1>20 DEF LoginsInv

\* A transaction that is rolled back leaves nothing.
LEMMA RollbackStep ==
    ASSUME LoginsInv, NEW i \in Logins!Running,
           NEW what \in Logins!Answers \ {"none", "ok"}, Logins!Rollback(i, what),
           users' = users, links' = links, met' = met,
           storage' \in BOOLEAN, cache' \in {"none", "ready", "missing"},
           failures' \in 0 .. Budget,
           i \notin met => what # "duplicate"
    PROVE  LoginsInv'
<1>1. PICK t : t = login[i]
  OBVIOUS
<1>2. i \in Logins!Ids /\ t \in Logins!Request /\ t.kind # "none"
  BY <1>1, RunningFacts
<1>3. PICK n : n = Logins!NoRequest
  OBVIOUS
<1>4. /\ n \in Logins!Request
      /\ n.write = None /\ n.link = None /\ n.user = None /\ n.locked = FALSE
  BY <1>3, NoRequestTyped DEF Logins!NoRequest
<1>5. PICK r : r = [n EXCEPT !.kind = t.kind, !.pc = "done", !.answer = what]
  OBVIOUS
<1>6. /\ r \in Logins!Request /\ r.kind = t.kind /\ r.pc = "done" /\ r.answer = what
      /\ r.write = None /\ r.link = None /\ r.user = None /\ r.locked = FALSE
  BY <1>2, <1>4, <1>5 DEF Logins!Request, Logins!Steps, Logins!Answers
<1>7. login' = [login EXCEPT ![i] = r]
  BY <1>1, <1>3, <1>5 DEF Logins!Rollback
<1>8. Shape(r) /\ Knows(r)
  BY <1>2, <1>6 DEF Shape, Knows
<1> QED
  BY <1>1, <1>6, <1>7, <1>8, LocalStep

\* A request under way makes no user and takes no lock: it goes on at the step that
\* comes after a report of a storage that is ready.
LEMMA StartStep ==
    ASSUME LoginsInv, NEW i \in Logins!Running, login[i].pc \in {"ready", "inspected"},
           Logins!Goto(i, Logins!First(i)),
           users' = users, links' = links, met' = met, storage' = storage,
           cache' \in {"none", "ready", "missing"}, failures' = failures
    PROVE  LoginsInv'
<1>1. PICK t : t = login[i]
  OBVIOUS
<1>2. /\ i \in Logins!Ids /\ t \in Logins!Request /\ Shape(t) /\ Knows(t)
      /\ t.kind # "none" /\ t.pc \in {"ready", "inspected"} /\ t.answer = "none"
      /\ users[i] = None
  BY <1>1, RunningFacts
<1>3. PICK first : first = Logins!First(i)
  OBVIOUS
<1>4. first \in {"find", "upsert"} /\ (first = "find" <=> t.kind = "login")
  BY <1>1, <1>3 DEF Logins!First
<1>5. PICK r : r = [t EXCEPT !.pc = first]
  OBVIOUS
<1>6. r \in Logins!Request
  BY <1>2, <1>4, <1>5 DEF Logins!Request, Logins!Steps
<1>7. login' = [login EXCEPT ![i] = r]
  BY <1>1, <1>3, <1>5 DEF Logins!Goto
<1>8. Shape(r) /\ Knows(r) /\ KnowsAlone(r)
  BY <1>2, <1>4, <1>5 DEF Shape, Knows, KnowsAlone, Logins!Request
<1>9. r.kind = t.kind /\ r.answer = "none" /\ r.write = None /\ ~r.locked
  BY <1>2, <1>5 DEF Shape, Logins!Request
<1>10. storage' \in BOOLEAN /\ failures' \in 0 .. Budget
  BY DEF LoginsInv, Logins!TypeOK
<1> QED
  BY <1>1, <1>6, <1>7, <1>8, <1>9, <1>10, LocalStep

\* inspectAuthStorageReadiness() with a report at hand, or asking for one.
LEMMA InspectInv ==
    ASSUME LoginsInv, NEW i \in Logins!Ids, Logins!Inspect(i)
    PROVE  LoginsInv'
<1>1. i \in Logins!Running /\ login[i].pc = "ready"
  BY StepsRun DEF Logins!Inspect
<1>2. /\ users' = users /\ links' = links /\ met' = met /\ storage' = storage
      /\ cache' = cache /\ failures' = failures
  BY DEF Logins!Inspect, Logins!tables
<1>3. /\ cache' \in {"none", "ready", "missing"} /\ storage' \in BOOLEAN
      /\ failures' \in 0 .. Budget
  BY <1>2 DEF LoginsInv, Logins!TypeOK
<1>4. CASE Logins!Goto(i, Logins!First(i))
  BY <1>1, <1>2, <1>3, <1>4, StartStep
<1>5. CASE Logins!Rollback(i, "missing")
  <2>1. "missing" \in Logins!Answers \ {"none", "ok"}
    BY DEF Logins!Answers
  <2> QED
    BY <1>1, <1>2, <1>3, <1>5, <2>1, RollbackStep
<1>6. CASE login' = [login EXCEPT ![i].pc = "inspected", ![i].seen = storage]
  <2>1. PICK t : t = login[i]
    OBVIOUS
  <2>2. /\ t \in Logins!Request /\ Shape(t) /\ Knows(t) /\ t.pc = "ready"
        /\ t.kind # "none" /\ t.answer = "none"
    BY <2>1, <1>1, RunningFacts
  <2>3. PICK r : r = [t EXCEPT !.pc = "inspected", !.seen = storage]
    OBVIOUS
  <2>4. r \in Logins!Request
    BY <2>2, <2>3, <1>2, <1>3 DEF Logins!Request, Logins!Steps
  <2>5. login' = [login EXCEPT ![i] = r]
    BY <2>1, <2>3, <1>6, <1>1, <2>4 DEF LoginsInv, Logins!TypeOK, Logins!Running, Logins!Sent
  <2>6. Shape(r) /\ Knows(r) /\ KnowsAlone(r)
    BY <2>2, <2>3 DEF Shape, Knows, KnowsAlone, Logins!Request
  <2>7. r.kind = t.kind /\ r.answer = "none" /\ r.write = None /\ ~r.locked
    BY <2>2, <2>3 DEF Shape, Logins!Request
  <2> QED
    BY <1>1, <1>2, <1>3, <2>1, <2>4, <2>5, <2>6, <2>7, LocalStep
<1> QED
  BY <1>4, <1>5, <1>6 DEF Logins!Inspect

\* The report is cached, and the request goes on or is refused.
LEMMA ReportInv ==
    ASSUME LoginsInv, NEW i \in Logins!Ids, Logins!Report(i)
    PROVE  LoginsInv'
<1>1. i \in Logins!Running /\ login[i].pc = "inspected"
  BY StepsRun DEF Logins!Report
<1>2. /\ users' = users /\ links' = links /\ met' = met /\ storage' = storage
      /\ failures' = failures /\ cache' \in {"none", "ready", "missing"}
  BY DEF Logins!Report
<1>3. storage' \in BOOLEAN /\ failures' \in 0 .. Budget
  BY <1>2 DEF LoginsInv, Logins!TypeOK
<1>4. CASE Logins!Goto(i, Logins!First(i))
  BY <1>1, <1>2, <1>4, StartStep
<1>5. CASE Logins!Rollback(i, "missing")
  <2>1. "missing" \in Logins!Answers \ {"none", "ok"}
    BY DEF Logins!Answers
  <2> QED
    BY <1>1, <1>2, <1>3, <1>5, <2>1, RollbackStep
<1> QED
  BY <1>4, <1>5 DEF Logins!Report

\* A step that refuses the request or goes on, with the tables as they are.
LEMMA RefusalStep ==
    ASSUME LoginsInv, NEW i \in Logins!Running,
           NEW what \in {"refused", "duplicate", "missing", "failed"},
           Logins!Rollback(i, what), i \notin met => what # "duplicate",
           UNCHANGED <<users, links, storage, cache, met, failures>>
    PROVE  LoginsInv'
<1>1. what \in Logins!Answers \ {"none", "ok"}
  BY DEF Logins!Answers
<1>2. /\ cache' \in {"none", "ready", "missing"} /\ storage' \in BOOLEAN
      /\ failures' \in 0 .. Budget
  BY DEF LoginsInv, Logins!TypeOK
<1> QED
  BY <1>1, <1>2, RollbackStep

\* LocalStep for a step that changes nothing but the request.
LEMMA OwnStep ==
    ASSUME LoginsInv, NEW i \in Logins!Running, NEW r \in Logins!Request,
           login' = [login EXCEPT ![i] = r],
           UNCHANGED <<users, links, storage, cache, met, failures>>,
           r.kind = login[i].kind, Shape(r), Knows(r), r.answer = "none",
           r.write # None => r.write = i \/ users[r.write] # None,
           r.locked => \A j \in Logins!Running \ {i} :
                         login[j].locked => login[j].subject # r.subject,
           i \notin met => KnowsAlone(r)
    PROVE  LoginsInv'
<1>1. /\ cache' \in {"none", "ready", "missing"} /\ storage' \in BOOLEAN
      /\ failures' \in 0 .. Budget
  BY DEF LoginsInv, Logins!TypeOK
<1> QED
  BY <1>1, LocalStep

\* syncAuthenticatedActor() reads the identity: what it finds stays so.
LEMMA FindInv ==
    ASSUME LoginsInv, NEW i \in Logins!Ids, Logins!Find(i)
    PROVE  LoginsInv'
<1>1. i \in Logins!Running /\ login[i].pc = "find"
  BY StepsRun DEF Logins!Find
<1>2. UNCHANGED <<users, links, storage, cache, met, failures>>
  BY DEF Logins!Find, Logins!tables
<1>3. PICK t : t = login[i]
  OBVIOUS
<1>4. /\ t \in Logins!Request /\ Shape(t) /\ Knows(t) /\ t.pc = "find" /\ t.kind = "login"
      /\ t.answer = "none"
  BY <1>1, <1>3, RunningFacts DEF Shape
<1>5. PICK u : u = links[t.subject]
  OBVIOUS
<1>6. u \in Logins!UserIds \cup {None}
  BY <1>4, <1>5 DEF LoginsInv, Logins!TypeOK, Logins!Request
<1>7. CASE u = None /\ Logins!Goto(i, "rival")
  <2>1. PICK r : r = [t EXCEPT !.pc = "rival"]
    OBVIOUS
  <2>2. r \in Logins!Request /\ login' = [login EXCEPT ![i] = r]
    BY <1>3, <1>4, <1>7, <2>1 DEF Logins!Goto, Logins!Request, Logins!Steps
  <2>3. Shape(r) /\ Knows(r) /\ KnowsAlone(r)
    BY <1>4, <2>1 DEF Shape, Knows, KnowsAlone, Logins!Request
  <2>4. r.kind = t.kind /\ r.answer = "none" /\ r.write = None /\ ~r.locked
    BY <1>4, <2>1 DEF Shape, Logins!Request
  <2> QED
    BY <1>1, <1>2, <1>3, <2>2, <2>3, <2>4, OwnStep
<1>8. CASE u # None /\ login' = [login EXCEPT ![i].pc = "conflict", ![i].user = u]
  <2>1. PICK r : r = [t EXCEPT !.pc = "conflict", !.user = u]
    OBVIOUS
  <2>2. r \in Logins!Request
    BY <1>4, <1>6, <2>1 DEF Logins!Request, Logins!Steps
  <2>3. login' = [login EXCEPT ![i] = r]
    BY <1>3, <1>8, <2>1 DEF LoginsInv, Logins!TypeOK
  <2>4. Shape(r) /\ Knows(r) /\ KnowsAlone(r)
    BY <1>4, <1>5, <1>8, <2>1 DEF Shape, Knows, KnowsAlone, Logins!Request
  <2>5. r.kind = t.kind /\ r.answer = "none" /\ r.write = None /\ ~r.locked
    BY <1>4, <2>1 DEF Shape, Logins!Request
  <2> QED
    BY <1>1, <1>2, <1>3, <2>2, <2>3, <2>4, <2>5, OwnStep
<1>9. CASE Logins!Rollback(i, "refused")
  BY <1>1, <1>2, <1>9, RefusalStep
<1> QED
  BY <1>3, <1>5, <1>7, <1>8, <1>9 DEF Logins!Find

\* Nobody else has the address at the moment: alone, nobody will.
LEMMA ConflictInv ==
    ASSUME LoginsInv, NEW i \in Logins!Ids, Logins!Conflict(i)
    PROVE  LoginsInv'
<1>1. i \in Logins!Running /\ login[i].pc = "conflict"
  BY StepsRun DEF Logins!Conflict
<1>2. UNCHANGED <<users, links, storage, cache, met, failures>>
  BY DEF Logins!Conflict, Logins!tables
<1>3. PICK t : t = login[i]
  OBVIOUS
<1>4. /\ t \in Logins!Request /\ Shape(t) /\ Knows(t) /\ t.pc = "conflict"
      /\ t.kind = "login" /\ t.answer = "none"
  BY <1>1, <1>3, RunningFacts DEF Shape
<1>5. CASE Logins!HasEmail(t.email) \ {t.user} = {} /\ Logins!Goto(i, "update")
  <2>1. PICK r : r = [t EXCEPT !.pc = "update"]
    OBVIOUS
  <2>2. r \in Logins!Request /\ login' = [login EXCEPT ![i] = r]
    BY <1>3, <1>4, <1>5, <2>1 DEF Logins!Goto, Logins!Request, Logins!Steps
  <2>3. Shape(r) /\ Knows(r)
    BY <1>4, <2>1 DEF Shape, Knows, Logins!Request
  <2>4. KnowsAlone(r)
    BY <1>4, <1>5, <2>1 DEF Shape, KnowsAlone, Logins!Request
  <2>5. r.kind = t.kind /\ r.answer = "none" /\ r.write = None /\ ~r.locked
    BY <1>4, <2>1 DEF Shape, Logins!Request
  <2> QED
    BY <1>1, <1>2, <1>3, <2>2, <2>3, <2>4, <2>5, OwnStep
<1>6. CASE Logins!Rollback(i, "refused")
  BY <1>1, <1>2, <1>6, RefusalStep
<1> QED
  BY <1>3, <1>5, <1>6 DEF Logins!Conflict

\* The key of the table refuses only what met another request.
LEMMA UpdateInv ==
    ASSUME LoginsInv, NEW i \in Logins!Ids, Logins!Update(i)
    PROVE  LoginsInv'
<1>1. i \in Logins!Running /\ login[i].pc = "update"
  BY StepsRun DEF Logins!Update
<1>2. UNCHANGED <<users, links, storage, cache, met, failures>>
  BY DEF Logins!Update, Logins!tables
<1>3. PICK t : t = login[i]
  OBVIOUS
<1>4. /\ t \in Logins!Request /\ Shape(t) /\ Knows(t) /\ t.pc = "update"
      /\ t.kind = "login" /\ t.answer = "none"
  BY <1>1, <1>3, RunningFacts DEF Shape
<1>5. CASE /\ Logins!HasEmail(t.email) \ {t.user} # {}
           /\ Logins!Rollback(i, "duplicate")
  <2>1. i \in met
    BY <1>1, <1>3, <1>4, <1>5 DEF LoginsInv, KnowsAlone
  <2> QED
    BY <1>1, <1>2, <1>5, <2>1, RefusalStep
<1>6. CASE login' = [login EXCEPT ![i].pc = "commit", ![i].write = t.user,
                                  ![i].held = {Logins!Email(t.user), t.email}]
  <2>1. t.user \in Logins!UserIds /\ users[t.user] # None
    BY <1>4 DEF Knows, LoginsInv, Logins!TypeOK, Logins!Request
  <2>2. Logins!Email(t.user) \in Emails
    <3>1. users[t.user] \in Logins!User
      BY <2>1 DEF LoginsInv, Logins!TypeOK
    <3> QED
      BY <2>1, <3>1 DEF Logins!Email, Logins!User
  <2>3. PICK h : h = {Logins!Email(t.user), t.email}
    OBVIOUS
  <2>4. h \in SUBSET Emails
    BY <1>4, <2>2, <2>3 DEF Logins!Request
  <2>5. PICK r : r = [t EXCEPT !.pc = "commit", !.write = t.user, !.held = h]
    OBVIOUS
  <2>6. r \in Logins!Request
    BY <1>4, <2>1, <2>4, <2>5 DEF Logins!Request, Logins!Steps
  <2>7. login' = [login EXCEPT ![i] = r]
    BY <1>3, <1>6, <2>3, <2>5 DEF LoginsInv, Logins!TypeOK
  <2>8. None \notin Logins!UserIds
    BY LoginsAssumption DEF Logins!ConstantsAssumption
  <2>9. Shape(r) /\ Knows(r) /\ KnowsAlone(r)
    BY <1>4, <2>1, <2>5, <2>8 DEF Shape, Knows, KnowsAlone, Logins!Request
  <2>10. r.kind = t.kind /\ r.answer = "none" /\ r.write = t.user /\ ~r.locked
    BY <1>4, <2>5 DEF Shape, Logins!Request
  <2> QED
    BY <1>1, <1>2, <1>3, <2>1, <2>6, <2>7, <2>9, <2>10, OwnStep
<1> QED
  BY <1>3, <1>5, <1>6 DEF Logins!Update

\* No other subject is linked to a user with the address: alone, none will be.
LEMMA RivalInv ==
    ASSUME LoginsInv, NEW i \in Logins!Ids, Logins!Rival(i)
    PROVE  LoginsInv'
<1>1. i \in Logins!Running /\ login[i].pc = "rival"
  BY StepsRun DEF Logins!Rival
<1>2. UNCHANGED <<users, links, storage, cache, met, failures>>
  BY DEF Logins!Rival, Logins!tables
<1>3. PICK t : t = login[i]
  OBVIOUS
<1>4. /\ t \in Logins!Request /\ Shape(t) /\ Knows(t) /\ t.pc = "rival"
      /\ t.kind = "login" /\ t.answer = "none"
  BY <1>1, <1>3, RunningFacts DEF Shape
<1>5. CASE Logins!Rollback(i, "refused")
  BY <1>1, <1>2, <1>5, RefusalStep
<1>6. CASE /\ \A s \in Subjects \ {t.subject} :
                 links[s] # None => Logins!Email(links[s]) # t.email
           /\ Logins!Goto(i, "upsert")
  <2>1. PICK r : r = [t EXCEPT !.pc = "upsert"]
    OBVIOUS
  <2>2. r \in Logins!Request /\ login' = [login EXCEPT ![i] = r]
    BY <1>3, <1>4, <1>6, <2>1 DEF Logins!Goto, Logins!Request, Logins!Steps
  <2>3. Shape(r) /\ Knows(r)
    BY <1>4, <2>1 DEF Shape, Knows, Logins!Request
  <2>4. KnowsAlone(r)
    BY <1>4, <1>6, <2>1 DEF Shape, KnowsAlone, Logins!Request
  <2>5. r.kind = t.kind /\ r.answer = "none" /\ r.write = None /\ ~r.locked
    BY <1>4, <2>1 DEF Shape, Logins!Request
  <2> QED
    BY <1>1, <1>2, <1>3, <2>2, <2>3, <2>4, <2>5, OwnStep
<1> QED
  BY <1>3, <1>5, <1>6 DEF Logins!Rival

\* The user is new, or the one with the address: alone, no other subject has it.
LEMMA UpsertInv ==
    ASSUME LoginsInv, NEW i \in Logins!Ids, Logins!Upsert(i)
    PROVE  LoginsInv'
<1>1. i \in Logins!Running /\ login[i].pc = "upsert"
  BY StepsRun DEF Logins!Upsert
<1>2. UNCHANGED <<users, links, storage, cache, met, failures>>
  BY DEF Logins!Upsert, Logins!tables
<1>3. PICK t : t = login[i]
  OBVIOUS
<1>4. /\ t \in Logins!Request /\ Shape(t) /\ Knows(t) /\ t.pc = "upsert"
      /\ t.kind # "none" /\ t.answer = "none" /\ users[i] = None
  BY <1>1, <1>3, RunningFacts
<1>5. PICK next : next = IF t.kind = "login" THEN "link" ELSE "commit"
  OBVIOUS
<1>6. PICK u \in (IF Logins!HasEmail(t.email) = {} THEN {i} ELSE Logins!HasEmail(t.email)) :
        login' = [login EXCEPT ![i].user = u, ![i].write = u, ![i].held = {t.email},
                               ![i].pc = next]
  BY <1>3, <1>5 DEF Logins!Upsert
<1>7. \/ u = i
      \/ u \in Logins!UserIds /\ users[u] # None /\ users[u].email = t.email
  <2>1. CASE Logins!HasEmail(t.email) = {}
    <3>1. u \in {i}
      BY <1>6, <2>1
    <3> QED
      BY <3>1
  <2>2. CASE Logins!HasEmail(t.email) # {}
    <3>1. u \in Logins!HasEmail(t.email)
      BY <1>6, <2>2
    <3> QED
      BY <3>1 DEF Logins!HasEmail
  <2> QED
    BY <2>1, <2>2
<1>8. i \in Logins!UserIds /\ None \notin Logins!UserIds
  BY LoginsAssumption DEF Logins!ConstantsAssumption, Logins!Ids, Logins!UserIds
<1>9. u \in Logins!UserIds
  BY <1>7, <1>8
<1>10. PICK r : r = [t EXCEPT !.user = u, !.write = u, !.held = {t.email}, !.pc = next]
  OBVIOUS
<1>11. r \in Logins!Request
  BY <1>4, <1>5, <1>9, <1>10 DEF Logins!Request, Logins!Steps
<1>12. login' = [login EXCEPT ![i] = r]
  BY <1>3, <1>6, <1>10 DEF LoginsInv, Logins!TypeOK
<1>13. Shape(r) /\ Knows(r)
  BY <1>4, <1>5, <1>8, <1>9, <1>10 DEF Shape, Knows, Logins!Request
<1>14. ASSUME i \notin met PROVE KnowsAlone(r)
  <2>1. KnowsAlone(t)
    BY <1>1, <1>3, <1>14 DEF LoginsInv
  <2>2. /\ r.subject = t.subject /\ r.user = u /\ r.link = None /\ r.pc = next
        /\ r.kind = t.kind
    BY <1>4, <1>10 DEF Shape, Logins!Request
  <2>3. ASSUME t.kind = "login", NEW s \in Subjects \ {t.subject} PROVE links[s] # u
    <3>1. links[s] # None => users[links[s]] # None
      BY DEF LoginsInv, Logins!TypeOK
    <3>2. links[s] # None => Logins!Email(links[s]) # t.email
      BY <1>4, <2>1, <2>3 DEF KnowsAlone
    <3> QED
      BY <1>4, <1>7, <1>8, <1>9, <3>1, <3>2 DEF Logins!Email
  <2> QED
    BY <1>5, <2>2, <2>3 DEF KnowsAlone
<1>15. r.kind = t.kind /\ r.answer = "none" /\ r.write = u /\ ~r.locked
  BY <1>4, <1>10 DEF Shape, Logins!Request
<1> QED
  BY <1>1, <1>2, <1>3, <1>7, <1>11, <1>12, <1>13, <1>14, <1>15, OwnStep

\* The identity is inserted under a lock, or belongs to whom it names.
LEMMA LinkInv ==
    ASSUME LoginsInv, NEW i \in Logins!Ids, Logins!Link(i)
    PROVE  LoginsInv'
<1>1. i \in Logins!Running /\ login[i].pc = "link"
  BY StepsRun DEF Logins!Link
<1>2. UNCHANGED <<users, links, storage, cache, met, failures>>
  BY DEF Logins!Link, Logins!tables
<1>3. PICK t : t = login[i]
  OBVIOUS
<1>4. /\ t \in Logins!Request /\ Shape(t) /\ Knows(t) /\ t.pc = "link"
      /\ t.kind = "login" /\ t.answer = "none"
  BY <1>1, <1>3, RunningFacts DEF Shape
<1>5. \A j \in Logins!Running \ {i} : login[j].locked => login[j].subject # t.subject
  BY <1>3 DEF Logins!Link, Logins!LinkHeld
<1>6. t.write = i \/ users[t.write] # None
  BY <1>3, <1>4 DEF LoginsInv, WritesOwn, Shape
<1>7. CASE \E what \in {"refused", "failed"} : Logins!Rollback(i, what)
  BY <1>1, <1>2, <1>7, RefusalStep
<1>8. ASSUME NEW u \in Logins!UserIds, NEW link \in Logins!UserIds \cup {None},
             login' = [login EXCEPT ![i].pc = "commit", ![i].locked = TRUE, ![i].user = u,
                                    ![i].link = link],
             \/ links[t.subject] = None /\ u = t.user /\ link = u
             \/ u = links[t.subject] /\ u # None /\ link = None
      PROVE  LoginsInv'
  <2>1. PICK r : r = [t EXCEPT !.pc = "commit", !.locked = TRUE, !.user = u, !.link = link]
    OBVIOUS
  <2>2. r \in Logins!Request
    BY <1>4, <1>8, <2>1 DEF Logins!Request, Logins!Steps
  <2>3. login' = [login EXCEPT ![i] = r]
    BY <1>3, <1>8, <2>1 DEF LoginsInv, Logins!TypeOK
  <2>4. Shape(r) /\ Knows(r)
    BY <1>4, <1>8, <2>1 DEF Shape, Knows, Logins!Request
  <2>5. ASSUME i \notin met PROVE KnowsAlone(r)
    <3>1. KnowsAlone(t)
      BY <1>1, <1>3, <2>5 DEF LoginsInv
    <3> QED
      BY <1>4, <1>8, <2>1, <3>1 DEF KnowsAlone, Logins!Request
  <2>6. r.kind = t.kind /\ r.answer = "none" /\ r.write = t.write /\ r.subject = t.subject
    BY <1>4, <2>1 DEF Logins!Request
  <2> QED
    BY <1>1, <1>2, <1>3, <1>5, <1>6, <2>2, <2>3, <2>4, <2>5, <2>6, OwnStep
<1>9. CASE links[t.subject] = None
  <2>1. t.user \in Logins!UserIds
    BY <1>4 DEF Shape, Knows, Logins!Request
  <2> QED
    BY <1>3, <1>7, <1>8, <1>9, <2>1 DEF Logins!Link, Logins!Resolved
<1>10. CASE links[t.subject] # None
  <2>1. links[t.subject] \in Logins!UserIds
    BY <1>4, <1>10 DEF LoginsInv, Logins!TypeOK, Logins!Request
  <2> QED
    BY <1>3, <1>7, <1>8, <1>10, <2>1 DEF Logins!Link, Logins!Resolved
<1> QED
  BY <1>9, <1>10

-----------------------------------------------------------------------------
(* Steps that change the tables, the requests there are, or the storage. *)

\* The transaction's rows are there, for good.
LEMMA CommitInv ==
    ASSUME LoginsInv, NEW i \in Logins!Ids, Logins!Commit(i)
    PROVE  LoginsInv'
<1>1. i \in Logins!Running /\ login[i].pc = "commit"
  BY StepsRun DEF Logins!Commit
<1>2. PICK t : t = login[i]
  OBVIOUS
<1>3. /\ t \in Logins!Request /\ Shape(t) /\ Knows(t) /\ t.pc = "commit"
      /\ t.kind # "none" /\ t.answer = "none" /\ users[i] = None
  BY <1>1, <1>2, RunningFacts
<1>4. None \notin Logins!UserIds /\ None \notin Logins!User
  BY LoginsAssumption DEF Logins!ConstantsAssumption
<1>5. PICK w : w = t.write
  OBVIOUS
<1>6. w \in Logins!UserIds /\ (w = i \/ users[w] # None)
  <2>1. w \in Logins!UserIds
    BY <1>3, <1>5 DEF Shape, Logins!Request
  <2>2. w = i \/ users[w] # None
    BY <1>2, <1>3, <1>5 DEF LoginsInv, WritesOwn, Shape
  <2> QED
    BY <2>1, <2>2
<1>7. PICK account : account = [email |-> t.email,
                                active |-> IF users[w] = None THEN TRUE ELSE users[w].active]
  OBVIOUS
<1>8. account \in Logins!User
  <2>1. users[w] \in Logins!User \cup {None}
    BY <1>6 DEF LoginsInv, Logins!TypeOK
  <2> QED
    BY <1>3, <1>7, <2>1 DEF Logins!User, Logins!Request
<1>9. users' = [users EXCEPT ![w] = account]
  BY <1>2, <1>5, <1>7 DEF Logins!Commit, Logins!Committed
<1>10. users \in [Logins!UserIds -> Logins!User \cup {None}]
  BY DEF LoginsInv, Logins!TypeOK
<1>11. /\ users' \in [Logins!UserIds -> Logins!User \cup {None}]
       /\ users'[w] # None
       /\ \A u \in Logins!UserIds : users[u] # None => users'[u] # None
       /\ \A u \in Logins!UserIds : users'[u] # None => users[u] # None \/ u = w
  BY <1>4, <1>6, <1>8, <1>9, <1>10
<1>12. links \in [Subjects -> Logins!UserIds \cup {None}] /\ t.subject \in Subjects
  BY <1>3 DEF LoginsInv, Logins!TypeOK, Logins!Request
<1>13. links' = [links EXCEPT ![t.subject] =
                   IF t.link = None THEN links[t.subject] ELSE t.link]
  BY <1>2 DEF Logins!Commit, Logins!Committed
<1>14. t.link # None => t.link = w /\ t.user = w /\ links[t.subject] = None /\ t.kind = "login"
  BY <1>3, <1>5 DEF Shape, Knows
<1>15. /\ links' \in [Subjects -> Logins!UserIds \cup {None}]
       /\ \A s \in Subjects : links[s] # None => links'[s] = links[s]
       /\ \A s \in Subjects :
            links'[s] # links[s] => s = t.subject /\ t.link # None /\ links'[s] = w
  BY <1>6, <1>12, <1>13, <1>14
<1>16. PICK r : r = [t EXCEPT !.pc = "done", !.answer = "ok", !.write = None,
                             !.link = None, !.locked = FALSE, !.held = {}]
  OBVIOUS
<1>17. r \in Logins!Request
  BY <1>3, <1>16 DEF Logins!Request, Logins!Steps, Logins!Answers
<1>18. /\ r.kind = t.kind /\ r.subject = t.subject /\ r.user = t.user /\ r.pc = "done"
       /\ r.answer = "ok" /\ r.write = None /\ r.link = None /\ ~r.locked
  BY <1>3, <1>16 DEF Logins!Request
<1>19. login' = [login EXCEPT ![i] = r]
  BY <1>2, <1>16 DEF Logins!Commit, LoginsInv, Logins!TypeOK
<1>20. /\ login \in [Logins!Ids -> Logins!Request]
       /\ login'[i] = r /\ \A j \in Logins!Ids \ {i} : login'[j] = login[j]
  BY <1>19 DEF LoginsInv, Logins!TypeOK
<1>21. storage' = storage /\ cache' = cache /\ met' = met /\ failures' = failures
  BY DEF Logins!Commit
<1>22. Logins!TypeOK'
  <2>1. ASSUME NEW s \in Subjects, links'[s] # None PROVE users'[links'[s]] # None
    <3>1. CASE links'[s] = links[s]
      <4>1. links[s] \in Logins!UserIds /\ users[links[s]] # None
        BY <2>1, <3>1, <1>12 DEF LoginsInv, Logins!TypeOK
      <4> QED
        BY <3>1, <4>1, <1>11
    <3>2. CASE links'[s] # links[s]
      BY <3>2, <1>11, <1>15
    <3> QED
      BY <3>1, <3>2
  <2>2. login' \in [Logins!Ids -> Logins!Request]
    BY <1>17, <1>19, <1>20
  <2> QED
    BY <2>1, <2>2, <1>11, <1>15, <1>21 DEF LoginsInv, Logins!TypeOK
<1>23. Logins!Sent' = Logins!Sent
  BY <1>2, <1>3, <1>18, <1>20 DEF Logins!Sent
<1>24. Numbered'
  BY <1>23 DEF LoginsInv, Numbered
<1>25. Shape(r)
  BY <1>3, <1>18 DEF Shape
<1>26. r.kind = "login" => r.user # None /\ links'[r.subject] = r.user
  BY <1>3, <1>4, <1>6, <1>12, <1>13, <1>14, <1>18 DEF Knows
<1>27. ASSUME NEW j \in Logins!Ids PROVE Shape(login[j])' /\ Knows(login[j])'
  <2>1. Shape(login'[j])
    BY <1>20, <1>25 DEF LoginsInv
  <2>2. Knows(login[j])'
    <3>1. CASE j = i
      BY <3>1, <1>18, <1>20, <1>26 DEF Knows
    <3>2. CASE j # i
      <4>1. PICK c : c = login[j]
        OBVIOUS
      <4>2. /\ login'[j] = c /\ Knows(c) /\ Shape(c) /\ c.subject \in Subjects
        BY <3>2, <4>1, <1>20 DEF LoginsInv, Logins!Request
      <4>3. c.link # None /\ t.link # None => c.subject # t.subject
        BY <3>2, <4>1, <4>2, <1>2, <1>3 DEF LoginsInv, LockedApart, Shape
      <4>4. c.link # None => links'[c.subject] = links[c.subject]
        BY <4>2, <4>3, <1>15
      <4>5. links[c.subject] # None => links'[c.subject] = links[c.subject]
        BY <4>2, <1>15
      <4> QED
        BY <4>2, <4>4, <4>5 DEF Knows
    <3> QED
      BY <3>1, <3>2
  <2> QED
    BY <2>1, <2>2 DEF Shape
<1>28. WritesOwn'
  <2> SUFFICES ASSUME NEW j \in Logins!Ids, login'[j].write # None
               PROVE  login'[j].write = j \/ users'[login'[j].write] # None
    BY DEF WritesOwn
  <2>1. j # i /\ login'[j] = login[j]
    BY <1>18, <1>20
  <2>2. login[j].write \in Logins!UserIds
    BY <2>1, <1>20 DEF Logins!Request
  <2>3. login[j].write = j \/ users[login[j].write] # None
    BY <2>1 DEF LoginsInv, WritesOwn
  <2> QED
    BY <2>1, <2>2, <2>3, <1>11
<1>29. LockedApart'
  BY <1>18, <1>20 DEF LoginsInv, LockedApart
<1>30. \A j \in Logins!Running' : j \in Logins!Running /\ j # i
  BY <1>18, <1>20, <1>23 DEF Logins!Running, Logins!Sent
<1>31. MetTogether'
  BY <1>21, <1>30 DEF LoginsInv, MetTogether
<1>32. \A j \in Logins!Running' : j \in met'
  BY <1>1, <1>21, <1>30 DEF LoginsInv, MetTogether
<1>33. Logins!SubjectsShareAUserOnlyInRaces'
  <2> SUFFICES ASSUME NEW s \in Subjects, NEW u \in Subjects,
                      s # u, links'[s] # None, links'[s] = links'[u]
               PROVE  \E j \in met' : Logins!Done(j, "ok")' /\ login'[j].kind = "login"
                                      /\ login'[j].subject \in {s, u}
    BY DEF Logins!SubjectsShareAUserOnlyInRaces
  <2>1. CASE links'[s] = links[s] /\ links'[u] = links[u]
    <3>1. PICK j \in met : Logins!Done(j, "ok") /\ login[j].kind = "login"
                           /\ login[j].subject \in {s, u}
      BY <2>1 DEF LoginsInv, Logins!SubjectsShareAUserOnlyInRaces
    <3>2. j \in Logins!Ids /\ j # i
      BY <3>1, <1>2, <1>3 DEF LoginsInv, Logins!TypeOK, Logins!Done
    <3> QED
      BY <3>1, <3>2, <1>20, <1>21, <1>23 DEF Logins!Done
  <2>2. CASE links'[s] # links[s] \/ links'[u] # links[u]
    <3>1. PICK v \in Subjects : /\ v # t.subject /\ links[v] = t.user
                                /\ t.subject \in {s, u} /\ t.link # None
      BY <2>2, <1>14, <1>15
    <3>2. i \in met
      BY <3>1, <1>1, <1>2 DEF LoginsInv, KnowsAlone
    <3>3. Logins!Done(i, "ok")'
      BY <1>1, <1>18, <1>20, <1>23 DEF Logins!Done, Logins!Running
    <3> QED
      BY <3>1, <3>2, <3>3, <1>14, <1>18, <1>20, <1>21
  <2> QED
    BY <2>1, <2>2
<1>34. Logins!RefusedRequestsLeaveNoUser'
  <2> SUFFICES ASSUME NEW j \in Logins!Ids, users'[j] # None PROVE login'[j].answer = "ok"
    BY DEF Logins!RefusedRequestsLeaveNoUser
  <2>1. CASE j = i
    BY <2>1, <1>18, <1>20
  <2>2. CASE j # i
    <3>1. j \in Logins!UserIds
      BY LoginsAssumption DEF Logins!ConstantsAssumption, Logins!Ids, Logins!UserIds
    <3>2. users[j] # None
      BY <2>2, <3>1, <1>6, <1>11
    <3> QED
      BY <2>2, <3>2, <1>20 DEF LoginsInv, Logins!RefusedRequestsLeaveNoUser
  <2> QED
    BY <2>1, <2>2
<1>35. Logins!KeyStopsOnlyRaces'
  BY <1>18, <1>20, <1>21, <1>23 DEF LoginsInv, Logins!KeyStopsOnlyRaces, Logins!Done
<1> QED
  BY <1>22, <1>24, <1>27, <1>28, <1>29, <1>31, <1>32, <1>33, <1>34, <1>35 DEF LoginsInv

\* Both modules count with the same operator.
LEMMA SameCardinality == ASSUME NEW S PROVE Logins!Cardinality(S) = Cardinality(S)
BY Zenon DEF Cardinality, Logins!Cardinality

\* There is a number left for another request or failure.
LEMMA BudgetFacts ==
    ASSUME LoginsInv, Logins!InBudget
    PROVE  /\ failures + 1 \in 0 .. Budget
           /\ Cardinality(Logins!Sent) + 1 \in Logins!Ids
           /\ Logins!Sent = 1 .. Cardinality(Logins!Sent)
           /\ Cardinality(Logins!Sent) \in Nat
<1>1. PICK n \in 0 .. Budget : Logins!Sent = 1 .. n
  BY DEF LoginsInv, Numbered
<1>2. Budget \in Nat /\ n \in Nat /\ failures \in Nat
  BY LoginsAssumption DEF Logins!ConstantsAssumption, LoginsInv, Logins!TypeOK
<1>3. Cardinality(1 .. n) = n
  BY <1>2, FS_Interval
<1>4. Cardinality(Logins!Sent) = n
  BY <1>1, <1>3
<1>5. n + failures < Budget
  BY <1>4, SameCardinality DEF Logins!InBudget
<1> QED
  BY <1>1, <1>2, <1>4, <1>5 DEF Logins!Ids

\* A new request meets those under way.
LEMMA SendInv ==
    ASSUME LoginsInv, NEW wish \in Wishes, Logins!Send(wish)
    PROVE  LoginsInv'
<1>1. PICK i : i = Cardinality(Logins!Sent) + 1
  OBVIOUS
<1>2. i \in Logins!Ids /\ i \notin Logins!Sent /\ Logins!Sent \cup {i} = 1 .. i
  BY <1>1, BudgetFacts DEF Logins!Send
<1>3. /\ users' = users /\ links' = links /\ storage' = storage /\ cache' = cache
      /\ failures' = failures
      /\ met' = IF Logins!Running = {} THEN met ELSE met \cup Logins!Running \cup {i}
  BY <1>1, SameCardinality DEF Logins!Send, Logins!tables
<1>4. /\ wish.kind \in {"login", "invite"} /\ wish.subject \in Subjects
      /\ wish.email \in Emails
  BY LoginsAssumption DEF Logins!ConstantsAssumption
<1>5. PICK n : n = Logins!NoRequest
  OBVIOUS
<1>6. /\ n \in Logins!Request
      /\ n.write = None /\ n.link = None /\ n.locked = FALSE /\ n.answer = "none"
  BY <1>5, NoRequestTyped DEF Logins!NoRequest
<1>7. PICK r : r = [n EXCEPT !.kind = wish.kind, !.subject = wish.subject,
                             !.email = wish.email, !.pc = "ready"]
  OBVIOUS
<1>8. /\ r \in Logins!Request /\ r.kind # "none" /\ r.pc = "ready" /\ r.answer = "none"
      /\ r.write = None /\ r.link = None /\ r.locked = FALSE
  BY <1>4, <1>6, <1>7 DEF Logins!Request, Logins!Steps, Logins!Kinds
<1>9. login' = [login EXCEPT ![i] = r]
  BY <1>1, <1>5, <1>7, SameCardinality DEF Logins!Send
<1>10. /\ login \in [Logins!Ids -> Logins!Request]
       /\ login'[i] = r /\ \A j \in Logins!Ids \ {i} : login'[j] = login[j]
  BY <1>2, <1>9 DEF LoginsInv, Logins!TypeOK
<1>11. login[i].kind = "none" /\ login[i].answer = "none" /\ users[i] = None
  BY <1>2 DEF LoginsInv, Shape, Logins!Sent, Logins!RefusedRequestsLeaveNoUser
<1>12. Logins!Running \subseteq Logins!Ids /\ met \subseteq Logins!Ids
  BY DEF Logins!Running, Logins!Sent, LoginsInv, Logins!TypeOK
<1>13. met' \subseteq Logins!Ids /\ met \subseteq met'
  BY <1>2, <1>3, <1>12
<1>14. Logins!TypeOK'
  BY <1>3, <1>8, <1>9, <1>10, <1>13 DEF LoginsInv, Logins!TypeOK
<1>15. Logins!Sent' = Logins!Sent \cup {i}
  BY <1>2, <1>8, <1>10 DEF Logins!Sent
<1>16. Numbered'
  <2>1. i \in 0 .. Budget
    BY <1>2, LoginsAssumption DEF Logins!ConstantsAssumption, Logins!Ids
  <2> QED
    BY <2>1, <1>2, <1>15 DEF Numbered
<1>17. Shape(r) /\ Knows(r) /\ KnowsAlone(r)
  BY <1>8 DEF Shape, Knows, KnowsAlone
<1>18. ASSUME NEW j \in Logins!Ids PROVE Shape(login[j])' /\ Knows(login[j])'
  <2>1. Shape(login'[j]) /\ Knows(login'[j])
    BY <1>10, <1>17 DEF LoginsInv
  <2> QED
    BY <2>1, <1>3 DEF Shape, Knows
<1>19. WritesOwn'
  BY <1>3, <1>8, <1>10 DEF LoginsInv, WritesOwn
<1>20. LockedApart'
  BY <1>8, <1>10 DEF LoginsInv, LockedApart
<1>21. Logins!Running' = Logins!Running \cup {i}
  BY <1>2, <1>8, <1>10, <1>15 DEF Logins!Running, Logins!Sent
<1>22. MetTogether'
  BY <1>3, <1>13, <1>21 DEF LoginsInv, MetTogether
<1>23. ASSUME NEW j \in Logins!Running', j \notin met' PROVE KnowsAlone(login[j])'
  <2>1. KnowsAlone(login'[j])
    <3>1. CASE j = i
      BY <3>1, <1>10, <1>17
    <3>2. CASE j # i
      BY <3>2, <1>10, <1>12, <1>13, <1>21, <1>23 DEF LoginsInv
    <3> QED
      BY <3>1, <3>2
  <2> QED
    BY <2>1, <1>3 DEF KnowsAlone, Logins!HasEmail, Logins!Email
<1>24. (\A j \in Logins!Running : j \notin met => KnowsAlone(login[j]))'
  BY <1>23
<1>25. Logins!SubjectsShareAUserOnlyInRaces'
  <2> SUFFICES ASSUME NEW s \in Subjects, NEW u \in Subjects,
                      s # u, links[s] # None, links[s] = links[u]
               PROVE  \E j \in met' : Logins!Done(j, "ok")' /\ login'[j].kind = "login"
                                      /\ login'[j].subject \in {s, u}
    BY <1>3 DEF Logins!SubjectsShareAUserOnlyInRaces
  <2>1. PICK j \in met : Logins!Done(j, "ok") /\ login[j].kind = "login"
                         /\ login[j].subject \in {s, u}
    BY DEF LoginsInv, Logins!SubjectsShareAUserOnlyInRaces
  <2>2. j \in Logins!Ids /\ j # i
    BY <2>1, <1>2, <1>12 DEF Logins!Done
  <2> QED
    BY <2>1, <2>2, <1>10, <1>13, <1>15 DEF Logins!Done
<1>26. Logins!RefusedRequestsLeaveNoUser'
  BY <1>3, <1>10, <1>11 DEF LoginsInv, Logins!RefusedRequestsLeaveNoUser
<1>27. Logins!KeyStopsOnlyRaces'
  BY <1>8, <1>10, <1>13, <1>15 DEF LoginsInv, Logins!KeyStopsOnlyRaces, Logins!Done
<1> QED
  BY <1>14, <1>16, <1>18, <1>19, <1>20, <1>22, <1>24, <1>25, <1>26, <1>27 DEF LoginsInv

\* A failing call rolls its transaction back.
LEMMA CallFailsInv ==
    ASSUME LoginsInv, NEW i \in Logins!Ids, Logins!CallFails(i)
    PROVE  LoginsInv'
<1>1. /\ i \in Logins!Running /\ Logins!Rollback(i, "failed")
      /\ users' = users /\ links' = links /\ met' = met
      /\ storage' = storage /\ cache' = cache
  BY DEF Logins!CallFails, Logins!tables
<1>2. failures' \in 0 .. Budget
  BY BudgetFacts DEF Logins!CallFails
<1>3. storage' \in BOOLEAN /\ cache' \in {"none", "ready", "missing"}
  BY <1>1 DEF LoginsInv, Logins!TypeOK
<1>4. "failed" \in Logins!Answers \ {"none", "ok"}
  BY DEF Logins!Answers
<1> QED
  BY <1>1, <1>2, <1>3, <1>4, RollbackStep

\* The readiness of the storage is seen by nobody who is past it.
LEMMA StorageStep ==
    ASSUME LoginsInv, UNCHANGED <<users, links, login, met, failures>>,
           storage' \in BOOLEAN, cache' \in {"none", "ready", "missing"}
    PROVE  LoginsInv'
<1>1. Logins!TypeOK'
  BY DEF LoginsInv, Logins!TypeOK
<1>2. Logins!Sent' = Logins!Sent /\ Logins!Running' = Logins!Running
  BY DEF Logins!Sent, Logins!Running
<1>3. Numbered'
  BY <1>2 DEF LoginsInv, Numbered
<1>4. (\A i \in Logins!Ids : Shape(login[i]) /\ Knows(login[i]))'
  BY DEF LoginsInv, Shape, Knows
<1>5. WritesOwn' /\ LockedApart' /\ MetTogether'
  BY <1>2 DEF LoginsInv, WritesOwn, LockedApart, MetTogether
<1>6. (\A i \in Logins!Running : i \notin met => KnowsAlone(login[i]))'
  BY <1>2 DEF LoginsInv, KnowsAlone, Logins!HasEmail, Logins!Email
<1>7. /\ Logins!SubjectsShareAUserOnlyInRaces'
      /\ Logins!RefusedRequestsLeaveNoUser' /\ Logins!KeyStopsOnlyRaces'
  BY <1>2 DEF LoginsInv, Logins!SubjectsShareAUserOnlyInRaces,
     Logins!RefusedRequestsLeaveNoUser, Logins!KeyStopsOnlyRaces, Logins!Done
<1> QED
  BY <1>1, <1>3, <1>4, <1>5, <1>6, <1>7 DEF LoginsInv

-----------------------------------------------------------------------------

\* Nothing is sent at first, and one identity at most is there.
LEMMA InitLoginsInv == Logins!Init => LoginsInv
<1> SUFFICES ASSUME Logins!Init PROVE LoginsInv
  OBVIOUS
<1>1. PICK seed \in Seeds, linked \in BOOLEAN :
        /\ users = [u \in Logins!UserIds |-> IF u = 0 THEN seed.user ELSE None]
        /\ links = [s \in Subjects |->
             IF linked /\ seed.user # None /\ s = seed.subject THEN 0 ELSE None]
  BY DEF Logins!Init
<1>2. /\ storage \in BOOLEAN /\ cache \in {"none", "ready", "missing"}
      /\ login = [i \in Logins!Ids |-> Logins!NoRequest] /\ met = {} /\ failures = 0
  BY DEF Logins!Init
<1>3. /\ seed.user \in Logins!User \cup {None} /\ Budget \in Nat
      /\ None \notin Logins!UserIds
  BY LoginsAssumption DEF Logins!ConstantsAssumption
<1>4. 0 \in Logins!UserIds /\ 0 # None /\ Logins!Ids \subseteq Logins!UserIds
      /\ 0 \notin Logins!Ids
  BY <1>3 DEF Logins!UserIds, Logins!Ids
<1>5. users \in [Logins!UserIds -> Logins!User \cup {None}]
  BY <1>1, <1>3
<1>6. /\ links \in [Subjects -> Logins!UserIds \cup {None}]
      /\ \A s \in Subjects : links[s] # None => links[s] = 0 /\ s = seed.subject
                                                /\ users[links[s]] # None
  BY <1>1, <1>4
<1>7. Logins!TypeOK
  BY <1>2, <1>3, <1>5, <1>6, NoRequestTyped DEF Logins!TypeOK
<1>8. PICK n : n = Logins!NoRequest
  OBVIOUS
<1>9. /\ n.kind = "none" /\ n.pc = "unsent" /\ n.write = None /\ n.link = None
      /\ n.locked = FALSE /\ n.answer = "none"
  BY <1>8 DEF Logins!NoRequest
<1>10. \A i \in Logins!Ids : login[i] = n
  BY <1>2, <1>8
<1>11. Logins!Sent = {} /\ Logins!Running = {}
  BY <1>9, <1>10 DEF Logins!Sent, Logins!Running
<1>12. Numbered
  <2>1. Logins!Sent = 1 .. 0 /\ 0 \in 0 .. Budget
    BY <1>3, <1>11
  <2> QED
    BY <2>1 DEF Numbered
<1>13. Shape(n) /\ Knows(n)
  BY <1>9 DEF Shape, Knows
<1>14. WritesOwn /\ LockedApart /\ MetTogether
  BY <1>9, <1>10, <1>11 DEF WritesOwn, LockedApart, MetTogether
<1>15. Logins!SubjectsShareAUserOnlyInRaces
  BY <1>6 DEF Logins!SubjectsShareAUserOnlyInRaces
<1>16. Logins!RefusedRequestsLeaveNoUser
  BY <1>1, <1>4 DEF Logins!RefusedRequestsLeaveNoUser
<1>17. Logins!KeyStopsOnlyRaces
  BY <1>11 DEF Logins!KeyStopsOnlyRaces, Logins!Done
<1> QED
  BY <1>7, <1>10, <1>11, <1>12, <1>13, <1>14, <1>15, <1>16, <1>17 DEF LoginsInv

\* Every step of the logins keeps the invariant.
LEMMA NextLoginsInv ==
    ASSUME LoginsInv, Logins!Next
    PROVE  LoginsInv'
<1>1. ASSUME NEW wish \in Wishes, Logins!Send(wish) PROVE LoginsInv'
  BY <1>1, SendInv
<1>2. ASSUME NEW i \in Logins!Ids, Logins!Serve(i) PROVE LoginsInv'
  BY <1>2, InspectInv, ReportInv, FindInv, ConflictInv, UpdateInv, RivalInv, UpsertInv,
     LinkInv, CommitInv DEF Logins!Serve
<1>3. ASSUME NEW i \in Logins!Ids, Logins!CallFails(i) PROVE LoginsInv'
  BY <1>3, CallFailsInv
<1>4. CASE Logins!Expire
  <2>1. storage' \in BOOLEAN
    BY <1>4 DEF Logins!Expire, LoginsInv, Logins!TypeOK
  <2> QED
    BY <1>4, <2>1, StorageStep DEF Logins!Expire
<1>5. CASE Logins!Migrate
  <2>1. cache' \in {"none", "ready", "missing"}
    BY <1>5 DEF Logins!Migrate, LoginsInv, Logins!TypeOK
  <2> QED
    BY <1>5, <2>1, StorageStep DEF Logins!Migrate
<1> QED
  BY <1>1, <1>2, <1>3, <1>4, <1>5 DEF Logins!Next

\* The two parts together: the invariants of both hold whichever part moves.
THEOREM AccessInvariant == MCSpec => [](IInv /\ LoginsInv)
<1>1. MCInit => IInv /\ LoginsInv
  BY InitIInv, InitLoginsInv DEF MCInit, OneOwner
<1>2. ASSUME IInv, LoginsInv, [MCNext]_<<area, memberVars, loginVars>>
      PROVE  IInv' /\ LoginsInv'
  <2>1. ASSUME UNCHANGED memberVars PROVE IInv'
    BY <1>2, <2>1, NextIInv DEF memberVars
  <2>2. ASSUME UNCHANGED loginVars PROVE LoginsInv'
    <3>1. storage' \in BOOLEAN /\ cache' \in {"none", "ready", "missing"}
      BY <1>2, <2>2 DEF LoginsInv, Logins!TypeOK, loginVars
    <3> QED
      BY <1>2, <2>2, <3>1, StorageStep DEF loginVars
  <2>3. CASE Next /\ UNCHANGED <<area, loginVars>>
    BY <1>2, <2>2, <2>3, NextIInv
  <2>4. CASE Logins!Next /\ UNCHANGED <<area, memberVars>>
    BY <1>2, <2>1, <2>4, NextLoginsInv
  <2>5. CASE UNCHANGED <<area, memberVars, loginVars>>
    BY <2>1, <2>2, <2>5
  <2> QED
    BY <1>2, <2>3, <2>4, <2>5 DEF MCNext
<1> QED
  BY <1>1, <1>2, PTL DEF MCSpec

\* Whatever logins, invitations and membership changes meet: types, answers that name the
\* linked user, users that are shared only after a race, no user of a refused request, and
\* a key that stops only logins that met another request (syncAuthenticatedActor,
\* upsertUserByEmailTx, updateExistingUserTx).
THEOREM AccessSound == MCSpec => []AccessIsSound
<1>1. IInv /\ LoginsInv => AccessIsSound
  <2> SUFFICES ASSUME IInv, LoginsInv PROVE AccessIsSound
    OBVIOUS
  <2>1. TypeOK
    BY DEF IInv
  <2>2. Logins!AnswersNameTheLinkedUser
    BY DEF LoginsInv, Knows, Logins!AnswersNameTheLinkedUser, Logins!Done
  <2> QED
    BY <2>1, <2>2 DEF LoginsInv, AccessIsSound
<1> QED
  BY <1>1, AccessInvariant, PTL

=============================================================================
