----------------------- MODULE EditorAutosave_proofs -----------------------
(***************************************************************************)
(* Proofs about EditorAutosave, for any edits, tabs and sessions, any      *)
(* number of lost answers and any revisions: types, and that queue, badge  *)
(* and row agree about what the user did.                                  *)
(*                                                                         *)
(* The invariant has three layers.  Typed holds in every session.  Lined,  *)
(* the shape of the queue, holds where nothing is restored: a restore      *)
(* starts the local versions again.  Kept, what is stored, holds where in  *)
(* addition the Save button and direct writes do not meet.                 *)
(***************************************************************************)
EXTENDS EditorAutosave, TLAPS, WellFoundedInduction

\* Types, with what they leave open: an answer of the server carries a revision,
\* and no revision the tab knows is newer than the row.
ServerTyped ==
    /\ session \in Sessions
    /\ row \in [revision : Nat, content : SUBSET AllEdits]
    /\ stray \subseteq Calls
    /\ lost \in 0 .. MaxLost
    /\ peered \subseteq Peers

CanvasTyped == made \in Seq(Edits) /\ local \subseteq AllEdits /\ localVersion \in Nat

RefsTyped ==
    /\ queue \in Seq(Entries) /\ queueRef \in Seq(Entries)
    /\ revision \in Nat /\ revisionRef \in Nat /\ rendering \in BOOLEAN
    /\ revision <= row.revision /\ revisionRef <= row.revision

BadgeTyped ==
    /\ timer \in BOOLEAN /\ dirty \in BOOLEAN
    /\ status \in {"saved", "dirty", "saving", "error"}

CallTyped(c) ==
    /\ c \in Calls
    /\ c.phase \in {"ok", "conflict", "committed"} => c.revision \in Nat
    /\ c.revision \in Nat => c.revision <= row.revision

CallsTyped == call \in [Owners -> Calls] /\ \A o \in Owners : CallTyped(call[o])

TaskTyped ==
    /\ task \in Tasks
    /\ task.kind = "flush" => task.items # <<>> /\ call["task"].op = "command"

Typed ==
    /\ ServerTyped /\ CanvasTyped /\ RefsTyped
    /\ BadgeTyped /\ CallsTyped /\ TaskTyped

\* q holds the latest of the edits m, in order, each under its number.
EndsMade(q, m) ==
    /\ Len(q) <= Len(m)
    /\ \A i \in 1 .. Len(q) :
         q[i] = [version |-> Len(m) - Len(q) + i, edit |-> m[Len(m) - Len(q) + i]]

\* The edits that have left the queue.
Left == Len(made) - Len(queue)

\* Edits are numbered as they are made and no edit is made twice; what the handlers
\* read lags behind the queue until the next render.
QueueShape ==
    /\ localVersion = Len(made)
    /\ \A i, j \in DOMAIN made : made[i] = made[j] => i = j
    /\ EndsMade(queue, made) /\ EndsMade(queueRef, made)
    /\ Len(queue) <= Len(queueRef)
    /\ ~rendering => queueRef = queue

\* A flush works on the first commands of the queue; a snapshot on its way shows
\* the edits that have left the queue, and only a flush takes edits out of it.
TaskShape ==
    /\ task.kind = "flush" =>
         /\ Len(task.items) <= Len(queue)
         /\ \A i \in 1 .. Len(task.items) : task.items[i] = queue[i]
    /\ task.kind = "put" => task.version = Left

\* Saved means that nothing waits; what waits is scheduled.
BadgeShape ==
    /\ status = "saved" => queue = <<>>
    /\ queue # <<>> => timer \/ Busy \/ status = "error"

NothingRestores ==
    /\ \A o \in Owners : call[o].op # "restore"
    /\ \A c \in stray : c.op # "restore"

Lined == QueueShape /\ TaskShape /\ BadgeShape /\ NothingRestores

UserMade == Edited(made) \cup session.direct

InOrder(content) ==
    \A i, j \in DOMAIN made : i < j /\ made[j] \in content => made[i] \in content

\* A snapshot on its way that the row would still accept shows all the row holds.
PutFits(c) ==
    /\ session.direct = {}
    /\ c.expected \in Nat /\ c.expected <= row.revision
    /\ InOrder(c.content)
    /\ c.expected = row.revision => row.content \ Peers \subseteq c.content

\* The edits made before a command on its way are stored.
CommandFits(c) ==
    \A i, j \in DOMAIN made : i < j /\ made[j] \in c.content => made[i] \in row.content

\* What each call carries, the late requests of callers that gave up included.
Fits(c) ==
    /\ c.content \ Peers \subseteq UserMade
    /\ c.phase = "sent" => c.op # "none"
    /\ c.op = "put" /\ c.phase = "sent" => PutFits(c)
    /\ c.op = "command" /\ c.phase = "sent" => CommandFits(c)
    /\ c.phase = "ok" => c.content \ Peers \subseteq row.content

\* The row holds the user's edits in order, all that left the queue among them.
RowFits ==
    /\ row.content \ Peers \subseteq UserMade
    /\ InOrder(row.content)
    /\ \A i \in 1 .. Left : made[i] \in row.content

\* The command of a flush is in its request, then in the row.
FlushFits ==
    task.kind = "flush" =>
      /\ call["task"].phase = "sent" => Head(task.items).edit \in call["task"].content
      /\ call["task"].phase \in {"committed", "ok"} => Head(task.items).edit \in row.content

\* Where the user sends nothing past the queue, nothing ever overwrites the canvas.
WritesFit ==
    /\ task.wants \subseteq session.direct
    /\ task.after = "put" => session.direct = {}
    /\ session.direct = {} => task.after # "write" /\ call["write"] = NoCall

\* The canvas shows all the user's edits, or nothing that could get lost with it.
CanvasFits ==
    /\ local \ Peers \subseteq UserMade
    /\ session.direct = {} => Edited(made) \subseteq local
    /\ session.direct # {} => local \ Peers \subseteq row.content \cup Queued

CallsFit ==
    /\ \A o \in Owners : Fits(call[o])
    /\ \A c \in stray : c.phase = "sent" /\ Fits(c)

Kept == CallsFit /\ RowFits /\ FlushFits /\ WritesFit /\ CanvasFits

IInv ==
    /\ Typed
    /\ NoRestore => Lined
    /\ Steady => Kept

-----------------------------------------------------------------------------
(* The filter of the queue. *)

\* Every non-empty set of naturals has a least element.
LEMMA LeastElement ==
    ASSUME NEW S \in SUBSET Nat, S # {}
    PROVE  \E m \in S : \A n \in S : m <= n
<1> DEFINE R == OpToRel(<, Nat)
<1>1. IsWellFoundedOn(R, Nat)
  BY NatLessThanWellFounded, Zenon
<1>2. PICK m \in S : \A n \in S : ~ (<<n, m>> \in R)
  BY <1>1, WFMin, Zenon
<1>3. \A n \in S : ~ (n < m)
  BY <1>2 DEF OpToRel
<1> QED
  BY <1>3

\* The recursive function of Without, up to the n-th entry of q.
Keeps(q, versions, n, f) ==
    f = [i \in 0 .. n |->
           IF i = 0 THEN <<>>
           ELSE IF q[i].version \in versions THEN f[i - 1]
           ELSE Append(f[i - 1], q[i])]

\* The recursive function exists, so that Without is its last value.
LEMMA WithoutUnfolds ==
    ASSUME NEW E, NEW q \in Seq(E), NEW versions
    PROVE  \E f : Keeps(q, versions, Len(q), f) /\ Without(q, versions) = f[Len(q)]
<1> DEFINE Missing == {n \in 0 .. Len(q) : ~ \E f : Keeps(q, versions, n, f)}
<1>1. Missing = {}
  <2>1. SUFFICES ASSUME Missing # {} PROVE FALSE
    OBVIOUS
  <2>2. PICK m \in Missing : \A n \in Missing : m <= n
    <3>1. Missing \in SUBSET Nat
      OBVIOUS
    <3> HIDE DEF Missing
    <3> QED
      BY <2>1, <3>1, LeastElement
  <2>3. m # 0
    <3>1. Keeps(q, versions, 0, [i \in 0 .. 0 |-> <<>>])
      BY DEF Keeps
    <3> QED
      BY <2>2, <3>1
  <2>4. PICK f : Keeps(q, versions, m - 1, f)
    BY <2>2, <2>3
  <2> DEFINE next == IF q[m].version \in versions THEN f[m - 1]
                                                  ELSE Append(f[m - 1], q[m])
             g == [i \in 0 .. m |-> IF i = m THEN next ELSE f[i]]
  <2>5. ASSUME NEW i \in 0 .. m
        PROVE  g[i] = IF i = 0 THEN <<>>
                      ELSE IF q[i].version \in versions THEN g[i - 1]
                      ELSE Append(g[i - 1], q[i])
    <3>1. CASE i = m
      BY <2>2, <2>3, <3>1
    <3>2. CASE i # m
      <4>1. i \in 0 .. m - 1 /\ (i # 0 => i - 1 \in 0 .. m - 1)
        BY <2>2, <2>3, <3>2
      <4>2. g[i] = f[i] /\ (i # 0 => g[i - 1] = f[i - 1])
        BY <2>2, <2>3, <3>2, <4>1
      <4>3. f[i] = IF i = 0 THEN <<>>
                   ELSE IF q[i].version \in versions THEN f[i - 1]
                   ELSE Append(f[i - 1], q[i])
        BY <2>4, <4>1 DEF Keeps
      <4> QED
        BY <4>2, <4>3
    <3> QED
      BY <3>1, <3>2
  <2>6. g = [i \in 0 .. m |-> g[i]]
    OBVIOUS
  <2> HIDE DEF g
  <2>7. Keeps(q, versions, m, g)
    BY <2>5, <2>6 DEF Keeps
  <2> QED
    BY <2>2, <2>7
<1>2. \E f : Keeps(q, versions, Len(q), f)
  <2>1. Len(q) \in 0 .. Len(q)
    OBVIOUS
  <2> QED
    BY <1>1, <2>1
<1> DEFINE kept == CHOOSE f : Keeps(q, versions, Len(q), f)
<1>3. Keeps(q, versions, Len(q), kept)
  BY <1>2
<1>4. Without(q, versions) = kept[Len(q)]
  BY DEF Without, Keeps
<1> QED
  BY <1>3, <1>4

\* What is left of a sequence of entries is a sequence of entries.
LEMMA WithoutType ==
    ASSUME NEW E, NEW q \in Seq(E), NEW versions
    PROVE  Without(q, versions) \in Seq(E)
<1>1. PICK f : Keeps(q, versions, Len(q), f) /\ Without(q, versions) = f[Len(q)]
  BY WithoutUnfolds
<1> DEFINE Wrong == {n \in 0 .. Len(q) : f[n] \notin Seq(E)}
<1>2. Wrong = {}
  <2>1. SUFFICES ASSUME Wrong # {} PROVE FALSE
    OBVIOUS
  <2>2. PICK m \in Wrong : \A n \in Wrong : m <= n
    <3>1. Wrong \in SUBSET Nat
      OBVIOUS
    <3> HIDE DEF Wrong
    <3> QED
      BY <2>1, <3>1, LeastElement
  <2>3. f[m] = IF m = 0 THEN <<>>
               ELSE IF q[m].version \in versions THEN f[m - 1]
               ELSE Append(f[m - 1], q[m])
    BY <1>1, <2>2 DEF Keeps
  <2>4. m = 0 \/ (m - 1 \in 0 .. Len(q) /\ f[m - 1] \in Seq(E) /\ q[m] \in E)
    BY <2>2
  <2>5. f[m] \in Seq(E)
    BY <2>3, <2>4
  <2> QED
    BY <2>2, <2>5
<1>3. Len(q) \in 0 .. Len(q)
  OBVIOUS
<1> QED
  BY <1>1, <1>2, <1>3

\* When the entries to remove are the first k of q, the others are left, in order.
LEMMA WithoutFirst ==
    ASSUME NEW E, NEW q \in Seq(E), NEW versions, NEW k \in 0 .. Len(q),
           \A i \in 1 .. k : q[i].version \in versions,
           \A i \in k + 1 .. Len(q) : q[i].version \notin versions
    PROVE  Without(q, versions) = SubSeq(q, k + 1, Len(q))
<1>1. PICK f : Keeps(q, versions, Len(q), f) /\ Without(q, versions) = f[Len(q)]
  BY WithoutUnfolds
<1> DEFINE Rest(n) == SubSeq(q, k + 1, n)
           Wrong == {n \in 0 .. Len(q) : f[n] # Rest(n)}
<1>2. Wrong = {}
  <2>1. SUFFICES ASSUME Wrong # {} PROVE FALSE
    OBVIOUS
  <2>2. PICK m \in Wrong : \A n \in Wrong : m <= n
    <3>1. Wrong \in SUBSET Nat
      OBVIOUS
    <3> HIDE DEF Wrong
    <3> QED
      BY <2>1, <3>1, LeastElement
  <2>3. f[m] = IF m = 0 THEN <<>>
               ELSE IF q[m].version \in versions THEN f[m - 1]
               ELSE Append(f[m - 1], q[m])
    BY <1>1, <2>2 DEF Keeps
  <2>4. m = 0 \/ (m - 1 \in 0 .. Len(q) /\ f[m - 1] = Rest(m - 1))
    BY <2>2
  <2>5. f[m] = Rest(m)
    <3>1. CASE m <= k
      BY <2>2, <2>3, <2>4, <3>1
    <3>2. CASE m > k
      <4>1. q[m].version \notin versions /\ m # 0
        BY <2>2, <3>2
      <4>2. Rest(m) = Append(Rest(m - 1), q[m])
        BY <2>2, <3>2
      <4> QED
        BY <2>3, <2>4, <4>1, <4>2
    <3> QED
      BY <2>2, <3>1, <3>2
  <2> QED
    BY <2>2, <2>5
<1>3. Len(q) \in 0 .. Len(q)
  OBVIOUS
<1> QED
  BY <1>1, <1>2, <1>3

-----------------------------------------------------------------------------
(* Types. *)

\* Typed says all that TypeOK says.
LEMMA TypedIsTypeOK == Typed => TypeOK
BY DEF Typed, ServerTyped, CanvasTyped, RefsTyped, BadgeTyped, CallsTyped, TaskTyped, TypeOK

\* A request on its way is a call without a revision.
LEMMA RequestTyped ==
    ASSUME NEW op \in {"command", "put", "restore", "get"},
           NEW content \in SUBSET AllEdits, NEW expected \in Nat \cup {None},
           NEW c, c = Request(op, content, expected)
    PROVE  /\ c \in Calls
           /\ c.op = op /\ c.content = content /\ c.expected = expected
           /\ c.phase = "sent" /\ c.revision = None
BY DEF Request, Calls, Phases

\* One call changes: it is a new request, or there is none any more.
LEMMA SendTyped ==
    ASSUME CallsTyped, row' = row, NEW o \in Owners,
           NEW op \in {"command", "put", "restore", "get"},
           NEW content \in SUBSET AllEdits, NEW expected \in Nat \cup {None},
           call' = [call EXCEPT ![o] = Request(op, content, expected)]
    PROVE  CallsTyped' /\ call'[o].op = op
<1> DEFINE c == Request(op, content, expected)
<1>1. /\ c \in Calls /\ c.op = op
      /\ c.phase = "sent" /\ c.revision = None
  BY RequestTyped
<1> HIDE DEF c
<1> QED
  BY <1>1, NoneAssumption DEF CallsTyped, CallTyped, c

\* What becomes of a call keeps its operation and what it expected.
LEMMA AnswerTyped ==
    ASSUME CallsTyped, row'.revision >= row.revision, row.revision \in Nat,
           row'.revision \in Nat, NEW o \in Owners, NEW phase \in Phases,
           NEW content \in SUBSET AllEdits, NEW n \in Nat \cup {None},
           phase \in {"ok", "conflict", "committed"} => n \in Nat,
           n \in Nat => n <= row'.revision,
           call' = [call EXCEPT ![o] = [@ EXCEPT !.phase = phase, !.content = content,
                                                 !.revision = n]]
    PROVE  CallsTyped' /\ \A p \in Owners : call'[p].op = call[p].op
<1> DEFINE c == [call[o] EXCEPT !.phase = phase, !.content = content, !.revision = n]
<1>1. call[o] \in Calls
  BY DEF CallsTyped, CallTyped
<1>2. /\ c \in Calls /\ c.op = call[o].op
      /\ c.phase = phase /\ c.revision = n
  BY <1>1 DEF Calls
<1>3. call' = [call EXCEPT ![o] = c]
  OBVIOUS
<1> HIDE DEF c
<1>4. call' \in [Owners -> Calls] /\ call'[o] = c /\ \A p \in Owners \ {o} : call'[p] = call[p]
  BY <1>2, <1>3 DEF CallsTyped
<1>5. \A p \in Owners : CallTyped(call[p])'
  BY <1>2, <1>4 DEF CallsTyped, CallTyped, Calls
<1> QED
  BY <1>2, <1>4, <1>5 DEF CallsTyped

\* A call that is over keeps the types.
LEMMA HangUpTyped ==
    ASSUME CallsTyped, row' = row, NEW o \in Owners,
           call' = [call EXCEPT ![o] = NoCall]
    PROVE  CallsTyped'
<1>1. NoCall \in Calls /\ NoCall.phase = "idle" /\ NoCall.revision = None
  BY DEF NoCall, Calls, Phases
<1> QED
  BY <1>1, NoneAssumption DEF CallsTyped, CallTyped

\* The first command of a flush.
LEMMA HeadTyped ==
    ASSUME NEW q \in Seq(Entries), q # <<>>
    PROVE  Head(q) \in Entries /\ Head(q).edit \in Edits /\ Head(q).edit \in AllEdits
<1>1. Head(q) \in Entries
  OBVIOUS
<1> QED
  BY <1>1 DEF Entries, AllEdits

\* The second command of a flush and what is left after the first.
LEMMA TailTyped ==
    ASSUME NEW q \in Seq(Entries), Len(q) > 1
    PROVE  /\ q[2] \in Entries /\ q[2].edit \in Edits /\ q[2].edit \in AllEdits
           /\ Tail(q) \in Seq(Entries) /\ Tail(q) # <<>> /\ Len(Tail(q)) = Len(q) - 1
           /\ \A i \in 1 .. Len(q) - 1 : Tail(q)[i] = q[i + 1]
<1>1. q[2] \in Entries
  OBVIOUS
<1>2. q[2].edit \in Edits /\ q[2].edit \in AllEdits
  BY <1>1 DEF Entries, AllEdits
<1>3. Tail(q) \in Seq(Entries) /\ Len(Tail(q)) = Len(q) - 1
  OBVIOUS
<1>4. \A i \in 1 .. Len(q) - 1 : Tail(q)[i] = q[i + 1]
  OBVIOUS
<1>5. Tail(q) # <<>>
  <2> DEFINE rest == Tail(q)
  <2>1. rest \in Seq(Entries) /\ Len(rest) = Len(q) - 1 /\ Len(q) \in Nat
    BY <1>3
  <2> HIDE DEF rest
  <2>2. rest # <<>>
    BY <2>1
  <2> QED
    BY <2>2 DEF rest
<1> QED
  BY <1>1, <1>2, <1>3, <1>4, <1>5

\* flushPendingCommands() starts with a request of the right shape.
LEMMA FlushTyped ==
    ASSUME Typed, row' = row, NEW q \in Seq(Entries), q # <<>>,
           NEW after \in {"nothing", "put", "write"}, NEW wants \in SUBSET DirectEdits,
           Flush(q, after, wants)
    PROVE  CallsTyped' /\ TaskTyped' /\ RefsTyped'
<1>2. {Head(q).edit} \in SUBSET AllEdits
  BY HeadTyped
<1>3. CallsTyped' /\ call'["task"].op = "command"
  BY <1>2, SendTyped DEF Flush, Typed, RefsTyped, Owners
<1>4. TaskTyped'
  BY <1>3 DEF Flush, TaskTyped, Tasks, NoTask
<1>5. RefsTyped'
  BY DEF Flush, SetRevision, Typed, RefsTyped
<1> QED
  BY <1>3, <1>4, <1>5

\* So does handleManualSave() when it sends the snapshot.
LEMMA PutTyped ==
    ASSUME Typed, row' = row, Put
    PROVE  CallsTyped' /\ TaskTyped'
<1>1. CallsTyped'
  BY SendTyped DEF Put, Typed, RefsTyped, CanvasTyped, Owners
<1>2. task' = [kind |-> "put", items |-> <<>>, retried |-> FALSE, version |-> localVersion,
               after |-> "nothing", wants |-> {}]
  BY DEF Put, NoTask
<1>3. TaskTyped'
  BY <1>2 DEF Typed, CanvasTyped, TaskTyped, Tasks
<1> QED
  BY <1>1, <1>3

\* finishSaveRequest() keeps the types.
LEMMA EndTaskTyped ==
    ASSUME Typed, row' = row, EndTask
    PROVE  CallsTyped' /\ TaskTyped'
<1>1. CallsTyped'
  BY HangUpTyped DEF EndTask, Typed, Owners
<1>2. TaskTyped'
  BY DEF EndTask, TaskTyped, Tasks, NoTask
<1> QED
  BY <1>1, <1>2

\* The end of a flush hangs up, and its caller may send a request of its own.
LEMMA EndFlushTyped ==
    ASSUME Typed, row' = row, NEW s, EndFlush(s)
    PROVE  CallsTyped' /\ TaskTyped'
<1>1. CASE EndTask
  BY <1>1, EndTaskTyped
<1>2. CASE Put
  BY <1>2, PutTyped
<1>3. CASE /\ task' = NoTask
           /\ call' = [call EXCEPT !["task"] = NoCall,
                                   !["write"] = Request("command", task.wants, revisionRef)]
  <2>1. task.wants \in SUBSET AllEdits
    BY DEF Typed, TaskTyped, Tasks, AllEdits
  <2>2. /\ Request("command", task.wants, revisionRef) \in Calls
        /\ Request("command", task.wants, revisionRef).phase = "sent"
        /\ Request("command", task.wants, revisionRef).revision = None
    BY <2>1, RequestTyped DEF Typed, RefsTyped
  <2>3. NoCall \in Calls /\ NoCall.phase = "idle" /\ NoCall.revision = None
    BY DEF NoCall, Calls, Phases
  <2>4. CallsTyped'
    BY <1>3, <2>2, <2>3, NoneAssumption DEF Typed, CallsTyped, CallTyped, Owners
  <2>5. TaskTyped'
    BY <1>3 DEF TaskTyped, Tasks, NoTask
  <2> QED
    BY <2>4, <2>5
<1> QED
  BY <1>1, <1>2, <1>3 DEF EndFlush

\* The badge only takes the statuses of editor-autosave-state.ts.
LEMMA SetStatusTyped ==
    ASSUME BadgeTyped, timer' \in BOOLEAN,
           NEW s \in {"saved", "dirty", "saving", "error"}, SetStatus(s)
    PROVE  BadgeTyped'
BY DEF BadgeTyped, SetStatus

\* The server advances: the row changes by the requests it handles, and never goes back.
LEMMA ApplyTyped ==
    ASSUME Typed, NEW c \in Calls, Apply(c)
    PROVE  /\ row' \in [revision : Nat, content : SUBSET AllEdits]
           /\ row.revision <= row'.revision
<1>1. Stored(c) \in SUBSET AllEdits
  BY DEF Stored, Typed, ServerTyped, Calls
<1> QED
  BY <1>1 DEF Apply, Typed, ServerTyped

\* The server, the network and other tabs keep the types.
LEMMA NetworkTyped == ASSUME Typed, NetworkStep, UNCHANGED session PROVE Typed'
<1>1. ASSUME NEW o \in Owners, Handle(o) PROVE Typed'
  <2>1. call[o] \in Calls
    BY DEF Typed, CallsTyped
  <2>2. /\ row' \in [revision : Nat, content : SUBSET AllEdits]
        /\ row.revision <= row'.revision
    BY <1>1, <2>1, ApplyTyped DEF Handle
  <2>3. ServerTyped' /\ CanvasTyped' /\ RefsTyped' /\ BadgeTyped'
    BY <1>1, <2>2 DEF Handle, Typed, ServerTyped, CanvasTyped, RefsTyped, BadgeTyped,
                      canvas, refs, badge
  <2>4. Verdict(call[o]) \in {"ok", "failed", "conflict", "committed"}
    BY DEF Verdict
  <2>5. CallsTyped' /\ \A p \in Owners : call'[p].op = call[p].op
    <3> DEFINE n == IF Verdict(call[o]) = "failed" THEN None ELSE row.revision
    <3>1. n \in Nat \cup {None} /\ (n \in Nat => n <= row'.revision)
      BY <2>2, NoneAssumption DEF Typed, ServerTyped
    <3>2. call' = [call EXCEPT ![o] = [@ EXCEPT !.phase = Verdict(call[o]),
                                                !.content = row.content, !.revision = n]]
      BY <1>1 DEF Handle
    <3>3. Verdict(call[o]) \in {"ok", "conflict", "committed"} => n \in Nat
      BY DEF Typed, ServerTyped
    <3> HIDE DEF n
    <3> QED
      BY <2>2, <2>4, <3>1, <3>2, <3>3, AnswerTyped DEF Typed, ServerTyped, Phases
  <2>6. TaskTyped'
    BY <1>1, <2>5 DEF Handle, Typed, TaskTyped, Owners
  <2> QED
    BY <2>3, <2>5, <2>6 DEF Typed
<1>2. ASSUME NEW o \in Owners, Respond(o) PROVE Typed'
  <2>1. ServerTyped' /\ CanvasTyped' /\ RefsTyped' /\ BadgeTyped' /\ row' = row
    BY <1>2 DEF Respond, Typed, ServerTyped, CanvasTyped, RefsTyped, BadgeTyped,
                server, canvas, refs, badge
  <2>2. call' = [call EXCEPT ![o] = [@ EXCEPT !.phase = "ok", !.content = row.content,
                                              !.revision = row.revision]]
    BY <1>2 DEF Respond
  <2>3. CallsTyped' /\ \A p \in Owners : call'[p].op = call[p].op
    <3>1. /\ row.revision \in Nat /\ row'.revision \in Nat /\ row'.revision >= row.revision
          /\ row.content \in SUBSET AllEdits /\ row.revision <= row'.revision
      BY <2>1 DEF Typed, ServerTyped
    <3> QED
      BY <2>2, <3>1, AnswerTyped DEF Typed, Phases
  <2>4. TaskTyped'
    BY <1>2, <2>3 DEF Respond, Typed, TaskTyped, Owners
  <2> QED
    BY <2>1, <2>3, <2>4 DEF Typed
<1>3. ASSUME NEW o \in Owners, Lose(o) PROVE Typed'
  <2>1. ServerTyped' /\ CanvasTyped' /\ RefsTyped' /\ BadgeTyped' /\ row' = row
    BY <1>3, BoundAssumption
       DEF Lose, Typed, ServerTyped, CanvasTyped, RefsTyped, BadgeTyped, CallsTyped, CallTyped,
           canvas, refs, badge
  <2>2. call[o].content \in SUBSET AllEdits
    BY DEF Typed, CallsTyped, CallTyped, Calls
  <2>3. call' = [call EXCEPT ![o] = [@ EXCEPT !.phase = "failed", !.content = call[o].content,
                                              !.revision = None]]
    BY <1>3, <2>2 DEF Lose, Typed, CallsTyped, CallTyped, Calls
  <2>4. CallsTyped' /\ \A p \in Owners : call'[p].op = call[p].op
    <3>1. row.revision \in Nat /\ row'.revision \in Nat /\ row'.revision >= row.revision
      BY <2>1 DEF Typed, ServerTyped
    <3> QED
      BY <2>2, <2>3, <3>1, AnswerTyped, NoneAssumption DEF Typed, Phases
  <2>5. TaskTyped'
    BY <1>3, <2>4 DEF Lose, Typed, TaskTyped, Owners
  <2> QED
    BY <2>1, <2>4, <2>5 DEF Typed
<1>4. ASSUME NEW c \in stray, HandleStray(c) PROVE Typed'
  <2>1. c \in Calls
    BY <1>4 DEF Typed, ServerTyped
  <2>2. /\ row' \in [revision : Nat, content : SUBSET AllEdits]
        /\ row.revision <= row'.revision
    BY <1>4, <2>1, ApplyTyped DEF HandleStray
  <2> QED
    BY <1>4, <2>2 DEF HandleStray, Typed, ServerTyped, CanvasTyped, RefsTyped, BadgeTyped,
                      CallsTyped, CallTyped, TaskTyped, canvas, refs, badge
<1>5. ASSUME NEW p \in session.peers, PeerCommits(p) PROVE Typed'
  <2>1. p \in Peers
    BY <1>5, SessionsAssumption DEF Typed, ServerTyped
  <2>2. /\ row' \in [revision : Nat, content : SUBSET AllEdits]
        /\ row.revision <= row'.revision
    BY <1>5, <2>1 DEF PeerCommits, Typed, ServerTyped, AllEdits
  <2> QED
    BY <1>5, <2>1, <2>2 DEF PeerCommits, Typed, ServerTyped, CanvasTyped, RefsTyped, BadgeTyped,
                      CallsTyped, CallTyped, TaskTyped, canvas, refs, badge
<1> QED
  BY <1>1, <1>2, <1>3, <1>4, <1>5 DEF NetworkStep

\* What the user does keeps the types.
LEMMA UserTyped == ASSUME Typed, UserStep, UNCHANGED session PROVE Typed'
<1>1. ASSUME NEW e \in session.edits, Edit(e) PROVE Typed'
  <2>1. e \in Edits
    BY <1>1, SessionsAssumption DEF Typed, ServerTyped
  <2>2. ServerTyped' /\ row' = row /\ CallsTyped' /\ TaskTyped'
    BY <1>1 DEF Edit, Typed, ServerTyped, CallsTyped, CallTyped, TaskTyped, server
  <2>3. CanvasTyped'
    BY <1>1, <2>1 DEF Edit, Typed, CanvasTyped, AllEdits
  <2>4. [version |-> localVersion + 1, edit |-> e] \in Entries
    BY <2>1 DEF Entries, Typed, CanvasTyped
  <2>5. RefsTyped'
    <3>1. queue' \in Seq(Entries)
      BY <1>1, <2>4 DEF Edit, Typed, RefsTyped
    <3> QED
      BY <1>1, <2>2, <3>1 DEF Edit, Typed, RefsTyped
  <2>6. BadgeTyped'
    BY <1>1, SetStatusTyped DEF Edit, Typed
  <2> QED
    BY <2>2, <2>3, <2>5, <2>6 DEF Typed
<1>2. ASSUME NEW e \in session.direct, DirectWrite(e) PROVE Typed'
  <2>1. e \in DirectEdits /\ {e} \in SUBSET AllEdits
    BY <1>2, SessionsAssumption DEF Typed, ServerTyped, AllEdits
  <2>2. ServerTyped' /\ CanvasTyped' /\ row' = row
    BY <1>2 DEF DirectWrite, Typed, ServerTyped, CanvasTyped, server, canvas
  <2>3. CASE call' = [call EXCEPT !["write"] = Request("command", {e}, revisionRef)]
             /\ task' = task
    <3>1. CallsTyped'
      BY <2>1, <2>2, <2>3, SendTyped DEF Typed, RefsTyped, Owners
    <3>2. TaskTyped'
      BY <2>3 DEF Typed, CallsTyped, TaskTyped
    <3>3. RefsTyped' /\ BadgeTyped'
      BY <1>2, <2>2, SetStatusTyped
         DEF DirectWrite, Flush, SetRevision, Typed, RefsTyped, BadgeTyped, refs, badge
    <3> QED
      BY <2>2, <3>1, <3>2, <3>3 DEF Typed
  <2>4. CASE queueRef # <<>> /\ Flush(queueRef, "write", {e})
    <3>1. CallsTyped' /\ TaskTyped' /\ RefsTyped'
      BY <2>1, <2>2, <2>4, FlushTyped DEF Typed, RefsTyped
    <3>2. BadgeTyped'
      BY <1>2, <2>4, SetStatusTyped DEF DirectWrite, Flush, Typed, BadgeTyped
    <3> QED
      BY <2>2, <3>1, <3>2 DEF Typed
  <2> QED
    BY <1>2, <2>3, <2>4 DEF DirectWrite
<1>3. CASE Save
  <2>1. ServerTyped' /\ CanvasTyped' /\ row' = row
    BY <1>3 DEF Save, Typed, ServerTyped, CanvasTyped, server, canvas
  <2>2. BadgeTyped'
    BY <1>3, SetStatusTyped DEF Save, Flush, Put, Typed, BadgeTyped
  <2>3. CASE queueRef # <<>> /\ Flush(queueRef, "put", {})
    BY <2>1, <2>2, <2>3, FlushTyped DEF Typed, RefsTyped
  <2>4. CASE Put /\ SetRevision(revision)
    <3>1. RefsTyped'
      BY <2>1, <2>4 DEF SetRevision, Typed, RefsTyped
    <3> QED
      BY <2>1, <2>2, <2>4, <3>1, PutTyped DEF Typed
  <2> QED
    BY <1>3, <2>3, <2>4 DEF Save
<1>4. CASE Restore
  <2>1. ServerTyped' /\ CanvasTyped' /\ RefsTyped' /\ BadgeTyped' /\ row' = row
    BY <1>4 DEF Restore, Typed, ServerTyped, CanvasTyped, RefsTyped, BadgeTyped, server, canvas,
                refs, badge
  <2>2. CallsTyped'
    BY <1>4, <2>1, SendTyped DEF Restore, Typed, Owners
  <2>3. TaskTyped'
    BY <1>4 DEF Restore, Typed, CallsTyped, TaskTyped
  <2> QED
    BY <2>1, <2>2, <2>3 DEF Typed
<1> QED
  BY <1>1, <1>2, <1>3, <1>4 DEF UserStep

\* Fewer commands may wait, under a revision the server told.
LEMMA SetRevisionAndQueueTyped ==
    ASSUME Typed, row' = row, NEW n \in Nat, n <= row.revision, NEW versions,
           SetRevisionAndQueue(n, Without(queue, versions))
    PROVE  RefsTyped'
<1>1. Without(queue, versions) \in Seq(Entries)
  BY WithoutType DEF Typed, RefsTyped
<1> QED
  BY <1>1 DEF SetRevisionAndQueue, Typed, RefsTyped

\* The revision of a success or of a conflict is a number, and not a future one.
LEMMA AnsweredTyped ==
    ASSUME Typed, NEW kind, NEW phase \in {"ok", "conflict"}, Answered(kind, phase)
    PROVE  call["task"].revision \in Nat /\ call["task"].revision <= row.revision
BY DEF Answered, Typed, CallsTyped, CallTyped, Owners

\* The answers to the save in flight keep the types.
LEMMA TaskStepTyped == ASSUME Typed, TaskStep, UNCHANGED session PROVE Typed'
<1>1. ServerTyped' /\ CanvasTyped' /\ row' = row
  BY DEF TaskStep, FlushContinues, FlushCompletes, FlushRetries, FlushFails, PutSucceeds, PutFails,
         Typed, ServerTyped, CanvasTyped, server, canvas
<1>2. BadgeTyped'
  BY SetStatusTyped
     DEF TaskStep, FlushContinues, FlushCompletes, FlushRetries, FlushFails, PutSucceeds, PutFails,
         EndFlush, Put, Typed, BadgeTyped, badge
<1>3. CASE FlushContinues
  <2>1. call["task"].revision \in Nat /\ call["task"].revision <= row.revision
    BY <1>3, AnsweredTyped DEF FlushContinues
  <2>2. RefsTyped'
    BY <1>1, <1>3, <2>1, SetRevisionAndQueueTyped DEF FlushContinues, Dequeued
  <2>3. task.items \in Seq(Entries) /\ Len(task.items) > 1
    BY <1>3 DEF FlushContinues, Typed, TaskTyped, Tasks
  <2>4. {task.items[2].edit} \in SUBSET AllEdits
    BY <2>3, TailTyped
  <2>5. CallsTyped' /\ call'["task"].op = "command"
    BY <1>1, <1>3, <2>1, <2>4, SendTyped DEF FlushContinues, Typed, Owners
  <2>6. Tail(task.items) \in Seq(Entries) /\ Tail(task.items) # <<>>
    BY <2>3, TailTyped
  <2>7. TaskTyped'
    BY <1>3, <2>5, <2>6 DEF FlushContinues, Typed, TaskTyped, Tasks
  <2> QED
    BY <1>1, <1>2, <2>2, <2>5, <2>7 DEF Typed
<1>4. CASE FlushCompletes
  <2>1. call["task"].revision \in Nat /\ call["task"].revision <= row.revision
    BY <1>4, AnsweredTyped DEF FlushCompletes
  <2>2. RefsTyped'
    BY <1>1, <1>4, <2>1, SetRevisionAndQueueTyped DEF FlushCompletes, Dequeued
  <2>3. CallsTyped' /\ TaskTyped'
    BY <1>1, <1>4, EndFlushTyped DEF FlushCompletes
  <2> QED
    BY <1>1, <1>2, <2>2, <2>3 DEF Typed
<1>5. CASE FlushRetries
  <2>1. call["task"].revision \in Nat /\ call["task"].revision <= row.revision
    BY <1>5, AnsweredTyped DEF FlushRetries
  <2>2. RefsTyped'
    BY <1>1, <1>5, <2>1 DEF FlushRetries, SetRevision, Typed, RefsTyped
  <2>3. task.items \in Seq(Entries) /\ task.items # <<>>
    BY <1>5 DEF FlushRetries, Answered, Typed, TaskTyped, Tasks
  <2>4. {Sent.edit} \in SUBSET AllEdits
    BY <2>3, HeadTyped DEF Sent
  <2>5. CallsTyped' /\ call'["task"].op = "command"
    BY <1>1, <1>5, <2>1, <2>4, SendTyped DEF FlushRetries, Typed, Owners
  <2>6. TaskTyped'
    BY <1>5, <2>3, <2>5 DEF FlushRetries, Typed, TaskTyped, Tasks
  <2> QED
    BY <1>1, <1>2, <2>2, <2>5, <2>6 DEF Typed
<1>6. CASE FlushFails
  <2>1. RefsTyped'
    BY <1>1, <1>6, AnsweredTyped DEF FlushFails, SetRevision, Typed, RefsTyped
  <2> QED
    BY <1>1, <1>2, <1>6, <2>1, EndFlushTyped DEF FlushFails, Typed
<1>7. CASE PutSucceeds
  <2>1. call["task"].revision \in Nat /\ call["task"].revision <= row.revision
    BY <1>7, AnsweredTyped DEF PutSucceeds
  <2>2. RefsTyped'
    BY <1>1, <1>7, <2>1, SetRevisionAndQueueTyped DEF PutSucceeds
  <2> QED
    BY <1>1, <1>2, <1>7, <2>2, EndTaskTyped DEF PutSucceeds, Typed
<1>8. CASE PutFails
  <2>1. RefsTyped'
    BY <1>1, <1>8 DEF PutFails, SetRevision, Typed, RefsTyped
  <2> QED
    BY <1>1, <1>2, <1>8, <2>1, EndTaskTyped DEF PutFails, Typed
<1> QED
  BY <1>3, <1>4, <1>5, <1>6, <1>7, <1>8 DEF TaskStep

\* The answers to direct writes and restores keep the types.
LEMMA WriteStepTyped == ASSUME Typed, WriteStep, UNCHANGED session PROVE Typed'
<1>1. ServerTyped' /\ TaskTyped' /\ BadgeTyped' /\ row' = row
  <2>1. call'["task"] = call["task"]
    BY DEF WriteStep, DirectSucceeds, DirectFails, RestoreSucceeds, RestoreFails,
           Typed, CallsTyped, Owners
  <2> QED
    BY <2>1, SetStatusTyped
       DEF WriteStep, DirectSucceeds, DirectFails, RestoreSucceeds, RestoreFails,
           Typed, ServerTyped, TaskTyped, BadgeTyped, server, badge
<1>2. CallsTyped'
  BY <1>1, HangUpTyped
     DEF WriteStep, DirectSucceeds, DirectFails, RestoreSucceeds, RestoreFails, Typed, Owners
<1>3. /\ call["write"].content \in SUBSET AllEdits
      /\ call["write"].phase \in {"ok", "conflict"} =>
           call["write"].revision \in Nat /\ call["write"].revision <= row.revision
  BY DEF Typed, CallsTyped, CallTyped, Calls, Owners
<1>4. CanvasTyped'
  BY <1>3 DEF WriteStep, DirectSucceeds, DirectFails, RestoreSucceeds, RestoreFails,
              Typed, CanvasTyped, canvas
<1>5. RefsTyped'
  <2>1. CASE DirectSucceeds
    BY <1>1, <1>3, <2>1 DEF DirectSucceeds, SetRevision, Typed, RefsTyped
  <2>2. CASE DirectFails
    BY <1>1, <1>3, <2>2 DEF DirectFails, SetRevision, Typed, RefsTyped
  <2>3. CASE RestoreSucceeds
    BY <1>1, <1>3, <2>3 DEF RestoreSucceeds, Typed, RefsTyped
  <2>4. CASE RestoreFails
    BY <1>1, <1>3, <2>4 DEF RestoreFails, Typed, RefsTyped, refs
  <2> QED
    BY <2>1, <2>2, <2>3, <2>4 DEF WriteStep
<1> QED
  BY <1>1, <1>2, <1>4, <1>5 DEF Typed

\* The first refresh keeps the types.
LEMMA QueryStepTyped == ASSUME Typed, QueryStep, UNCHANGED session PROVE Typed'
<1>1. ServerTyped' /\ TaskTyped' /\ BadgeTyped' /\ row' = row
  <2>1. call'["task"] = call["task"]
    BY DEF QueryStep, RefreshArrives, RefreshFails, Typed, CallsTyped, Owners
  <2> QED
    BY <2>1, SetStatusTyped
       DEF QueryStep, RefreshArrives, RefreshFails,
           Typed, ServerTyped, TaskTyped, BadgeTyped, server, badge
<1>2. CallsTyped'
  BY <1>1, HangUpTyped DEF QueryStep, RefreshArrives, RefreshFails, Typed, Owners
<1>3. /\ call["query"].content \in SUBSET AllEdits
      /\ call["query"].phase = "ok" =>
           call["query"].revision \in Nat /\ call["query"].revision <= row.revision
  BY DEF Typed, CallsTyped, CallTyped, Calls, Owners
<1>4. CanvasTyped'
  BY <1>3 DEF QueryStep, RefreshArrives, RefreshFails, Typed, CanvasTyped, canvas
<1>5. RefsTyped'
  BY <1>1, <1>3 DEF QueryStep, RefreshArrives, RefreshFails, SetRevision, Typed, RefsTyped, refs
<1> QED
  BY <1>1, <1>2, <1>4, <1>5 DEF Typed

\* The types hold in every reachable state.
LEMMA TypesHold == Spec => []Typed
<1>1. Init => Typed
  <2> SUFFICES ASSUME Init PROVE Typed
    OBVIOUS
  <2>1. /\ Request("get", {}, None) \in Calls /\ Request("get", {}, None).revision = None
        /\ Request("get", {}, None).phase = "sent"
    BY DEF Request, Calls, Phases
  <2>2. NoCall \in Calls /\ NoCall.phase = "idle" /\ NoCall.revision = None
    BY DEF NoCall, Calls, Phases
  <2>4. CallsTyped
    BY <2>1, <2>2, NoneAssumption DEF Init, CallsTyped, CallTyped, Owners
  <2>5. TaskTyped
    BY DEF Init, TaskTyped, Tasks, NoTask
  <2>6. ServerTyped
    BY BoundAssumption DEF Init, ServerTyped
  <2>7. made = <<>> /\ local = {} /\ localVersion = 0 /\ queue = <<>> /\ queueRef = <<>>
        /\ revision = 1 /\ revisionRef = 1 /\ rendering = FALSE /\ row.revision = 1
    BY DEF Init
  <2>8. BadgeTyped
    BY DEF Init, BadgeTyped
  <2>9. CanvasTyped
    BY <2>7 DEF CanvasTyped
  <2>10. RefsTyped
    <3>1. queue \in Seq(Entries) /\ queueRef \in Seq(Entries)
      BY <2>7
    <3>2. revision \in Nat /\ revisionRef \in Nat /\ rendering \in BOOLEAN
      BY <2>7
    <3>3. revision <= row.revision /\ revisionRef <= row.revision
      BY <2>7
    <3> QED
      BY <3>1, <3>2, <3>3 DEF RefsTyped
  <2> QED
    BY <2>4, <2>5, <2>6, <2>8, <2>9, <2>10 DEF Typed
<1>2. Typed /\ [Next]_vars => Typed'
  <2> SUFFICES ASSUME Typed, [Next]_vars PROVE Typed'
    OBVIOUS
  <2>1. CASE Render /\ UNCHANGED session
    BY <2>1 DEF Render, Typed, ServerTyped, CanvasTyped, RefsTyped, BadgeTyped, CallsTyped,
                CallTyped, TaskTyped, server, canvas, badge
  <2>2. CASE AutosaveFires /\ UNCHANGED session
    <3>1. ServerTyped' /\ CanvasTyped' /\ BadgeTyped' /\ row' = row
      BY <2>2, SetStatusTyped DEF AutosaveFires, Flush, Typed, ServerTyped, CanvasTyped, BadgeTyped,
                                  server, canvas, badge
    <3>2. CASE UNCHANGED <<call, refs, task>>
      BY <3>1, <3>2 DEF Typed, RefsTyped, CallsTyped, CallTyped, TaskTyped, refs
    <3>3. CASE queueRef # <<>> /\ Flush(queueRef, "nothing", {})
      BY <3>1, <3>3, FlushTyped DEF Typed, RefsTyped
    <3> QED
      BY <2>2, <3>2, <3>3 DEF AutosaveFires
  <2>3. CASE UNCHANGED vars
    BY <2>3 DEF vars, Typed, ServerTyped, CanvasTyped, RefsTyped, BadgeTyped, CallsTyped,
                CallTyped, TaskTyped, server, canvas, refs, badge
  <2> QED
    BY <2>1, <2>2, <2>3, NetworkTyped, UserTyped, TaskStepTyped, WriteStepTyped, QueryStepTyped
       DEF Next
<1> QED
  BY <1>1, <1>2, PTL DEF Spec

\* TypeOK, the type invariant of the tab and of the server it talks to: in
\* particular a revision the tab adopts is always a number.
THEOREM TypeCorrect == Spec => []TypeOK
BY TypesHold, TypedIsTypeOK, PTL

-----------------------------------------------------------------------------
(* The queue. *)

\* One entry of such a queue.
LEMMA EntryOf ==
    ASSUME NEW m, NEW q, EndsMade(q, m), NEW i \in 1 .. Len(q)
    PROVE  /\ q[i].version = Len(m) - Len(q) + i
           /\ q[i].edit = m[Len(m) - Len(q) + i]
<1>1. q[i] = [version |-> Len(m) - Len(q) + i, edit |-> m[Len(m) - Len(q) + i]]
  BY DEF EndsMade
<1> QED
  BY <1>1

\* An edit appended to both the history and the queue keeps the shape of the queue.
LEMMA EndsWithNew ==
    ASSUME NEW m \in Seq(Edits), NEW q \in Seq(Entries), EndsMade(q, m), NEW e \in Edits
    PROVE  EndsMade(Append(q, [version |-> Len(m) + 1, edit |-> e]), Append(m, e))
<1> DEFINE new == [version |-> Len(m) + 1, edit |-> e]
           longer == Append(q, new)
           more == Append(m, e)
<1>1. /\ Len(longer) = Len(q) + 1 /\ longer[Len(q) + 1] = new
      /\ \A i \in 1 .. Len(q) : longer[i] = q[i]
  OBVIOUS
<1>2. /\ Len(more) = Len(m) + 1 /\ more[Len(m) + 1] = e
      /\ \A i \in 1 .. Len(m) : more[i] = m[i]
  OBVIOUS
<1>3. Len(q) \in Nat /\ Len(m) \in Nat
  OBVIOUS
<1> HIDE DEF longer, more
<1>4. ASSUME NEW i \in 1 .. Len(longer)
      PROVE  longer[i] = [version |-> Len(more) - Len(longer) + i,
                          edit |-> more[Len(more) - Len(longer) + i]]
  <2>1. CASE i = Len(q) + 1
    BY <1>1, <1>2, <1>3, <2>1
  <2>2. CASE i # Len(q) + 1
    <3>1. i \in 1 .. Len(q) /\ Len(m) - Len(q) + i \in 1 .. Len(m)
      BY <1>1, <1>3, <2>2 DEF EndsMade
    <3>2. Len(more) - Len(longer) + i = Len(m) - Len(q) + i
      BY <1>1, <1>2, <1>3, <3>1
    <3> QED
      BY <1>1, <1>2, <3>1, <3>2 DEF EndsMade
  <2> QED
    BY <2>1, <2>2
<1>5. Len(longer) <= Len(more)
  BY <1>1, <1>2, <1>3 DEF EndsMade
<1>6. EndsMade(longer, more)
  BY <1>4, <1>5 DEF EndsMade
<1> QED
  BY <1>6 DEF longer, more

\* dequeueCommand() takes the first command out of the queue and no other.
LEMMA FirstDequeued ==
    ASSUME NEW m \in Seq(Edits), NEW q \in Seq(Entries), EndsMade(q, m), q # <<>>,
           NEW v, v = q[1].version
    PROVE  /\ Without(q, {v}) = Tail(q)
           /\ EndsMade(Tail(q), m)
<1>1. Len(q) \in Nat \ {0} /\ Len(m) \in Nat
  OBVIOUS
<1>2. 1 \in 0 .. Len(q)
  BY <1>1
<1>3. \A i \in 1 .. 1 : q[i].version \in {v}
  OBVIOUS
<1>4. \A i \in 1 + 1 .. Len(q) : q[i].version \notin {v}
  <2> SUFFICES ASSUME NEW i \in 1 + 1 .. Len(q) PROVE q[i].version # v
    OBVIOUS
  <2>1. 1 \in 1 .. Len(q) /\ i \in 1 .. Len(q)
    BY <1>1
  <2>2. q[1].version = Len(m) - Len(q) + 1 /\ q[i].version = Len(m) - Len(q) + i
    BY <2>1, EntryOf
  <2> QED
    BY <1>1, <2>2
<1>5. Without(q, {v}) = SubSeq(q, 2, Len(q))
  BY <1>2, <1>3, <1>4, WithoutFirst
<1>6. Tail(q) = SubSeq(q, 2, Len(q))
  OBVIOUS
<1> DEFINE rest == Tail(q)
<1>7. Len(rest) = Len(q) - 1 /\ \A i \in 1 .. Len(q) - 1 : rest[i] = q[i + 1]
  OBVIOUS
<1> HIDE DEF rest
<1>8. ASSUME NEW i \in 1 .. Len(rest)
      PROVE  rest[i] = [version |-> Len(m) - Len(rest) + i, edit |-> m[Len(m) - Len(rest) + i]]
  <2>1. i + 1 \in 1 .. Len(q) /\ Len(m) - Len(q) + (i + 1) = Len(m) - Len(rest) + i
    BY <1>1, <1>7
  <2>2. rest[i] = q[i + 1]
    BY <1>1, <1>7
  <2> QED
    BY <2>1, <2>2 DEF EndsMade
<1>9. EndsMade(rest, m)
  BY <1>1, <1>7, <1>8 DEF EndsMade
<1> QED
  BY <1>5, <1>6, <1>9 DEF rest

\* A stored snapshot that shows the edits which have left the queue dequeues nothing.
LEMMA NoneDequeued ==
    ASSUME NEW m \in Seq(Edits), NEW q \in Seq(Entries), EndsMade(q, m)
    PROVE  Without(q, 0 .. Len(m) - Len(q)) = q
<1>1. Len(q) \in Nat /\ Len(m) \in Nat /\ 0 \in 0 .. Len(q)
  OBVIOUS
<1>2. \A i \in 1 .. 0 : q[i].version \in 0 .. Len(m) - Len(q)
  OBVIOUS
<1>3. \A i \in 0 + 1 .. Len(q) : q[i].version \notin 0 .. Len(m) - Len(q)
  <2> SUFFICES ASSUME NEW i \in 0 + 1 .. Len(q)
               PROVE  q[i].version \notin 0 .. Len(m) - Len(q)
    OBVIOUS
  <2>1. i \in 1 .. Len(q) /\ q[i].version = Len(m) - Len(q) + i
    <3>1. i \in 1 .. Len(q)
      BY <1>1
    <3> QED
      BY <3>1, EntryOf
  <2> QED
    BY <1>1, <2>1
<1>4. Without(q, 0 .. Len(m) - Len(q)) = SubSeq(q, 1, Len(q))
  BY <1>1, <1>2, <1>3, WithoutFirst
<1> QED
  BY <1>4

\* The queue of the shape a step leaves it in: the setters of React may lag behind.
LEMMA SetRevisionAndQueueShape ==
    ASSUME Typed, QueueShape, UNCHANGED <<made, localVersion>>, NEW n,
           NEW q \in Seq(Entries), EndsMade(q, made), Len(q) <= Len(queue),
           SetRevisionAndQueue(n, q)
    PROVE  /\ QueueShape' /\ queue' = q
           /\ queueRef' = <<>> => queue' = <<>>
<1>1. /\ queue' = q /\ rendering' = TRUE
      /\ queueRef' = queueRef \/ queueRef' = q
  BY DEF SetRevisionAndQueue
<1>2. Len(q) \in Nat /\ Len(queue) \in Nat /\ Len(queueRef) \in Nat
  BY DEF Typed, RefsTyped
<1>3. QueueShape'
  BY <1>1, <1>2 DEF QueueShape
<1>4. queueRef' = <<>> => queue' = <<>>
  <2> SUFFICES ASSUME queueRef' = <<>> PROVE q = <<>>
    BY <1>1
  <2>1. Len(q) = 0
    BY <1>1, <1>2 DEF QueueShape
  <2> QED
    BY <2>1
<1> QED
  BY <1>1, <1>3, <1>4

\* A step that sends no restore keeps NothingRestores.
LEMMA NothingRestoresKept ==
    ASSUME NothingRestores, stray' = stray,
           NEW o \in Owners, call' = [call EXCEPT ![o] = NoCall] \/
             \E op \in {"command", "put", "get"} : \E content, expected :
               call' = [call EXCEPT ![o] = Request(op, content, expected)],
           Typed
    PROVE  NothingRestores'
BY DEF NothingRestores, NoCall, Request, Typed, CallsTyped

\* A flush starts with all the queue.
LEMMA FlushLined ==
    ASSUME Typed, Lined, UNCHANGED <<made, localVersion, stray>>, ~rendering, queueRef # <<>>,
           NEW after, NEW wants, Flush(queueRef, after, wants)
    PROVE  Lined'
<1>1. queueRef = queue /\ UNCHANGED <<queue, queueRef>> /\ rendering' = TRUE
  BY DEF Flush, SetRevision, Lined, QueueShape
<1>2. task'.kind = "flush" /\ task'.items = queue /\ status' = "saving"
  BY <1>1 DEF Flush, SetStatus, NoTask
<1>3. Len(queue) \in Nat
  BY DEF Typed, RefsTyped
<1>4. QueueShape' /\ TaskShape' /\ BadgeShape'
  BY <1>1, <1>2, <1>3 DEF Lined, QueueShape, TaskShape, BadgeShape, Busy
<1>5. NothingRestores'
  BY NothingRestoresKept DEF Flush, Lined, Owners
<1> QED
  BY <1>4, <1>5 DEF Lined

\* Nothing waits when the whole snapshot is sent.
LEMMA PutLined ==
    ASSUME Typed, Lined, UNCHANGED <<made, localVersion, stray>>, QueueShape', queue' = <<>>, Put
    PROVE  Lined'
<1>1. task'.kind = "put" /\ task'.version = localVersion /\ status' = "saving"
  BY DEF Put, NoTask
<1>2. Left' = Len(made)
  BY DEF Left, Typed, CanvasTyped
<1>3. TaskShape' /\ BadgeShape'
  BY <1>1, <1>2 DEF Lined, QueueShape, TaskShape, BadgeShape, Busy
<1>4. NothingRestores'
  BY NothingRestoresKept DEF Put, Lined, Owners
<1> QED
  BY <1>3, <1>4 DEF Lined

\* Steps that leave the queue, the task and the badge alone.
LEMMA LinedElsewhere ==
    ASSUME Typed, Lined, NothingRestores',
           UNCHANGED <<made, localVersion, queue, queueRef, task, status, timer>>,
           rendering' = rendering \/ rendering'
    PROVE  Lined'
BY DEF Lined, QueueShape, TaskShape, BadgeShape, Left, Busy

\* The network leaves the queue alone.
LEMMA NetworkLined ==
    ASSUME Typed, Lined, NetworkStep, UNCHANGED session PROVE Lined'
<1>1. UNCHANGED <<made, localVersion, queue, queueRef, task, status, timer, rendering>>
  BY DEF NetworkStep, Handle, Respond, Lose, HandleStray, PeerCommits, canvas, refs, badge
<1>2. NothingRestores'
  <2>1. ASSUME NEW o \in Owners, Handle(o) \/ Respond(o) \/ Lose(o)
        PROVE  /\ \A p \in Owners : call'[p].op = call[p].op
               /\ stray' \subseteq stray \cup {call[o]}
    BY <2>1 DEF Handle, Respond, Lose, Typed, CallsTyped, CallTyped, Calls, server
  <2>2. ASSUME NEW c \in stray, HandleStray(c) PROVE call' = call /\ stray' \subseteq stray
    BY <2>2 DEF HandleStray
  <2>3. ASSUME NEW p, PeerCommits(p) PROVE call' = call /\ stray' = stray
    BY <2>3 DEF PeerCommits
  <2> QED
    BY <2>1, <2>2, <2>3 DEF NetworkStep, Lined, NothingRestores
<1> QED
  BY <1>1, <1>2, LinedElsewhere

\* What the user does keeps the queue in shape.
LEMMA UserLined ==
    ASSUME Typed, NoRestore, Lined, UserStep, UNCHANGED session PROVE Lined'
<1>1. ASSUME NEW e \in session.edits, Edit(e) PROVE Lined'
  <2>1. e \in Edits /\ made \in Seq(Edits) /\ queue \in Seq(Entries)
    BY <1>1, SessionsAssumption DEF Typed, ServerTyped, CanvasTyped, RefsTyped
  <2>2. /\ made' = Append(made, e) /\ localVersion' = Len(made) + 1
        /\ queue' = Append(queue, [version |-> Len(made) + 1, edit |-> e])
        /\ queueRef' = queue' /\ timer' /\ status' = "dirty" /\ UNCHANGED <<call, stray, task>>
    BY <1>1 DEF Edit, SetStatus, Lined, QueueShape, server
  <2>3. EndsMade(queue', made')
    BY <2>1, <2>2, EndsWithNew DEF Lined, QueueShape
  <2>4. \A i, j \in DOMAIN made' : made'[i] = made'[j] => i = j
    BY <1>1, <2>1, <2>2 DEF Edit, Edited, Lined, QueueShape
  <2>5. /\ Len(made') = Len(made) + 1 /\ Len(queue') = Len(queue) + 1
        /\ \A i \in 1 .. Len(queue) : queue'[i] = queue[i]
        /\ Len(queue) \in Nat /\ Len(made) \in Nat
    BY <2>1, <2>2
  <2>6. QueueShape'
    BY <2>2, <2>3, <2>4, <2>5 DEF QueueShape
  <2>7. TaskShape'
    <3>1. ASSUME task.kind = "flush"
          PROVE  /\ Len(task.items) <= Len(queue')
                 /\ \A i \in 1 .. Len(task.items) : task.items[i] = queue'[i]
      <4>1. Len(task.items) \in Nat
        BY DEF Typed, TaskTyped, Tasks
      <4> QED
        BY <2>5, <3>1, <4>1 DEF Lined, TaskShape
    <3> QED
      BY <2>2, <2>5, <3>1 DEF Lined, TaskShape, Left
  <2>8. BadgeShape' /\ NothingRestores'
    BY <2>2 DEF Lined, BadgeShape, NothingRestores
  <2> QED
    BY <2>6, <2>7, <2>8 DEF Lined
<1>2. ASSUME NEW e \in session.direct, DirectWrite(e) PROVE Lined'
  <2>1. UNCHANGED <<made, localVersion, stray, timer>> /\ ~rendering
    BY <1>2 DEF DirectWrite, server, canvas
  <2>2. CASE queueRef # <<>> /\ Flush(queueRef, "write", {e})
    BY <2>1, <2>2, FlushLined
  <2>3. CASE /\ queueRef = <<>> /\ UNCHANGED <<queue, queueRef, task>>
             /\ call' = [call EXCEPT !["write"] = Request("command", {e}, revisionRef)]
             /\ rendering' \in {TRUE, rendering} /\ status' \in {"saved", status}
    <3>1. queue = <<>>
      BY <2>1, <2>3 DEF Lined, QueueShape
    <3>2. NothingRestores'
      BY <2>1, <2>3, NothingRestoresKept DEF Lined, Owners
    <3>3. QueueShape' /\ TaskShape' /\ BadgeShape'
      BY <2>1, <2>3, <3>1 DEF Lined, QueueShape, TaskShape, BadgeShape, Left, Busy
    <3> QED
      BY <3>2, <3>3 DEF Lined
  <2> QED
    BY <1>2, <2>2, <2>3 DEF DirectWrite, SetRevision, SetStatus, refs, badge
<1>3. CASE Save
  <2>1. UNCHANGED <<made, localVersion, stray>> /\ ~rendering
    BY <1>3 DEF Save, server, canvas
  <2>2. CASE queueRef # <<>> /\ Flush(queueRef, "put", {})
    BY <2>1, <2>2, FlushLined
  <2>3. CASE queueRef = <<>> /\ Put /\ SetRevision(revision)
    <3>1. queue' = <<>> /\ QueueShape'
      BY <2>1, <2>3 DEF SetRevision, Lined, QueueShape
    <3> QED
      BY <2>1, <2>3, <3>1, PutLined
  <2> QED
    BY <1>3, <2>2, <2>3 DEF Save
<1>4. CASE Restore
  BY <1>4 DEF Restore, NoRestore
<1> QED
  BY <1>1, <1>2, <1>3, <1>4 DEF UserStep

\* What a flush dequeues is the first command of the queue, its own first one.
LEMMA SentIsFirst ==
    ASSUME Typed, Lined, task.kind = "flush"
    PROVE  /\ queue # <<>> /\ Sent = queue[1] /\ task.items[1] = queue[1]
           /\ Dequeued = Tail(queue) /\ EndsMade(Tail(queue), made)
           /\ Tail(queue) \in Seq(Entries) /\ Len(Tail(queue)) = Len(queue) - 1
           /\ Len(queue) \in Nat \ {0} /\ Len(queue) <= Len(made)
<1>1. task.items \in Seq(Entries) /\ task.items # <<>>
  BY DEF Typed, TaskTyped, Tasks
<1>2. Len(task.items) \in Nat /\ Len(task.items) >= 1 /\ Head(task.items) = task.items[1]
  BY <1>1
<1>3. Len(task.items) <= Len(queue) /\ task.items[1] = queue[1]
  BY <1>2 DEF Lined, TaskShape
<1>4. queue \in Seq(Entries) /\ made \in Seq(Edits)
  BY DEF Typed, RefsTyped, CanvasTyped
<1>5. queue # <<>> /\ Len(queue) \in Nat \ {0}
  BY <1>2, <1>3, <1>4
<1>6. Sent = queue[1]
  BY <1>2, <1>3 DEF Sent
<1>7. EndsMade(queue, made)
  BY DEF Lined, QueueShape
<1>8. Dequeued = Tail(queue) /\ EndsMade(Tail(queue), made)
  BY <1>4, <1>5, <1>6, <1>7, FirstDequeued DEF Dequeued
<1>9. Tail(queue) \in Seq(Entries) /\ Len(Tail(queue)) = Len(queue) - 1
  BY <1>4, <1>5
<1> QED
  BY <1>3, <1>5, <1>6, <1>7, <1>8, <1>9 DEF EndsMade

\* A flush that fails in a tab without restores leaves a queue, and its caller gives up.
LEMMA FailureEnds ==
    ASSUME Typed, Lined, FlushFails
    PROVE  EndTask /\ SetStatus("error")
<1>1. task.kind = "flush" /\ queueRef' = queueRef
  BY DEF FlushFails, Answered, SetRevision
<1>2. Len(queue) \in Nat \ {0} /\ Len(queue) <= Len(queueRef) /\ queueRef \in Seq(Entries)
  BY <1>1, SentIsFirst DEF Lined, QueueShape, Typed, RefsTyped
<1>3. queueRef # <<>>
  BY <1>2
<1> QED
  BY <1>1, <1>3 DEF FlushFails, EndFlush

\* A stored snapshot takes nothing out of the queue: what it shows had left it.
LEMMA PutDequeuesNone ==
    ASSUME Typed, Lined, task.kind = "put"
    PROVE  Without(queue, 0 .. task.version) = queue
<1>1. queue \in Seq(Entries) /\ made \in Seq(Edits)
  BY DEF Typed, RefsTyped, CanvasTyped
<1>2. task.version = Len(made) - Len(queue) /\ EndsMade(queue, made)
  BY DEF Lined, TaskShape, QueueShape, Left
<1> QED
  BY <1>1, <1>2, NoneDequeued

\* The answers to the save in flight keep the queue in shape.
LEMMA TaskStepLined ==
    ASSUME Typed, Lined, TaskStep, UNCHANGED session PROVE Lined'
<1>1. UNCHANGED <<made, localVersion, stray>>
  BY DEF TaskStep, FlushContinues, FlushCompletes, FlushRetries, FlushFails, PutSucceeds, PutFails,
         server, canvas
<1>2. CASE FlushContinues
  <2>1. task.kind = "flush" /\ Len(task.items) > 1
    BY <1>2 DEF FlushContinues, Answered
  <2>2. /\ Dequeued = Tail(queue) /\ EndsMade(Tail(queue), made)
        /\ Tail(queue) \in Seq(Entries) /\ Len(Tail(queue)) = Len(queue) - 1
        /\ Len(queue) \in Nat \ {0} /\ queue \in Seq(Entries)
    BY <2>1, SentIsFirst DEF Typed, RefsTyped
  <2>3. QueueShape' /\ queue' = Tail(queue)
    <3>1. SetRevisionAndQueue(call["task"].revision, Tail(queue))
      BY <1>2, <2>2 DEF FlushContinues
    <3>2. Len(Tail(queue)) <= Len(queue)
      BY <2>2
    <3> QED
      BY <1>1, <2>2, <3>1, <3>2, SetRevisionAndQueueShape DEF Lined
  <2>4. task' = [task EXCEPT !.items = Tail(@), !.retried = FALSE]
    BY <1>2 DEF FlushContinues
  <2>5. task'.kind = "flush" /\ task'.items = Tail(task.items)
    BY <2>1, <2>4 DEF Typed, TaskTyped, Tasks
  <2>6. /\ Len(Tail(task.items)) = Len(task.items) - 1
        /\ \A i \in 1 .. Len(task.items) - 1 : Tail(task.items)[i] = task.items[i + 1]
        /\ Len(task.items) \in Nat
    BY <2>1, TailTyped DEF Typed, TaskTyped, Tasks
  <2>7. \A i \in 1 .. Len(queue) - 1 : Tail(queue)[i] = queue[i + 1]
    BY <2>2
  <2>8. TaskShape'
    BY <2>1, <2>2, <2>3, <2>5, <2>6, <2>7 DEF Lined, TaskShape
  <2>9. BadgeShape'
    BY <1>2, <2>1, <2>3, <2>5 DEF FlushContinues, Lined, BadgeShape, Busy, badge
  <2>10. NothingRestores'
    BY <1>1, <1>2, NothingRestoresKept DEF FlushContinues, Lined, Owners
  <2> QED
    BY <2>3, <2>8, <2>9, <2>10 DEF Lined
<1>3. CASE FlushCompletes
  <2>1. task.kind = "flush"
    BY <1>3 DEF FlushCompletes, Answered
  <2>2. /\ Dequeued = Tail(queue) /\ EndsMade(Tail(queue), made)
        /\ Tail(queue) \in Seq(Entries) /\ Len(Tail(queue)) = Len(queue) - 1
        /\ Len(queue) \in Nat \ {0}
    BY <2>1, SentIsFirst
  <2>3. /\ QueueShape' /\ queue' = Tail(queue)
        /\ queueRef' = <<>> => queue' = <<>>
    <3>1. SetRevisionAndQueue(call["task"].revision, Tail(queue))
      BY <1>3, <2>2 DEF FlushCompletes
    <3>2. Len(Tail(queue)) <= Len(queue)
      BY <2>2
    <3> QED
      BY <1>1, <2>2, <3>1, <3>2, SetRevisionAndQueueShape DEF Lined
  <2>4. CASE queueRef' = <<>> /\ Put
    BY <1>1, <2>3, <2>4, PutLined
  <2>5. CASE /\ task' = NoTask
             /\ (status' = "dirty" /\ timer') \/ (status' = "saved" /\ queueRef' = <<>>)
             /\ NothingRestores'
    <3>1. TaskShape' /\ BadgeShape'
      BY <2>3, <2>5 DEF TaskShape, BadgeShape, NoTask
    <3> QED
      BY <2>3, <2>5, <3>1 DEF Lined
  <2>6. EndTask => task' = NoTask /\ NothingRestores'
    BY <1>1, NothingRestoresKept DEF EndTask, Lined, Owners
  <2>7. call' = [call EXCEPT !["task"] = NoCall,
                             !["write"] = Request("command", task.wants, revisionRef)]
          => NothingRestores'
    BY <1>1 DEF NothingRestores, NoCall, Request, Lined, Typed, CallsTyped
  <2>8. \/ Put /\ queueRef' = <<>>
        \/ EndTask /\ SetStatus("dirty") /\ timer'
        \/ EndTask /\ SetStatus("saved") /\ queueRef' = <<>>
        \/ /\ SetStatus("saved") /\ queueRef' = <<>> /\ task' = NoTask
           /\ call' = [call EXCEPT !["task"] = NoCall,
                                   !["write"] = Request("command", task.wants, revisionRef)]
    BY <1>3 DEF FlushCompletes, EndFlush
  <2> QED
    BY <2>4, <2>5, <2>6, <2>7, <2>8 DEF SetStatus
<1>4. CASE FlushRetries
  <2>1. UNCHANGED <<queue, queueRef, status, timer>> /\ rendering' = TRUE
    BY <1>4 DEF FlushRetries, SetRevision, badge
  <2>2. task'.kind = task.kind /\ task'.items = task.items /\ task.kind = "flush"
    BY <1>4 DEF FlushRetries, Answered, Typed, TaskTyped, Tasks
  <2>3. NothingRestores'
    BY <1>1, <1>4, NothingRestoresKept DEF FlushRetries, Lined, Owners
  <2> QED
    BY <1>1, <2>1, <2>2, <2>3 DEF Lined, QueueShape, TaskShape, BadgeShape, Busy
<1>5. CASE FlushFails \/ PutFails
  <2>1. UNCHANGED <<queue, queueRef>> /\ rendering' = TRUE /\ status' = "error" /\ EndTask
    BY <1>5, FailureEnds DEF FlushFails, PutFails, SetRevision, SetStatus
  <2>2. NothingRestores'
    BY <1>1, <2>1, NothingRestoresKept DEF EndTask, Lined, Owners
  <2> QED
    BY <1>1, <2>1, <2>2 DEF EndTask, NoTask, Lined, QueueShape, TaskShape, BadgeShape
<1>6. CASE PutSucceeds
  <2>1. task.kind = "put" /\ queue \in Seq(Entries)
    BY <1>6 DEF PutSucceeds, Answered, Typed, RefsTyped
  <2>2. Without(queue, 0 .. task.version) = queue
    BY <2>1, PutDequeuesNone
  <2>3. QueueShape' /\ queue' = queue /\ (queueRef' = <<>> => queue' = <<>>)
    BY <1>1, <1>6, <2>1, <2>2, SetRevisionAndQueueShape DEF PutSucceeds, Lined, QueueShape
  <2>4. NothingRestores'
    BY <1>1, <1>6, NothingRestoresKept DEF PutSucceeds, EndTask, Lined, Owners
  <2>5. TaskShape' /\ BadgeShape'
    BY <1>6, <2>3 DEF PutSucceeds, EndTask, NoTask, SetStatus, TaskShape, BadgeShape
  <2> QED
    BY <2>3, <2>4, <2>5 DEF Lined
<1> QED
  BY <1>2, <1>3, <1>4, <1>5, <1>6 DEF TaskStep

\* The answers to direct writes leave the queue alone.
LEMMA WriteStepLined ==
    ASSUME Typed, Lined, WriteStep, UNCHANGED session PROVE Lined'
<1>1. ~RestoreSucceeds /\ ~RestoreFails
  BY DEF RestoreSucceeds, RestoreFails, Lined, NothingRestores, Owners
<1>2. /\ UNCHANGED <<made, localVersion, stray, queue, queueRef, task, status, timer>>
      /\ rendering' = TRUE /\ call' = [call EXCEPT !["write"] = NoCall]
  BY <1>1 DEF WriteStep, DirectSucceeds, DirectFails, SetRevision, server, canvas, badge
<1>3. NothingRestores'
  BY <1>2, NothingRestoresKept DEF Lined, Owners
<1> QED
  BY <1>2, <1>3, LinedElsewhere

\* The first refresh clears the queue only when nothing waits.
LEMMA QueryStepLined ==
    ASSUME Typed, Lined, QueryStep, UNCHANGED session PROVE Lined'
<1>1. /\ UNCHANGED <<made, localVersion, stray, task, timer>>
      /\ call' = [call EXCEPT !["query"] = NoCall]
  BY DEF QueryStep, RefreshArrives, RefreshFails, server, canvas
<1>2. NothingRestores'
  BY <1>1, NothingRestoresKept DEF Lined, Owners
<1>3. CASE RefreshArrives /\ ~(queueRef # <<>> \/ localVersion > 0)
  <2>1. /\ queue' = <<>> /\ queueRef' = <<>> /\ rendering' = TRUE /\ status' = "saved"
        /\ queueRef = <<>>
    BY <1>3 DEF RefreshArrives, SetStatus
  <2>2. queue = <<>>
    <3>1. Len(queue) \in Nat /\ Len(queueRef) = 0 /\ queue \in Seq(Entries)
      BY <2>1 DEF Typed, RefsTyped
    <3> QED
      BY <3>1 DEF Lined, QueueShape
  <2>3. QueueShape' /\ TaskShape' /\ BadgeShape'
    BY <1>1, <2>1, <2>2 DEF Lined, QueueShape, TaskShape, BadgeShape, Left
  <2> QED
    BY <1>2, <2>3 DEF Lined
<1>4. CASE UNCHANGED <<queue, queueRef, status>> /\ (rendering' = rendering \/ rendering')
  BY <1>1, <1>2, <1>4, LinedElsewhere
<1> QED
  BY <1>3, <1>4 DEF QueryStep, RefreshArrives, RefreshFails, SetRevision, refs, badge

\* Without a restore, the queue keeps its shape in every reachable state.
LEMMA LinedHolds == Spec => [](NoRestore => Lined)
<1>1. Init => Lined
  <2> SUFFICES ASSUME Init PROVE Lined
    OBVIOUS
  <2>1. made = <<>> /\ queue = <<>> /\ queueRef = <<>> /\ localVersion = 0 /\ rendering = FALSE
    BY DEF Init
  <2>2. EndsMade(queue, made) /\ EndsMade(queueRef, made)
    BY <2>1 DEF EndsMade
  <2>3. QueueShape
    BY <2>1, <2>2 DEF QueueShape
  <2>4. TaskShape /\ BadgeShape /\ NothingRestores
    BY DEF Init, TaskShape, BadgeShape, NothingRestores, NoTask, NoCall, Request
  <2> QED
    BY <2>3, <2>4 DEF Lined
<1>2. Typed /\ (NoRestore => Lined) /\ [Next]_vars => (NoRestore => Lined)'
  <2> SUFFICES ASSUME Typed, NoRestore, Lined, [Next]_vars PROVE Lined'
    BY DEF Next, vars, NoRestore
  <2>1. CASE Render
    <3>1. /\ UNCHANGED <<made, localVersion, stray, call, queue, task, status, timer>>
          /\ queueRef' = queue
      BY <2>1 DEF Render, server, canvas, badge
    <3>2. Len(queue) \in Nat
      BY DEF Typed, RefsTyped
    <3> QED
      BY <3>1, <3>2 DEF Lined, QueueShape, TaskShape, BadgeShape, NothingRestores, Left, Busy
  <2>2. CASE AutosaveFires
    <3>1. UNCHANGED <<made, localVersion, stray>> /\ ~rendering
      BY <2>2 DEF AutosaveFires, server, canvas
    <3>2. CASE queueRef # <<>> /\ Flush(queueRef, "nothing", {})
      BY <3>1, <3>2, FlushLined
    <3>3. CASE (Busy \/ queueRef = <<>>) /\ UNCHANGED <<call, refs, badge, task>>
      BY <3>1, <3>3
         DEF refs, badge, Lined, QueueShape, TaskShape, BadgeShape, NothingRestores, Left, Busy
    <3> QED
      BY <2>2, <3>2, <3>3 DEF AutosaveFires
  <2>3. CASE UNCHANGED vars
    BY <2>3 DEF vars, server, canvas, refs, badge, Lined, QueueShape, TaskShape, BadgeShape,
                NothingRestores, Left, Busy
  <2> QED
    BY <2>1, <2>2, <2>3, NetworkLined, UserLined, TaskStepLined, WriteStepLined, QueryStepLined
       DEF Next
<1> QED
  BY <1>1, <1>2, TypesHold, PTL DEF Spec

\* QueueIsScheduled: createDebouncedTask(), the save in flight and the error badge
\* never all forget a command that waits.
THEOREM QueueAlwaysScheduled == Spec => []QueueIsScheduled
<1>1. (NoRestore => Lined) => QueueIsScheduled
  BY DEF Lined, BadgeShape, QueueIsScheduled
<1> QED
  BY <1>1, LinedHolds, PTL

-----------------------------------------------------------------------------
(* What is stored. *)

\* The row changes under a new revision and keeps what the user of the tab did.
RowGrows ==
    /\ row' = row \/ row'.revision > row.revision
    /\ row.content \ Peers \subseteq row'.content

\* Nobody else makes the edits of this tab.
LEMMA MadeApart ==
    ASSUME Typed
    PROVE  /\ \A i \in DOMAIN made : made[i] \in Edits
           /\ \A i \in DOMAIN made : made[i] \notin Peers \cup session.direct
           /\ Edited(made) \subseteq Edits
           /\ session.direct \subseteq DirectEdits
           /\ session.peers \subseteq Peers
           /\ DOMAIN made = 1 .. Len(made) /\ Len(made) \in Nat
BY EditsAssumption, SessionsAssumption DEF Typed, ServerTyped, CanvasTyped, Edited

\* What fits still fits when the row grows.
LEMMA FitsStays ==
    ASSUME Typed, Typed', RowGrows, UNCHANGED <<session, made>>, NEW c \in Calls, Fits(c)
    PROVE  Fits(c)'
<1>1. UserMade' = UserMade /\ \A content : InOrder(content)' <=> InOrder(content)
  BY DEF UserMade, InOrder
<1>2. row.revision \in Nat /\ row'.revision \in Nat
  BY DEF Typed, ServerTyped
<1>3. c.op = "put" /\ c.phase = "sent" => PutFits(c)'
  BY <1>1, <1>2 DEF Fits, PutFits, InOrder, RowGrows
<1>4. c.op = "command" /\ c.phase = "sent" => CommandFits(c)'
  BY MadeApart DEF Fits, CommandFits, RowGrows
<1>5. c.phase = "ok" => c.content \ Peers \subseteq row'.content
  BY DEF Fits, RowGrows
<1> QED
  BY <1>1, <1>3, <1>4, <1>5 DEF Fits

\* So does a call that stays as it is.
LEMMA CallStays ==
    ASSUME Typed, Typed', RowGrows, UNCHANGED <<session, made>>,
           NEW o \in Owners, call'[o] = call[o], Fits(call[o])
    PROVE  Fits(call[o])'
<1>1. PICK c \in Calls : c = call[o]
  BY DEF Typed, CallsTyped, CallTyped
<1>2. Fits(c)'
  BY <1>1, FitsStays
<1> QED
  BY <1>1, <1>2 DEF Fits, PutFits, CommandFits

\* One call changes while the row grows.
LEMMA CallsStay ==
    ASSUME Typed, Typed', RowGrows, UNCHANGED <<session, made>>, CallsFit, NEW o \in Owners,
           \A p \in Owners \ {o} : call'[p] = call[p], Fits(call[o])',
           stray' \subseteq stray \cup {call[o]},
           stray' \subseteq stray \/ call[o].phase = "sent"
    PROVE  CallsFit'
<1>1. \A p \in Owners : Fits(call[p])'
  BY CallStays DEF CallsFit
<1>2. ASSUME NEW c \in stray' PROVE c.phase = "sent" /\ Fits(c)'
  <2>1. c \in Calls /\ c.phase = "sent" /\ Fits(c)
    BY <1>2 DEF CallsFit, Typed, ServerTyped, CallsTyped, CallTyped
  <2> QED
    BY <2>1, FitsStays
<1> QED
  BY <1>1, <1>2 DEF CallsFit

\* The server stores only what fits.
LEMMA ApplyGrows ==
    ASSUME Typed, NoRestore, RowFits, UNCHANGED <<session, made, queue>>,
           NEW c \in Calls, Fits(c), c.phase = "sent", c.op # "restore", Apply(c)
    PROVE  RowGrows /\ RowFits'
<1>1. CASE Verdict(c) # "committed"
  <2>1. row' = row
    BY <1>1 DEF Apply
  <2> QED
    BY <2>1 DEF RowGrows, RowFits, InOrder, UserMade, Left
<1>2. CASE Verdict(c) = "committed"
  <2>1. row' = [revision |-> row.revision + 1, content |-> Stored(c)]
    BY <1>2 DEF Apply
  <2>2. row'.revision = row.revision + 1 /\ row'.content = Stored(c) /\ row.revision \in Nat
    BY <2>1 DEF Typed, ServerTyped
  <2>3. c.op # "get" /\ ~Stale(c)
    BY <1>2 DEF Verdict
  <2>4. c.op \in {"command", "put"}
    BY <2>3 DEF Fits, Calls
  <2>5. row.content \ Peers \subseteq Stored(c)
    <3>1. CASE c.op = "command"
      BY <3>1 DEF Stored
    <3>2. CASE c.op = "put"
      <4>1. c.expected = row.revision
        BY <2>3, <3>2, NoneAssumption DEF Stale, Fits, PutFits
      <4> QED
        BY <3>2, <4>1 DEF Stored, Fits, PutFits
    <3> QED
      BY <2>4, <3>1, <3>2
  <2>6. InOrder(Stored(c))
    <3>1. CASE c.op = "command"
      BY <3>1 DEF Stored, Fits, CommandFits, RowFits, InOrder
    <3>2. CASE c.op = "put"
      BY <3>2 DEF Stored, Fits, PutFits
    <3> QED
      BY <2>4, <3>1, <3>2
  <2>7. Stored(c) \ Peers \subseteq UserMade
    BY DEF Stored, Fits, RowFits
  <2>8. \A i \in 1 .. Left : made[i] \in Stored(c)
    BY <2>5, MadeApart DEF RowFits, Left, Typed, RefsTyped
  <2> QED
    BY <2>2, <2>5, <2>6, <2>7, <2>8 DEF RowGrows, RowFits, InOrder, UserMade, Left
<1> QED
  BY <1>1, <1>2

\* The canvas still fits when the row grows.
LEMMA CanvasStays ==
    ASSUME CanvasFits, RowGrows, UNCHANGED <<session, made, local, queue>>
    PROVE  CanvasFits'
BY DEF CanvasFits, RowGrows, UserMade, Queued

\* The head of a flush is an edit of this tab.
LEMMA HeadIsOwn ==
    ASSUME Typed, task.kind = "flush"
    PROVE  Head(task.items).edit \notin Peers
BY HeadTyped, EditsAssumption DEF Typed, TaskTyped, Tasks

\* The server, the network and other tabs keep what is stored.
LEMMA NetworkKept ==
    ASSUME Typed, Typed', NoRestore, Lined, Kept, NetworkStep, UNCHANGED session
    PROVE  Kept' /\ RowGrows
<1>1. UNCHANGED <<made, queue, local, task>>
  BY DEF NetworkStep, Handle, Respond, Lose, HandleStray, PeerCommits, canvas, refs
<1>2. ASSUME NEW o \in Owners, Handle(o) PROVE Kept' /\ RowGrows
  <2>1. call[o] \in Calls /\ Fits(call[o]) /\ call[o].op # "restore" /\ call[o].phase = "sent"
    BY <1>2 DEF Handle, Typed, CallsTyped, CallTyped, Kept, CallsFit, Lined, NothingRestores
  <2>2. RowGrows /\ RowFits'
    BY <1>1, <1>2, <2>1, ApplyGrows DEF Handle, Kept
  <2>3. /\ call'[o].content = row.content /\ call'[o].phase = Verdict(call[o])
        /\ call'[o].op = call[o].op
        /\ \A p \in Owners \ {o} : call'[p] = call[p]
    BY <1>2, <2>1 DEF Handle, Typed, CallsTyped, Calls
  <2>4. Verdict(call[o]) \in {"ok", "failed", "conflict", "committed"}
    BY DEF Verdict
  <2>5. Fits(call[o])'
    BY <1>1, <2>2, <2>3, <2>4 DEF Fits, RowGrows, Kept, RowFits, UserMade
  <2>6. CallsFit'
    BY <1>1, <1>2, <2>2, <2>3, <2>5, CallsStay DEF Handle, Kept
  <2>7. FlushFits'
    <3> SUFFICES ASSUME task.kind = "flush" PROVE FlushFits'
      BY <1>1 DEF FlushFits
    <3>1. Head(task.items).edit \notin Peers /\ call["task"].op = "command"
      BY HeadIsOwn DEF Typed, TaskTyped
    <3>2. CASE o = "task"
      <4>1. Head(task.items).edit \in call["task"].content
        BY <2>1, <3>2 DEF Kept, FlushFits
      <4>2. call'["task"].phase \in {"committed", "ok"} => Verdict(call["task"]) = "committed"
        BY <2>3, <3>1, <3>2 DEF Verdict
      <4>3. Verdict(call["task"]) = "committed" =>
              row'.content = row.content \cup call["task"].content
        BY <1>2, <3>1, <3>2 DEF Handle, Apply, Stored
      <4> QED
        BY <1>1, <2>3, <2>4, <3>2, <4>1, <4>2, <4>3 DEF FlushFits
    <3>3. CASE o # "task"
      <4>1. call'["task"] = call["task"]
        BY <2>3, <3>3 DEF Owners
      <4> QED
        BY <1>1, <2>2, <3>1, <4>1 DEF Kept, FlushFits, RowGrows
    <3> QED
      BY <3>2, <3>3
  <2>8. WritesFit'
    <3>1. session.direct = {} => o # "write"
      BY <2>1 DEF Kept, WritesFit, NoCall
    <3> QED
      BY <1>1, <2>3, <3>1 DEF Kept, WritesFit, Owners
  <2> QED
    BY <1>1, <2>2, <2>6, <2>7, <2>8, CanvasStays DEF Kept
<1>3. ASSUME NEW o \in Owners, Respond(o) PROVE Kept' /\ RowGrows
  <2>1. row' = row /\ stray' = stray /\ RowGrows
    BY <1>3 DEF Respond, server, RowGrows
  <2>2. /\ call'[o].content = row.content /\ call'[o].phase = "ok" /\ call[o].phase = "committed"
        /\ \A p \in Owners \ {o} : call'[p] = call[p]
    BY <1>3 DEF Respond, Typed, CallsTyped, CallTyped, Calls
  <2>3. Fits(call[o])'
    BY <1>1, <2>1, <2>2 DEF Fits, Kept, RowFits, UserMade
  <2>4. CallsFit'
    BY <1>1, <2>1, <2>2, <2>3, CallsStay DEF Kept
  <2>5. FlushFits'
    BY <1>1, <2>1, <2>2 DEF Kept, FlushFits, Owners
  <2>6. WritesFit'
    BY <1>1, <2>2 DEF Kept, WritesFit, NoCall, Owners
  <2>7. RowFits'
    BY <1>1, <2>1 DEF Kept, RowFits, InOrder, UserMade, Left
  <2> QED
    BY <1>1, <2>1, <2>4, <2>5, <2>6, <2>7, CanvasStays DEF Kept
<1>4. ASSUME NEW o \in Owners, Lose(o) PROVE Kept' /\ RowGrows
  <2>1. /\ row' = row /\ RowGrows /\ stray' \subseteq stray \cup {call[o]}
        /\ stray' \subseteq stray \/ call[o].phase = "sent"
    BY <1>4 DEF Lose, RowGrows
  <2>2. /\ call'[o].content = call[o].content /\ call'[o].phase = "failed" /\ call[o].phase # "idle"
        /\ \A p \in Owners \ {o} : call'[p] = call[p]
    BY <1>4 DEF Lose, Typed, CallsTyped, CallTyped, Calls
  <2>3. Fits(call[o])'
    BY <1>1, <2>1, <2>2 DEF Fits, Kept, CallsFit, UserMade
  <2>4. CallsFit'
    BY <1>1, <2>1, <2>2, <2>3, CallsStay DEF Kept
  <2>5. FlushFits'
    BY <1>1, <2>1, <2>2 DEF Kept, FlushFits, Owners
  <2>6. WritesFit'
    BY <1>1, <2>2 DEF Kept, WritesFit, NoCall, Owners
  <2>7. RowFits'
    BY <1>1, <2>1 DEF Kept, RowFits, InOrder, UserMade, Left
  <2> QED
    BY <1>1, <2>1, <2>4, <2>5, <2>6, <2>7, CanvasStays DEF Kept
<1>5. ASSUME call' = call, stray' \subseteq stray, RowGrows, RowFits' PROVE Kept' /\ RowGrows
  <2>1. CallsFit'
    <3>1. \A c \in Calls : Fits(c) => Fits(c)'
      BY <1>1, <1>5, FitsStays
    <3> QED
      BY <1>5, <3>1 DEF Kept, CallsFit, Typed, CallsTyped, CallTyped, ServerTyped
  <2>2. FlushFits'
    BY <1>1, <1>5, HeadIsOwn DEF Kept, FlushFits, RowGrows
  <2>3. WritesFit'
    BY <1>1, <1>5 DEF Kept, WritesFit
  <2> QED
    BY <1>1, <1>5, <2>1, <2>2, <2>3, CanvasStays DEF Kept
<1>6. ASSUME NEW c \in stray, HandleStray(c) PROVE RowGrows /\ RowFits'
  <2>1. c \in Calls /\ Fits(c) /\ c.op # "restore" /\ c.phase = "sent"
    BY DEF Typed, ServerTyped, Kept, CallsFit, Lined, NothingRestores
  <2> QED
    BY <1>1, <1>6, <2>1, ApplyGrows DEF HandleStray, Kept
<1>7. ASSUME NEW p \in session.peers, PeerCommits(p) PROVE RowGrows /\ RowFits'
  <2>1. p \in Peers /\ \A i \in DOMAIN made : made[i] # p
    BY <1>7, MadeApart
  <2>2. row'.revision = row.revision + 1 /\ row'.content = row.content \cup {p}
        /\ row.revision \in Nat
    BY <1>7 DEF PeerCommits, Typed, ServerTyped
  <2> QED
    BY <1>1, <2>1, <2>2, MadeApart DEF RowGrows, Kept, RowFits, InOrder, UserMade, Left
<1> QED
  BY <1>2, <1>3, <1>4, <1>5, <1>6, <1>7 DEF NetworkStep, HandleStray, PeerCommits

\* A step of the tab that sends one request, or hangs up.
LEMMA SendKept ==
    ASSUME Typed, Typed', UNCHANGED <<session, row, stray, made>>, CallsFit,
           NEW o \in Owners, NEW c, Fits(c), call' = [call EXCEPT ![o] = c]
    PROVE  CallsFit'
<1>1. call'[o] = c /\ \A p \in Owners \ {o} : call'[p] = call[p]
  BY DEF Typed, CallsTyped
<1>2. Fits(call[o])'
  BY <1>1 DEF Fits, PutFits, CommandFits, InOrder, UserMade
<1>3. RowGrows
  BY DEF RowGrows
<1> QED
  BY <1>1, <1>2, <1>3, CallsStay

\* An owner without a call asks for nothing.
LEMMA NoCallFits == Fits(NoCall)
BY DEF Fits, NoCall

\* The request for the k-th edit, all the earlier ones being stored.
LEMMA CommandOfEditFits ==
    ASSUME Typed, Lined, NEW k \in DOMAIN made, \A i \in 1 .. k - 1 : made[i] \in row.content,
           NEW n
    PROVE  Fits(Request("command", {made[k]}, n))
<1> DEFINE c == Request("command", {made[k]}, n)
<1>1. c.op = "command" /\ c.content = {made[k]} /\ c.phase = "sent"
  BY DEF Request
<1> HIDE DEF c
<1>2. CommandFits(c)
  <2> SUFFICES ASSUME NEW i \in DOMAIN made, NEW j \in DOMAIN made, i < j, made[j] \in c.content
               PROVE  made[i] \in row.content
    BY DEF CommandFits
  <2>1. j = k
    BY <1>1 DEF Lined, QueueShape
  <2> QED
    BY <2>1, MadeApart
<1>3. made[k] \in UserMade
  BY DEF UserMade, Edited
<1> QED
  BY <1>1, <1>2, <1>3 DEF Fits, c

\* The request of a direct write.
LEMMA DirectWriteFits ==
    ASSUME Typed, NEW wants \in SUBSET session.direct, NEW n
    PROVE  Fits(Request("command", wants, n))
<1> DEFINE c == Request("command", wants, n)
<1>1. c.op = "command" /\ c.content = wants /\ c.phase = "sent"
  BY DEF Request
<1> HIDE DEF c
<1>2. CommandFits(c)
  BY <1>1, MadeApart DEF CommandFits
<1> QED
  BY <1>1, <1>2 DEF Fits, UserMade, c

\* The first command of the queue is the first edit that has not left it.
LEMMA QueueStart ==
    ASSUME Typed, Lined, queue # <<>>
    PROVE  /\ Left + 1 \in DOMAIN made /\ Left \in Nat
           /\ queue[1].edit = made[Left + 1] /\ Head(queue) = queue[1]
<1>1. queue \in Seq(Entries) /\ made \in Seq(Edits)
  BY DEF Typed, RefsTyped, CanvasTyped
<1>2. Len(queue) \in Nat \ {0} /\ Len(made) \in Nat /\ Head(queue) = queue[1]
  BY <1>1
<1>3. EndsMade(queue, made) /\ 1 \in 1 .. Len(queue)
  BY <1>2 DEF Lined, QueueShape
<1>4. Len(queue) <= Len(made)
  BY <1>3 DEF EndsMade
<1>5. queue[1].edit = made[Len(made) - Len(queue) + 1]
  BY <1>3, EntryOf
<1>6. DOMAIN made = 1 .. Len(made)
  BY <1>1
<1> QED
  BY <1>2, <1>4, <1>5, <1>6 DEF Left

\* A flush starts with a command all of whose predecessors are stored.
LEMMA FlushKept ==
    ASSUME Typed, Typed', Lined, Kept, UNCHANGED <<session, row, stray, made, local>>,
           ~rendering, queueRef # <<>>, NEW after, NEW wants \in SUBSET session.direct,
           after = "put" => session.direct = {}, after = "write" => session.direct # {},
           Flush(queueRef, after, wants)
    PROVE  Kept'
<1>1. queueRef = queue /\ queue # <<>> /\ queue' = queue
  BY DEF Flush, SetRevision, Lined, QueueShape
<1>2. /\ task'.kind = "flush" /\ task'.items = queue
      /\ task'.after = after /\ task'.wants = wants
  BY <1>1 DEF Flush, NoTask
<1>3. /\ Left + 1 \in DOMAIN made /\ Left \in Nat
      /\ queue[1].edit = made[Left + 1] /\ Head(queue) = queue[1]
  BY <1>1, QueueStart
<1>4. call' = [call EXCEPT !["task"] = Request("command", {made[Left + 1]}, revisionRef)]
  BY <1>1, <1>3 DEF Flush
<1>5. CallsFit'
  <2>1. \A i \in 1 .. (Left + 1) - 1 : made[i] \in row.content
    BY <1>3 DEF Kept, RowFits
  <2>2. Fits(Request("command", {made[Left + 1]}, revisionRef))
    BY <1>3, <2>1, CommandOfEditFits
  <2> QED
    BY <1>4, <2>2, SendKept DEF Kept, Owners
<1>6. /\ call'["task"].content = {made[Left + 1]} /\ call'["task"].phase = "sent"
      /\ call'["write"] = call["write"]
  BY <1>4 DEF Request, Typed, CallsTyped, Owners
<1>7. FlushFits'
  BY <1>2, <1>3, <1>6 DEF FlushFits
<1>8. WritesFit'
  BY <1>2, <1>6 DEF Kept, WritesFit
<1>9. RowFits' /\ CanvasFits'
  BY <1>1 DEF Kept, RowFits, CanvasFits, InOrder, UserMade, Left, Queued
<1> QED
  BY <1>5, <1>7, <1>8, <1>9 DEF Kept

\* The canvas that is sent shows all the user did.
LEMMA PutKept ==
    ASSUME Typed, Typed', Lined, Kept, UNCHANGED <<session, row, stray, made, local>>,
           session.direct = {}, RowFits', Put
    PROVE  Kept'
<1> DEFINE c == Request("put", local, revisionRef)
<1>1. /\ c.op = "put" /\ c.content = local /\ c.phase = "sent" /\ c.expected = revisionRef
  BY DEF Request
<1>2. call' = [call EXCEPT !["task"] = c]
  BY DEF Put
<1> HIDE DEF c
<1>3. PutFits(c)
  <2>1. c.expected \in Nat /\ c.expected <= row.revision
    BY <1>1 DEF Typed, RefsTyped
  <2>2. Edited(made) \subseteq local
    BY DEF Kept, CanvasFits
  <2>3. InOrder(c.content)
    BY <1>1, <2>2 DEF InOrder, Edited
  <2>4. row.content \ Peers \subseteq local
    BY <2>2 DEF Kept, RowFits, UserMade
  <2> QED
    BY <1>1, <2>1, <2>3, <2>4 DEF PutFits
<1>4. Fits(c)
  BY <1>1, <1>3 DEF Fits, Kept, CanvasFits
<1>5. CallsFit'
  BY <1>2, <1>4, SendKept DEF Kept, Owners
<1>6. task'.kind = "put" /\ task'.after = "nothing" /\ task'.wants = {}
  BY DEF Put, NoTask
<1>7. call'["write"] = call["write"]
  BY <1>2 DEF Typed, CallsTyped, Owners
<1>8. FlushFits' /\ WritesFit' /\ CanvasFits'
  BY <1>6, <1>7 DEF FlushFits, Kept, WritesFit, CanvasFits, UserMade
<1> QED
  BY <1>5, <1>8 DEF Kept

\* The end of a save keeps what is stored.
LEMMA EndTaskKept ==
    ASSUME Typed, Typed', Kept, UNCHANGED <<session, row, stray, made, local>>,
           RowFits', CanvasFits', EndTask
    PROVE  Kept'
<1>1. CallsFit'
  BY NoCallFits, SendKept DEF EndTask, Kept, Owners
<1>2. call'["write"] = call["write"]
  BY DEF EndTask, Typed, CallsTyped, Owners
<1>3. FlushFits' /\ WritesFit'
  BY <1>2 DEF EndTask, NoTask, FlushFits, Kept, WritesFit
<1> QED
  BY <1>1, <1>3 DEF Kept

\* The answer to a command: its edit is stored when it leaves the queue.
LEMMA DequeueKept ==
    ASSUME Typed, Lined, Kept, UNCHANGED <<session, row, made, local>>,
           task.kind = "flush", call["task"].phase = "ok", queue' = Tail(queue)
    PROVE  /\ RowFits' /\ CanvasFits' /\ Left' = Left + 1
           /\ made[Left + 1] \in row.content
<1>1. /\ queue # <<>> /\ task.items[1] = queue[1] /\ Sent = queue[1]
      /\ Len(Tail(queue)) = Len(queue) - 1 /\ Len(queue) \in Nat \ {0}
  BY SentIsFirst
<1>2. Left + 1 \in DOMAIN made /\ Left \in Nat /\ queue[1].edit = made[Left + 1]
  BY <1>1, QueueStart
<1>3. made[Left + 1] \in row.content
  BY <1>1, <1>2 DEF Kept, FlushFits, Sent
<1>4. Left' = Left + 1
  BY <1>1, MadeApart DEF Left
<1>5. RowFits'
  BY <1>2, <1>3, <1>4 DEF Kept, RowFits, InOrder, UserMade
<1>6. Queued \subseteq Queued' \cup {made[Left + 1]}
  <2>1. \A i \in 1 .. Len(queue) - 1 : Tail(queue)[i] = queue[i + 1]
    BY DEF Typed, RefsTyped
  <2>2. DOMAIN queue = 1 .. Len(queue) /\ DOMAIN Tail(queue) = 1 .. Len(queue) - 1
    BY <1>1 DEF Typed, RefsTyped
  <2>3. ASSUME NEW i \in DOMAIN queue, i # 1 PROVE queue[i].edit \in Queued'
    <3>1. i - 1 \in DOMAIN Tail(queue) /\ Tail(queue)[i - 1] = queue[i]
      BY <1>1, <2>1, <2>2, <2>3
    <3> QED
      BY <3>1 DEF Queued
  <2> QED
    BY <1>2, <2>3 DEF Queued
<1>7. CanvasFits'
  BY <1>3, <1>6 DEF Kept, CanvasFits, UserMade
<1> QED
  BY <1>3, <1>4, <1>5, <1>7

\* A new edit is in nothing that is stored or on its way.
LEMMA EditFits ==
    ASSUME Typed, Lined, NEW e \in Edits, e \notin Edited(made), made' = Append(made, e),
           UNCHANGED <<session, row>>, NEW c \in Calls, Fits(c)
    PROVE  Fits(c)'
<1>1. /\ DOMAIN made = 1 .. Len(made) /\ DOMAIN made' = 1 .. Len(made) + 1 /\ Len(made) \in Nat
      /\ made'[Len(made) + 1] = e /\ \A i \in 1 .. Len(made) : made'[i] = made[i]
  BY DEF Typed, CanvasTyped
<1>2. UserMade \subseteq UserMade'
  BY <1>1 DEF UserMade, Edited
<1>3. e \notin c.content
  BY EditsAssumption, SessionsAssumption DEF Fits, UserMade, Typed, ServerTyped
<1>4. PutFits(c) => PutFits(c)'
  BY <1>1, <1>3 DEF PutFits, InOrder
<1>5. CommandFits(c) => CommandFits(c)'
  BY <1>1, <1>3 DEF CommandFits
<1> QED
  BY <1>2, <1>4, <1>5 DEF Fits

\* A new edit keeps what is stored.
LEMMA EditKept ==
    ASSUME Typed, NoRestore, Lined, Kept, UNCHANGED session, NEW e \in session.edits, Edit(e)
    PROVE  Kept'
<1>1. e \in Edits /\ e \notin Edited(made)
  BY SessionsAssumption DEF Edit, Typed, ServerTyped
<1>2. UNCHANGED <<row, stray, call, task>> /\ made' = Append(made, e) /\ local' = local \cup {e}
  BY DEF Edit, server
<1>3. \A c \in Calls : Fits(c) => Fits(c)'
  BY <1>1, <1>2, EditFits
<1>4. CallsFit'
  <2>1. ASSUME NEW o \in Owners PROVE Fits(call[o])'
    <3>1. PICK c \in Calls : c = call[o] /\ Fits(c)
      BY DEF Typed, CallsTyped, CallTyped, Kept, CallsFit
    <3>2. Fits(c)'
      BY <1>3, <3>1
    <3> QED
      BY <1>2, <3>1, <3>2 DEF Fits, PutFits, CommandFits
  <2>2. \A c \in stray : c.phase = "sent" /\ Fits(c)'
    BY <1>3 DEF Typed, ServerTyped, Kept, CallsFit
  <2> QED
    BY <1>2, <2>1, <2>2 DEF CallsFit
<1>5. /\ Len(made') = Len(made) + 1 /\ Len(queue') = Len(queue) + 1
      /\ Len(queue) \in Nat /\ Len(made) \in Nat
      /\ DOMAIN made' = 1 .. Len(made) + 1 /\ DOMAIN made = 1 .. Len(made)
      /\ made'[Len(made) + 1] = e /\ \A i \in 1 .. Len(made) : made'[i] = made[i]
  BY <1>1, <1>2 DEF Edit, Typed, CanvasTyped, RefsTyped
<1>6. Edited(made') = Edited(made) \cup {e} /\ UserMade' = UserMade \cup {e}
  BY <1>2, <1>5 DEF Edited, UserMade
<1>7. RowFits'
  <2>1. e \notin row.content
    BY <1>1, EditsAssumption, SessionsAssumption DEF Kept, RowFits, UserMade, Typed, ServerTyped
  <2>2. InOrder(row.content)'
    BY <1>2, <1>5, <2>1 DEF Kept, RowFits, InOrder
  <2>3. Left' = Left
    BY <1>5 DEF Left
  <2>4. \A i \in 1 .. Left : i \in 1 .. Len(made)
    BY <1>5 DEF Left
  <2> QED
    BY <1>2, <1>5, <1>6, <2>2, <2>3, <2>4 DEF Kept, RowFits
<1>8. FlushFits' /\ WritesFit'
  BY <1>2 DEF Kept, FlushFits, WritesFit
<1>9. CanvasFits'
  <2>1. Queued \subseteq Queued' /\ e \in Queued'
    <3>1. /\ DOMAIN queue = 1 .. Len(queue) /\ DOMAIN queue' = 1 .. Len(queue) + 1
          /\ \A i \in 1 .. Len(queue) : queue'[i] = queue[i]
          /\ queue'[Len(queue) + 1] = [version |-> localVersion + 1, edit |-> e]
      BY <1>1 DEF Edit, Typed, CanvasTyped, RefsTyped
    <3>2. queue'[Len(queue) + 1].edit = e /\ Len(queue) + 1 \in DOMAIN queue'
      BY <1>5, <3>1
    <3> QED
      BY <1>5, <3>1, <3>2 DEF Queued
  <2> QED
    BY <1>2, <1>6, <2>1 DEF Kept, CanvasFits
<1> QED
  BY <1>4, <1>7, <1>8, <1>9 DEF Kept

\* What the user does keeps what is stored.
LEMMA UserKept ==
    ASSUME Typed, Typed', Steady, Lined, Kept, UserStep, UNCHANGED session
    PROVE  Kept'
<1>1. ASSUME NEW e \in session.edits, Edit(e) PROVE Kept'
  BY <1>1, EditKept DEF Steady
<1>2. ASSUME NEW e \in session.direct, DirectWrite(e) PROVE Kept'
  <2>1. UNCHANGED <<session, row, stray, made, local>> /\ ~rendering
    BY <1>2 DEF DirectWrite, server, canvas
  <2>2. CASE queueRef # <<>> /\ Flush(queueRef, "write", {e})
    BY <1>2, <2>1, <2>2, FlushKept
  <2>3. CASE /\ UNCHANGED <<queue, task>>
             /\ call' = [call EXCEPT !["write"] = Request("command", {e}, revisionRef)]
    <3>1. Fits(Request("command", {e}, revisionRef))
      BY <1>2, DirectWriteFits
    <3>2. CallsFit'
      BY <2>1, <2>3, <3>1, SendKept DEF Kept, Owners
    <3>3. call'["task"] = call["task"] /\ session.direct # {}
      BY <1>2, <2>3 DEF Typed, CallsTyped, Owners
    <3>4. RowFits' /\ FlushFits' /\ WritesFit' /\ CanvasFits'
      BY <2>1, <2>3, <3>3
         DEF Kept, RowFits, FlushFits, WritesFit, CanvasFits, InOrder, UserMade, Left, Queued
    <3> QED
      BY <3>2, <3>4 DEF Kept
  <2> QED
    BY <1>2, <2>2, <2>3 DEF DirectWrite, SetRevision, refs
<1>3. CASE Save
  <2>1. UNCHANGED <<session, row, stray, made, local>> /\ ~rendering
    BY <1>3 DEF Save, server, canvas
  <2>2. session.direct = {}
    BY <1>3 DEF Save, Steady
  <2>3. CASE queueRef # <<>> /\ Flush(queueRef, "put", {})
    BY <2>1, <2>2, <2>3, FlushKept
  <2>4. CASE Put /\ SetRevision(revision)
    <3>1. RowFits'
      BY <2>1, <2>4 DEF SetRevision, Kept, RowFits, InOrder, UserMade, Left
    <3> QED
      BY <2>1, <2>2, <2>4, <3>1, PutKept
  <2> QED
    BY <1>3, <2>3, <2>4 DEF Save
<1>4. CASE Restore
  BY <1>4 DEF Restore, Steady, NoRestore
<1> QED
  BY <1>1, <1>2, <1>3, <1>4 DEF UserStep

\* The answers to the save in flight keep what is stored.
LEMMA TaskStepKept ==
    ASSUME Typed, Typed', Lined, Kept, TaskStep, UNCHANGED session
    PROVE  Kept'
<1>1. UNCHANGED <<session, row, stray, made, local>>
  BY DEF TaskStep, FlushContinues, FlushCompletes, FlushRetries, FlushFails, PutSucceeds, PutFails,
         server, canvas
<1>2. CASE FlushContinues
  <2>1. /\ task.kind = "flush" /\ call["task"].phase = "ok" /\ Len(task.items) > 1
        /\ queue' = Tail(queue) /\ task.items \in Seq(Entries)
    BY <1>2, SentIsFirst DEF FlushContinues, Answered, SetRevisionAndQueue, Typed, TaskTyped, Tasks
  <2>2. RowFits' /\ CanvasFits' /\ Left' = Left + 1 /\ made[Left + 1] \in row.content
    BY <1>1, <2>1, DequeueKept
  <2>3. /\ Tail(task.items) \in Seq(Entries) /\ Tail(task.items) # <<>>
        /\ Tail(task.items)[1] = task.items[2] /\ Len(task.items) \in Nat
    BY <2>1, TailTyped
  <2>4. Head(Tail(task.items)) = task.items[2]
    BY <2>3
  <2>5. Left + 2 \in DOMAIN made /\ task.items[2].edit = made[Left + 2] /\ Left \in Nat
    <3>1. 2 \in 1 .. Len(queue) /\ task.items[2] = queue[2] /\ Len(queue) \in Nat
      BY <2>1, <2>3 DEF Lined, TaskShape, Typed, RefsTyped
    <3>2. EndsMade(queue, made)
      BY DEF Lined, QueueShape
    <3>3. queue[2].edit = made[Len(made) - Len(queue) + 2]
      BY <3>1, <3>2, EntryOf
    <3>4. Len(queue) <= Len(made)
      BY <3>2 DEF EndsMade
    <3> QED
      BY <3>1, <3>3, <3>4, MadeApart DEF Left
  <2>6. call' = [call EXCEPT !["task"] =
                   Request("command", {made[Left + 2]}, call["task"].revision)]
    BY <1>2, <2>5 DEF FlushContinues
  <2>7. CallsFit'
    <3>1. \A i \in 1 .. (Left + 2) - 1 : made[i] \in row.content
      BY <2>2, <2>5 DEF Kept, RowFits
    <3>2. Fits(Request("command", {made[Left + 2]}, call["task"].revision))
      BY <2>5, <3>1, CommandOfEditFits
    <3> QED
      BY <1>1, <2>6, <3>2, SendKept DEF Kept, Owners
  <2>8. /\ call'["task"].content = {made[Left + 2]} /\ call'["task"].phase = "sent"
        /\ call'["write"] = call["write"]
    BY <2>6 DEF Request, Typed, CallsTyped, Owners
  <2>9. /\ task'.items = Tail(task.items) /\ task'.kind = "flush"
        /\ task'.after = task.after /\ task'.wants = task.wants
    BY <1>2, <2>1 DEF FlushContinues, Typed, TaskTyped, Tasks
  <2>10. FlushFits' /\ WritesFit'
    BY <1>1, <2>4, <2>5, <2>8, <2>9 DEF FlushFits, Kept, WritesFit
  <2> QED
    BY <2>2, <2>7, <2>10 DEF Kept
<1>3. CASE FlushCompletes
  <2>1. task.kind = "flush" /\ call["task"].phase = "ok" /\ queue' = Tail(queue)
    BY <1>3, SentIsFirst DEF FlushCompletes, Answered, SetRevisionAndQueue
  <2>2. RowFits' /\ CanvasFits'
    BY <1>1, <2>1, DequeueKept
  <2>3. CASE EndTask
    BY <1>1, <2>2, <2>3, EndTaskKept
  <2>4. CASE task.after = "put" /\ Put
    BY <1>1, <2>2, <2>4, PutKept DEF Kept, WritesFit
  <2>5. CASE /\ task.after = "write" /\ task' = NoTask
             /\ call' = [call EXCEPT !["task"] = NoCall,
                                     !["write"] = Request("command", task.wants, revisionRef)]
    <3>1. Fits(Request("command", task.wants, revisionRef))
      BY DirectWriteFits DEF Kept, WritesFit
    <3>2. /\ call'["task"] = NoCall /\ call'["query"] = call["query"]
          /\ call'["write"] = Request("command", task.wants, revisionRef)
      BY <2>5 DEF Typed, CallsTyped, Owners
    <3>3. Fits(call["task"])' /\ Fits(call["write"])'
      BY <1>1, <3>1, <3>2, NoCallFits DEF Fits, PutFits, CommandFits, InOrder, UserMade
    <3>4. RowGrows
      BY <1>1 DEF RowGrows
    <3>5. Fits(call["query"])' /\ \A c \in stray : c.phase = "sent" /\ Fits(c)'
      BY <1>1, <3>2, <3>4, CallStays, FitsStays DEF Kept, CallsFit, Owners, Typed, ServerTyped
    <3>6. CallsFit'
      BY <1>1, <3>3, <3>5 DEF CallsFit, Owners
    <3>7. FlushFits' /\ WritesFit'
      BY <1>1, <2>5 DEF NoTask, FlushFits, Kept, WritesFit
    <3> QED
      BY <2>2, <3>6, <3>7 DEF Kept
  <2> QED
    BY <1>3, <2>3, <2>4, <2>5 DEF FlushCompletes, EndFlush
<1>4. CASE FlushRetries
  <2>1. task.kind = "flush" /\ queue' = queue
    BY <1>4 DEF FlushRetries, Answered, SetRevision
  <2>2. /\ queue # <<>> /\ Sent = queue[1]
        /\ Left + 1 \in DOMAIN made /\ Left \in Nat /\ queue[1].edit = made[Left + 1]
    BY <2>1, SentIsFirst, QueueStart
  <2>3. call' = [call EXCEPT !["task"] =
                   Request("command", {made[Left + 1]}, call["task"].revision)]
    BY <1>4, <2>2 DEF FlushRetries
  <2>4. CallsFit'
    <3>1. \A i \in 1 .. (Left + 1) - 1 : made[i] \in row.content
      BY <2>2 DEF Kept, RowFits
    <3>2. Fits(Request("command", {made[Left + 1]}, call["task"].revision))
      BY <2>2, <3>1, CommandOfEditFits
    <3> QED
      BY <1>1, <2>3, <3>2, SendKept DEF Kept, Owners
  <2>5. /\ call'["task"].content = {made[Left + 1]} /\ call'["task"].phase = "sent"
        /\ call'["write"] = call["write"]
    BY <2>3 DEF Request, Typed, CallsTyped, Owners
  <2>6. /\ task'.items = task.items /\ task'.kind = "flush"
        /\ task'.after = task.after /\ task'.wants = task.wants
    BY <1>4, <2>1 DEF FlushRetries, Typed, TaskTyped, Tasks
  <2>7. FlushFits' /\ WritesFit'
    BY <1>1, <2>2, <2>5, <2>6 DEF FlushFits, Sent, Kept, WritesFit
  <2>8. RowFits' /\ CanvasFits'
    BY <1>1, <2>1 DEF Kept, RowFits, CanvasFits, InOrder, UserMade, Left, Queued
  <2> QED
    BY <2>4, <2>7, <2>8 DEF Kept
<1>5. CASE FlushFails \/ PutFails \/ PutSucceeds
  <2>1. EndTask /\ queue' = queue
    BY <1>5, PutDequeuesNone, FailureEnds
       DEF FlushFails, PutFails, PutSucceeds, Answered, SetRevision, SetRevisionAndQueue
  <2>2. RowFits' /\ CanvasFits'
    BY <1>1, <2>1 DEF Kept, RowFits, CanvasFits, InOrder, UserMade, Left, Queued
  <2> QED
    BY <1>1, <2>1, <2>2, EndTaskKept
<1> QED
  BY <1>2, <1>3, <1>4, <1>5 DEF TaskStep

\* The answer to a direct write gives the canvas only what is stored.
LEMMA WriteStepKept ==
    ASSUME Typed, Typed', Lined, Kept, WriteStep, UNCHANGED session
    PROVE  Kept'
<1>1. ~RestoreSucceeds /\ ~RestoreFails
  BY DEF RestoreSucceeds, RestoreFails, Lined, NothingRestores, Owners
<1>2. /\ UNCHANGED <<row, stray, made, queue, task>>
      /\ call' = [call EXCEPT !["write"] = NoCall]
      /\ call["write"].op = "command"
  BY <1>1 DEF WriteStep, DirectSucceeds, DirectFails, SetRevision, server, canvas
<1>3. CallsFit'
  BY <1>2, NoCallFits, SendKept DEF Kept, Owners
<1>4. session.direct # {}
  BY <1>2 DEF Kept, WritesFit, NoCall
<1>5. call'["task"] = call["task"]
  BY <1>2 DEF Typed, CallsTyped, Owners
<1>6. RowFits' /\ FlushFits' /\ WritesFit'
  BY <1>2, <1>4, <1>5 DEF Kept, RowFits, FlushFits, WritesFit, InOrder, UserMade, Left
<1>7. CanvasFits'
  <2>1. CASE DirectSucceeds
    <3>1. local' = call["write"].content /\ call["write"].phase = "ok" /\ Fits(call["write"])
      BY <2>1 DEF DirectSucceeds, Kept, CallsFit, Owners
    <3> QED
      BY <1>2, <1>4, <3>1 DEF Fits, CanvasFits, UserMade
  <2>2. CASE DirectFails
    BY <1>2, <2>2 DEF DirectFails, canvas, Kept, CanvasFits, UserMade, Queued
  <2> QED
    BY <1>1, <2>1, <2>2 DEF WriteStep
<1> QED
  BY <1>3, <1>6, <1>7 DEF Kept

\* The first refresh replaces only a canvas nobody has edited.
LEMMA QueryStepKept ==
    ASSUME Typed, Typed', Lined, Kept, QueryStep, UNCHANGED session
    PROVE  Kept'
<1>1. /\ UNCHANGED <<row, stray, made, task>>
      /\ call' = [call EXCEPT !["query"] = NoCall]
  BY DEF QueryStep, RefreshArrives, RefreshFails, server, canvas
<1>2. CallsFit'
  BY <1>1, NoCallFits, SendKept DEF Kept, Owners
<1>3. call'["task"] = call["task"] /\ call'["write"] = call["write"]
  BY <1>1 DEF Typed, CallsTyped, Owners
<1>4. queue' = queue
  <2>1. CASE RefreshArrives /\ queueRef = <<>> /\ queue' = <<>>
    <3>1. Len(queue) \in Nat /\ Len(queueRef) = 0 /\ queue \in Seq(Entries)
      BY <2>1 DEF Typed, RefsTyped
    <3>2. queue = <<>>
      BY <3>1 DEF Lined, QueueShape
    <3> QED
      BY <2>1, <3>2
  <2> QED
    BY <2>1 DEF QueryStep, RefreshArrives, RefreshFails, SetRevision, refs
<1>5. RowFits' /\ FlushFits' /\ WritesFit'
  BY <1>1, <1>3, <1>4 DEF Kept, RowFits, FlushFits, WritesFit, InOrder, UserMade, Left
<1>6. CanvasFits'
  <2>1. CASE local' = local
    BY <1>1, <1>4, <2>1 DEF Kept, CanvasFits, UserMade, Queued
  <2>2. CASE RefreshArrives /\ local' = call["query"].content /\ ~(localVersion > 0)
    <3>1. Fits(call["query"]) /\ call["query"].phase = "ok"
      BY <2>2 DEF RefreshArrives, Kept, CallsFit, Owners
    <3>2. Edited(made) = {}
      BY <2>2, MadeApart DEF Lined, QueueShape, Edited
    <3> QED
      BY <1>1, <2>2, <3>1, <3>2 DEF Fits, CanvasFits, UserMade
  <2> QED
    BY <2>1, <2>2 DEF QueryStep, RefreshArrives, RefreshFails, canvas
<1> QED
  BY <1>2, <1>5, <1>6 DEF Kept

\* One step keeps the invariant, and no save takes the user's edits out of the row.
LEMMA NextKept ==
    ASSUME Typed, Typed', Steady, Lined, Kept, [Next]_vars
    PROVE  Kept' /\ RowGrows
<1>1. CASE NetworkStep /\ UNCHANGED session
  BY <1>1, NetworkKept DEF Steady
<1>2. CASE Next /\ ~NetworkStep
  <2>1. row' = row
    BY <1>2 DEF Next, UserStep, Edit, DirectWrite, Save, Restore, Render, AutosaveFires,
       TaskStep, FlushContinues, FlushCompletes, FlushRetries, FlushFails, PutSucceeds, PutFails,
       WriteStep, DirectSucceeds, DirectFails, RestoreSucceeds, RestoreFails,
       QueryStep, RefreshArrives, RefreshFails, server
  <2>2. RowGrows
    BY <2>1 DEF RowGrows
  <2>3. CASE Render
    <3>1. UNCHANGED <<session, stray, call, made, local, queue, task>>
      BY <1>2, <2>3 DEF Next, Render, server, canvas
    <3>2. CallsFit'
      BY <2>1, <3>1 DEF Kept, CallsFit, Fits, PutFits, CommandFits, InOrder, UserMade
    <3> QED
      BY <2>1, <2>2, <3>1, <3>2
         DEF Kept, RowFits, FlushFits, WritesFit, CanvasFits, InOrder, UserMade, Left, Queued
  <2>4. CASE AutosaveFires
    <3>1. UNCHANGED <<session, stray, made, local>> /\ ~rendering
      BY <1>2, <2>4 DEF Next, AutosaveFires, server, canvas
    <3>2. CASE queueRef # <<>> /\ Flush(queueRef, "nothing", {})
      BY <2>1, <2>2, <3>1, <3>2, FlushKept
    <3>3. CASE UNCHANGED <<call, queue, task>>
      <4>1. CallsFit'
        BY <2>1, <3>1, <3>3 DEF Kept, CallsFit, Fits, PutFits, CommandFits, InOrder, UserMade
      <4> QED
        BY <2>1, <2>2, <3>1, <3>3, <4>1
           DEF Kept, RowFits, FlushFits, WritesFit, CanvasFits, InOrder, UserMade, Left, Queued
    <3> QED
      BY <2>4, <3>2, <3>3 DEF AutosaveFires, refs
  <2> QED
    BY <1>2, <2>2, <2>3, <2>4, UserKept, TaskStepKept, WriteStepKept, QueryStepKept DEF Next
<1>3. CASE UNCHANGED vars
  <2>1. UNCHANGED <<session, row, stray, call, made, local, queue, task>>
    BY <1>3 DEF vars, server, canvas, refs
  <2>2. CallsFit'
    BY <2>1 DEF Kept, CallsFit, Fits, PutFits, CommandFits, InOrder, UserMade
  <2> QED
    BY <2>1, <2>2 DEF RowGrows, Kept, RowFits, FlushFits, WritesFit, CanvasFits, InOrder,
                      UserMade, Left, Queued
<1> QED
  BY <1>1, <1>2, <1>3 DEF Next

\* The invariant holds in every reachable state.
THEOREM Inductive == Spec => []IInv
<1>1. Init => (Steady => Kept)
  <2> SUFFICES ASSUME Init PROVE Kept
    OBVIOUS
  <2>1. /\ row.content = {} /\ stray = {} /\ made = <<>> /\ local = {} /\ queue = <<>>
        /\ task = NoTask
    BY DEF Init
  <2>2. \A o \in Owners : call[o].content = {} /\ call[o].op \in {"none", "get"}
                            /\ (call[o].phase = "sent" => call[o].op # "none")
    BY DEF Init, NoCall, Request
  <2>3. CallsFit
    BY <2>1, <2>2 DEF CallsFit, Fits
  <2>4. call["write"] = NoCall
    BY DEF Init, Owners
  <2>5. RowFits /\ FlushFits /\ WritesFit /\ CanvasFits
    BY <2>1, <2>4 DEF RowFits, FlushFits, WritesFit, CanvasFits, InOrder, Edited, Left, NoTask
  <2> QED
    BY <2>3, <2>5 DEF Kept
<1>2. /\ Typed /\ Typed' /\ (NoRestore => Lined) /\ (Steady => Kept) /\ [Next]_vars
      => (Steady => Kept)'
  <2> SUFFICES ASSUME Typed, Typed', NoRestore => Lined, Steady => Kept, [Next]_vars, Steady'
               PROVE  Kept'
    OBVIOUS
  <2>1. Steady
    BY DEF Steady, NoRestore, Next, vars
  <2> QED
    BY <2>1, NextKept DEF Steady
<1>3. Typed /\ (NoRestore => Lined) /\ (Steady => Kept) => IInv
  BY DEF IInv
<1> QED
  BY <1>1, <1>2, <1>3, TypesHold, LinedHolds, PTL DEF Spec

-----------------------------------------------------------------------------
(* What the user is told. *)

\* What left the queue is stored.
LEMMA KeptIsPendingOrStored == IInv => PendingOrStored
<1> SUFFICES ASSUME Typed, Lined, Kept PROVE UserEdits \subseteq row.content \cup Queued
  BY DEF IInv, PendingOrStored, Steady
<1>1. ASSUME NEW i \in DOMAIN made PROVE made[i] \in row.content \cup Queued
  <2>1. CASE i <= Left
    BY <2>1, MadeApart DEF Kept, RowFits
  <2>2. CASE i > Left
    <3>1. /\ EndsMade(queue, made) /\ Len(queue) \in Nat /\ DOMAIN queue = 1 .. Len(queue)
          /\ Len(queue) <= Len(made)
      BY DEF Lined, QueueShape, EndsMade, Typed, RefsTyped
    <3>2. i - Left \in 1 .. Len(queue) /\ Len(made) - Len(queue) + (i - Left) = i
      BY <2>2, <3>1, MadeApart DEF Left
    <3>3. queue[i - Left].edit = made[i]
      BY <3>1, <3>2, EntryOf
    <3> QED
      BY <3>1, <3>2, <3>3 DEF Queued
  <2>3. Left \in Int
    BY MadeApart DEF Left, Typed, RefsTyped
  <2> QED
    BY <2>1, <2>2, <2>3, MadeApart
<1>2. Edited(made) \subseteq row.content \cup Queued
  BY <1>1 DEF Edited
<1>3. local \ Peers \subseteq row.content \cup Queued
  BY <1>2 DEF Kept, CanvasFits, UserMade
<1> QED
  BY <1>2, <1>3 DEF UserEdits

\* PendingOrStored: what the user did is stored or waits in the queue.
THEOREM NoEditIsLost == Spec => []PendingOrStored
BY Inductive, KeptIsPendingOrStored, PTL

\* SavedMeansStored: markEditorSaveSuccess() never shows "saved" too early.
THEOREM SavedIsTrue == Spec => []SavedMeansStored
<1>1. IInv => SavedMeansStored
  <2> SUFFICES ASSUME IInv, Steady, status = "saved" PROVE UserEdits \subseteq row.content
    BY DEF SavedMeansStored
  <2>1. Queued = {}
    BY DEF IInv, Steady, Lined, BadgeShape, Queued
  <2> QED
    BY <2>1, KeptIsPendingOrStored DEF PendingOrStored
<1> QED
  BY <1>1, Inductive, PTL

\* StoredInOrder: flushPendingCommands() stores no edit before an earlier one.
THEOREM OrderIsKept == Spec => []StoredInOrder
<1>1. IInv => StoredInOrder
  BY DEF IInv, Kept, RowFits, InOrder, StoredInOrder
<1> QED
  BY <1>1, Inductive, PTL

\* OwnEditsStay: no save of this tab, a late one included, takes out of the row what
\* the user did.
THEOREM NothingIsTakenBack == Spec => OwnEditsStay
<1>1. IInv /\ IInv' /\ [Next]_vars => [Steady => row.content \ Peers \subseteq row'.content]_vars
  BY NextKept DEF IInv, RowGrows, Steady
<1> QED
  BY <1>1, Inductive, PTL DEF Spec, OwnEditsStay

=============================================================================
