-------------------------- MODULE MCCreation_proofs --------------------------
(* Proofs about MCCreation and its two parts: CreationDraft, for any tabs,  *)
(* fields and required fields, and ProjectCreation, for any users, names    *)
(* and widths of slugs; for any number of requests and faults.              *)
EXTENDS MCCreation, FiniteSetTheorems, SequenceTheorems, WellFoundedInduction, TLAPS

-----------------------------------------------------------------------------
(* Types                                                                   *)

\* Rows that are read or written have their types.
LEMMA RowsTyped ==
    /\ \A row \in Rows \cup {None} : VersionOf(row) \in Nat /\ ContentOf(row) \in Drafts
    /\ \A row \in Rows \cup {None}, content \in Drafts :
         /\ Written(row, content) \in Rows
         /\ Written(row, content).version = VersionOf(row) + 1
         /\ Written(row, content).content = content
    /\ \A row \in Rows : row # None
  BY NoneAssumption DEF Rows, VersionOf, ContentOf, Written, Drafts

\* The requests sent can be counted.
LEMMA SentCounted == TypeOK => Cardinality(Sent) \in Nat
  <1>1. IsFiniteSet(Ids)
    BY FS_Interval, BudgetAssumption DEF Ids
  <1> QED BY <1>1, FS_Subset, FS_CardinalityType DEF Sent

\* An unsent request is one.
LEMMA NoRequestTyped == NoRequest \in Request
  BY DEF NoRequest, Request, Drafts, Kinds, Steps, Answers

\* What the steps of a handler do to their request.
LEMMA RequestKept ==
    ASSUME NEW q \in Request, NEW step \in Steps, NEW read \in Nat,
           NEW answer \in Answers, NEW version \in Nat
    PROVE  /\ [[q EXCEPT !.pc = step] EXCEPT !.read = read] \in Request
           /\ [[[q EXCEPT !.pc = step] EXCEPT !.answer = answer] EXCEPT !.read = read]
                \in Request
           /\ [[[[q EXCEPT !.version = version] EXCEPT !.read = read] EXCEPT !.pc = step]
                EXCEPT !.answer = answer] \in Request
  BY DEF Request

\* The steps that take over a draft.
LEMMA ContentTaken ==
    ASSUME NEW q \in Request, NEW step \in Steps, NEW answer \in Answers,
           NEW content \in Drafts, NEW version \in Nat
    PROVE  /\ [[q EXCEPT !.pc = step] EXCEPT !.content = content] \in Request
           /\ [[[[q EXCEPT !.pc = step] EXCEPT !.answer = answer] EXCEPT !.content = content]
                EXCEPT !.version = version] \in Request
  BY DEF Request

\* A request that goes on is one.
LEMMA GotoTyped ==
    ASSUME TypeOK, NEW i \in Ids, NEW step \in Steps, Goto(i, step)
    PROVE  req' \in [Ids -> Request]
  BY DEF Goto, TypeOK, Request

\* A request that is answered is one.
LEMMA AnswerTyped ==
    ASSUME TypeOK, NEW i \in Ids, NEW what \in Answers, Answer(i, what)
    PROVE  req' \in [Ids -> Request]
  <1>1. "done" \in Steps
    BY DEF Steps
  <1>2. [req[i] EXCEPT !.pc = "done", !.answer = what, !.read = 0] \in Request
    BY <1>1 DEF TypeOK, Request
  <1>3. req' = [req EXCEPT ![i] = [req[i] EXCEPT !.pc = "done", !.answer = what,
                                                 !.read = 0]]
    BY DEF Answer, TypeOK
  <1> QED BY <1>2, <1>3 DEF TypeOK

\* The types hold before the first request ...
LEMMA TypeInit == Init => TypeOK
  <1> SUFFICES ASSUME Init PROVE TypeOK
    OBVIOUS
  <1>1. {} \in Drafts /\ 0 \in 0 .. Budget
    BY BudgetAssumption DEF Drafts
  <1>2. req \in [Ids -> Request]
    BY NoRequestTyped DEF Init
  <1> QED BY <1>1, <1>2 DEF Init, TypeOK

\* ... and after every step of a tab or a handler.
LEMMA TypeNext == TypeOK /\ [Next]_vars => TypeOK'
  <1> SUFFICES ASSUME TypeOK, [Next]_vars
               PROVE  TypeOK'
    OBVIOUS
  <1>0. InBudget => failures + 1 \in 0 .. Budget
    BY SentCounted, BudgetAssumption DEF InBudget, TypeOK
  <1> USE DEF TypeOK
  <1>1. ASSUME NEW t \in Tabs, Open(t) \/ GiveUp(t) \/ \E e \in Edits : Edit(t, e)
        PROVE  TypeOK'
    <2>1. CASE Open(t)
      BY <2>1, RowsTyped DEF Open, tables
    <2>2. CASE GiveUp(t)
      BY <2>2, <1>0 DEF GiveUp
    <2>3. ASSUME NEW e \in Edits, Edit(t, e)
          PROVE  TypeOK'
      BY <2>3 DEF Edit, tables, Drafts
    <2> QED BY <1>1, <2>1, <2>2, <2>3
  <1>2. ASSUME NEW t \in Tabs, NEW kind \in {"save", "apply"}, Send(t, kind)
        PROVE  TypeOK'
    <2>1. PICK i \in Ids :
            /\ req' = [req EXCEPT ![i] =
                 [NoRequest EXCEPT !.kind = kind, !.content = form[t], !.basis = saw[t],
                                   !.expected = IF kind = "save" THEN known[t] ELSE 0,
                                   !.current = VersionOf(draft), !.withMap = kind = "apply",
                                   !.pc = IF kind = "save" THEN "find" ELSE "check"]]
            /\ waiting' = [waiting EXCEPT ![t] = i]
      BY <1>2 DEF Send
    <2>2. VersionOf(draft) \in Nat
      BY RowsTyped
    <2>3. req' \in [Ids -> Request]
      BY <2>1, <2>2 DEF NoRequest, Request, Drafts, Kinds, Steps, Answers
    <2> QED BY <1>2, <2>1, <2>3 DEF Send, tables
  <1>3. ASSUME NEW call \in Calls, Create(call) \/ Call(call)
        PROVE  TypeOK'
    <2>1. call.kind \in Kinds /\ call.content \in Drafts /\ call.withMap \in BOOLEAN
      BY CallsAssumption DEF Kinds
    <2>2. CASE Create(call)
      <3>1. PICK i \in Ids :
              req' = [req EXCEPT ![i] =
                [NoRequest EXCEPT !.kind = "create", !.content = call.content,
                                  !.withMap = TRUE, !.pc = "find"]]
        BY <2>2 DEF Create
      <3>2. req' \in [Ids -> Request]
        BY <2>1, <3>1 DEF NoRequest, Request, Kinds, Steps, Answers, Drafts
      <3> QED BY <2>1, <2>2, <3>2 DEF Create, tabs
    <2>3. CASE Call(call)
      <3>1. PICK i \in Ids :
              req' = [req EXCEPT ![i] =
                [NoRequest EXCEPT !.kind = call.kind, !.content = call.content,
                                  !.withMap = call.withMap,
                                  !.pc = IF call.kind = "save" THEN "find" ELSE "check"]]
        BY <2>3 DEF Call
      <3>2. req' \in [Ids -> Request]
        BY <2>1, <3>1 DEF NoRequest, Request, Steps, Answers, Drafts
      <3> QED BY <2>3, <3>2 DEF Call, tables, tabs
    <2> QED BY <1>3, <2>2, <2>3
  <1>4. ASSUME NEW t \in Tabs, Hear(t)
        PROVE  TypeOK'
    <2>1. /\ Mine(t) \in Request
          /\ Mine(t).version \in Nat /\ Mine(t).content \in Drafts
      BY <1>4 DEF Hear, Mine, Request
    <2>2. {} \in Drafts
      BY DEF Drafts
    <2>3. CASE HearSaved(t)
      BY <1>4, <2>1, <2>3 DEF Hear, HearSaved, tables
    <2>4. CASE HearConflict(t)
      BY <1>4, <2>1, <2>4 DEF Hear, HearConflict, tables
    <2>5. CASE HearApplied(t)
      BY <1>4, <2>2, <2>5 DEF Hear, HearApplied, tables
    <2>6. CASE HearError(t)
      BY <1>4, <2>6 DEF Hear, HearError, tables
    <2> QED BY <1>4, <2>3, <2>4, <2>5, <2>6 DEF Hear
  <1>5. ASSUME NEW i \in Ids, Serve(i) \/ CallFails(i)
        PROVE  TypeOK'
    <2>1. /\ req[i] \in Request
          /\ req[i].content \in Drafts /\ req[i].answer \in Answers
      BY DEF Request
    <2>2. {"check", "find", "write", "meta", "findApplied", "writeApplied", "map", "done"}
            \subseteq Steps
          /\ {"ok", "conflict", "invalid", "error"} \subseteq Answers
      BY DEF Steps, Answers
    <2>3. /\ draft # None => draft.content \in Drafts /\ draft.version \in Nat
          /\ \A row \in {draft, applied, map} :
               /\ Written(row, req[i].content) \in Rows
               /\ Written(row, req[i].content).version \in Nat
      BY <2>1, RowsTyped DEF Rows
    <2>4. CASE Check(i)
      <3>1. CASE Goto(i, "find")
        BY <2>2, <2>4, <3>1, GotoTyped DEF Check, tables, tabs
      <3>2. CASE Answer(i, "error") \/ Answer(i, "invalid")
        BY <2>2, <2>4, <3>2, AnswerTyped DEF Check, tables, tabs
      <3>3. CASE /\ draft # None
                 /\ req' = [req EXCEPT ![i].pc = "meta", ![i].content = draft.content]
        <4>1. req' \in [Ids -> Request]
          BY <2>1, <2>2, <2>3, <3>3, ContentTaken
        <4> QED BY <2>4, <4>1 DEF Check, tables, tabs
      <3> QED BY <2>4, <3>1, <3>2, <3>3 DEF Check
    <2>5. CASE Find(i)
      <3>1. CASE /\ draft # None
                 /\ req' = [req EXCEPT ![i].pc = "done", ![i].answer = "conflict",
                                      ![i].content = draft.content,
                                      ![i].version = draft.version]
        <4>1. req' \in [Ids -> Request]
          BY <2>1, <2>2, <2>3, <3>1, ContentTaken
        <4> QED BY <2>5, <4>1 DEF Find, tables, tabs
      <3>2. CASE req' = [req EXCEPT ![i].pc = "write", ![i].read = VersionOf(draft)]
        <4>1. VersionOf(draft) \in Nat
          BY RowsTyped
        <4>2. req' \in [Ids -> Request]
          BY <2>1, <2>2, <3>2, <4>1, RequestKept
        <4> QED BY <2>5, <4>2 DEF Find, tables, tabs
      <3> QED BY <2>5, <3>1, <3>2 DEF Find
    <2>6. CASE Write(i)
      <3>1. CASE Answer(i, "error") /\ UNCHANGED draft
        BY <2>2, <2>6, <3>1, AnswerTyped DEF Write, tabs
      <3>2. CASE /\ draft' = Written(draft, req[i].content)
                 /\ req' = [req EXCEPT ![i].version = draft'.version, ![i].read = 0,
                        ![i].pc = AfterDraft(req[i].kind),
                        ![i].answer = IF req[i].kind = "save" THEN "ok" ELSE @]
                 /\ UNCHANGED torn
        <4>1. req' \in [Ids -> Request]
          BY <2>1, <2>2, <2>3, <3>2 DEF Request, AfterDraft
        <4> QED BY <2>3, <2>6, <3>2, <4>1 DEF Write, tabs
      <3> QED BY <2>6, <3>1, <3>2 DEF Write
    <2>7. CASE Meta(i)
      BY <2>1, <2>2, <2>7, RequestKept DEF Meta, Goto, tabs
    <2>8. CASE FindApplied(i)
      <3>1. VersionOf(applied) \in Nat
        BY RowsTyped
      <3> QED BY <2>1, <2>2, <2>8, <3>1, RequestKept DEF FindApplied, tables, tabs
    <2>9. CASE WriteApplied(i)
      <3>1. CASE Goto(i, "map")
        BY <2>2, <2>3, <2>9, <3>1, GotoTyped DEF WriteApplied, tabs
      <3>2. CASE Answer(i, "error") \/ Answer(i, "ok")
        BY <2>2, <2>3, <2>9, <3>2, AnswerTyped DEF WriteApplied, tabs
      <3> QED BY <2>9, <3>1, <3>2 DEF WriteApplied, AfterSettings
    <2>10. CASE SaveMap(i)
      BY <2>1, <2>2, <2>3, <2>10, RequestKept DEF SaveMap, Answer, tabs
    <2>11. CASE CallFails(i)
      BY <2>1, <2>2, <2>11, <1>0, RequestKept DEF CallFails, Answer, tabs
    <2> QED BY <1>5, <2>4, <2>5, <2>6, <2>7, <2>8, <2>9, <2>10, <2>11 DEF Serve
  <1>6. CASE UNCHANGED vars
    BY <1>6 DEF vars, tables, tabs
  <1> QED BY <1>1, <1>2, <1>3, <1>4, <1>5, <1>6 DEF Next

\* Rows, requests and tabs keep their types, whatever handlers interleave.
THEOREM TypeCorrect == Spec => []TypeOK
  <1> QED BY TypeInit, TypeNext, PTL DEF Spec

-----------------------------------------------------------------------------
(* Versions                                                                *)

\* A version is never ahead of the row, and one that is the row's comes with its content.
Agrees(row, version, content) ==
    /\ version <= VersionOf(row)
    /\ row # None /\ version = row.version => content = row.content

\* The answers that carry a version.
TellsVersion(q) == q.answer = "conflict" \/ (q.kind = "save" /\ q.answer = "ok")

\* What a request was sent with, and what its answer says, is of the past or of the row.
RequestInv(i) ==
    /\ Agrees(draft, req[i].expected, req[i].basis)
    /\ TellsVersion(req[i]) => Agrees(draft, req[i].version, req[i].content)
    /\ req[i].kind = "save" =>
         /\ req[i].pc \in {"find", "write", "done"}
         /\ req[i].expected <= req[i].current
         /\ req[i].current <= VersionOf(draft)
         /\ req[i].pc = "write" \/ req[i].answer = "ok" =>
              req[i].expected \in {0, req[i].current}
         /\ req[i].pc = "write" => req[i].expected \in {0, req[i].read}

\* What every tab and every request know of versions.
VersionInv ==
    /\ draft # None => draft.version > 0
    /\ \A t \in Tabs : Agrees(draft, known[t], saw[t])
    /\ \A i \in Ids : RequestInv(i)

\* A handler changes its own request only, and nothing of what it was sent with.
LEMMA HandlerKeeps ==
    ASSUME TypeOK, NEW i \in Ids, Serve(i) \/ CallFails(i)
    PROVE  /\ UNCHANGED tabs
           /\ \A j \in Ids \ {i} : req'[j] = req[j]
           /\ \A j \in Ids : /\ req'[j].kind = req[j].kind
                             /\ req'[j].expected = req[j].expected
                             /\ req'[j].basis = req[j].basis
                             /\ req'[j].current = req[j].current
                             /\ req'[j].withMap = req[j].withMap
  <1> USE DEF TypeOK, Request
  <1>1. CASE Check(i)
    BY <1>1 DEF Check, Goto, Answer
  <1>2. CASE Find(i)
    BY <1>2 DEF Find
  <1>3. CASE Write(i)
    BY <1>3 DEF Write, Answer
  <1>4. CASE Meta(i)
    BY <1>4 DEF Meta, Goto
  <1>5. CASE FindApplied(i)
    BY <1>5 DEF FindApplied
  <1>6. CASE WriteApplied(i)
    BY <1>6 DEF WriteApplied, AfterSettings, Goto, Answer
  <1>7. CASE SaveMap(i) \/ CallFails(i)
    BY <1>7 DEF SaveMap, CallFails, Answer
  <1> QED BY <1>1, <1>2, <1>3, <1>4, <1>5, <1>6, <1>7 DEF Serve

\* A write makes the next version; every other step leaves the row alone.
LEMMA DraftSteps ==
    ASSUME TypeOK, [Next]_vars
    PROVE  \/ draft' = draft
           \/ /\ draft' = [version |-> VersionOf(draft) + 1, content |-> draft'.content]
              /\ draft' # None
              /\ VersionOf(draft)' = VersionOf(draft) + 1
              /\ \E i \in Ids : Write(i)
  <1>1. ASSUME NEW i \in Ids, Write(i), draft' # draft
        PROVE  /\ draft' = Written(draft, req[i].content)
               /\ req[i].content \in Drafts
    BY <1>1 DEF Write, TypeOK, Request
  <1>2. ASSUME NEW i \in Ids, Write(i), draft' # draft
        PROVE  /\ draft' = [version |-> VersionOf(draft) + 1, content |-> draft'.content]
               /\ draft' # None
               /\ VersionOf(draft)' = VersionOf(draft) + 1
    <2>1. Written(draft, req[i].content) \in Rows
      BY <1>1, <1>2, RowsTyped DEF TypeOK
    <2> QED BY <1>1, <1>2, <2>1, NoneAssumption DEF Written, VersionOf
  <1>3. ASSUME ~ \E i \in Ids : Write(i)
        PROVE  draft' = draft
    BY <1>3 DEF Next, Serve, vars, tables, tabs, Open, Hear, GiveUp, Edit, Send, Create, Call,
                Check, Find, Meta, FindApplied, WriteApplied, SaveMap, CallFails
  <1> QED BY <1>2, <1>3

\* Nothing is known at first ...
LEMMA VersionInit == Init => VersionInv
  BY DEF Init, VersionInv, RequestInv, Agrees, TellsVersion, VersionOf, NoRequest

\* ... and every write raises the version, so what was known stays true.
LEMMA VersionNext == TypeOK /\ VersionInv /\ [Next]_vars => VersionInv'
  <1> SUFFICES ASSUME TypeOK, VersionInv, [Next]_vars
               PROVE  VersionInv'
    OBVIOUS
  <1>1. /\ VersionOf(draft) \in Nat
        /\ draft # None => draft.version \in Nat /\ VersionOf(draft) = draft.version
    BY RowsTyped DEF TypeOK, Rows, VersionOf
  <1>2. ASSUME NEW v \in Nat, NEW c, Agrees(draft, v, c)
        PROVE  Agrees(draft', v, c)
    BY <1>1, <1>2, DraftSteps DEF Agrees, VersionOf
  <1>3. VersionOf(draft) <= VersionOf(draft')
    BY <1>1, DraftSteps DEF VersionOf
  <1>4. draft' # None => draft'.version > 0
    BY <1>1, DraftSteps DEF VersionInv, VersionOf
  <1>5. ASSUME NEW t \in Tabs
        PROVE  Agrees(draft', known'[t], saw'[t])
    <2>1. CASE known'[t] = known[t] /\ saw'[t] = saw[t]
      BY <1>2, <2>1 DEF VersionInv, TypeOK
    <2>2. CASE Open(t)
      <3>1. draft' = draft /\ known'[t] = VersionOf(draft) /\ saw'[t] = ContentOf(draft)
        BY <2>2 DEF Open, tables, TypeOK
      <3> QED BY <1>1, <3>1 DEF Agrees, ContentOf
    <2>3. CASE Hear(t)
      <3>1. waiting[t] \in Ids /\ draft' = draft
        BY <2>3 DEF Hear, tables, TypeOK
      <3>2. RequestInv(waiting[t])
        BY <3>1 DEF VersionInv
      <3>3. CASE HearSaved(t) \/ HearConflict(t)
        <4>1. TellsVersion(req[waiting[t]])
          <5>1. CASE HearSaved(t)
            BY <5>1 DEF HearSaved, Mine, TellsVersion
          <5>2. CASE HearConflict(t)
            BY <5>2 DEF HearConflict, Mine, TellsVersion
          <5> QED BY <3>3, <5>1, <5>2
        <4>2. /\ known' = [known EXCEPT ![t] = req[waiting[t]].version]
              /\ saw' = [saw EXCEPT ![t] = req[waiting[t]].content]
          BY <3>3 DEF HearSaved, HearConflict, Mine
        <4>3. known'[t] = req[waiting[t]].version /\ saw'[t] = req[waiting[t]].content
          BY <4>2 DEF TypeOK
        <4> QED BY <3>1, <3>2, <4>1, <4>3 DEF RequestInv
      <3>4. CASE HearApplied(t)
        BY <1>1, <3>1, <3>4 DEF HearApplied, Agrees, VersionInv, TypeOK
      <3>5. CASE HearError(t)
        BY <2>1, <3>5 DEF HearError
      <3> QED BY <2>3, <3>3, <3>4, <3>5 DEF Hear
    <2>4. ASSUME ~Open(t), ~Hear(t)
          PROVE  known'[t] = known[t] /\ saw'[t] = saw[t]
      <3>1. ASSUME NEW u \in Tabs \ {t}, Open(u) \/ Hear(u)
            PROVE  known'[t] = known[t] /\ saw'[t] = saw[t]
        BY <3>1 DEF Open, Hear, HearSaved, HearConflict, HearApplied, HearError, TypeOK
      <3>2. CASE UNCHANGED <<known, saw>>
        BY <3>2
      <3> QED BY <2>4, <3>1, <3>2, HandlerKeeps
              DEF Next, vars, tabs, Edit, Send, Create, Call, GiveUp
    <2> QED BY <2>1, <2>2, <2>3, <2>4
  <1>6. ASSUME NEW i \in Ids
        PROVE  RequestInv(i)'
    <2>1. /\ RequestInv(i)
          /\ req[i].expected \in Nat /\ req[i].version \in Nat /\ req[i].current \in Nat
      BY DEF VersionInv, TypeOK, Request
    <2>2. CASE req'[i] = req[i]
      <3>1. Agrees(draft', req'[i].expected, req'[i].basis)
        BY <1>2, <2>1, <2>2 DEF RequestInv
      <3>2. TellsVersion(req'[i]) => Agrees(draft', req'[i].version, req'[i].content)
        BY <1>2, <2>1, <2>2 DEF RequestInv
      <3>3. req[i].current <= VersionOf(draft) => req[i].current <= VersionOf(draft')
        BY <1>1, <1>3, <2>1, DraftSteps DEF VersionOf
      <3> QED BY <2>1, <2>2, <3>1, <3>2, <3>3 DEF RequestInv
    <2>3. ASSUME NEW t \in Tabs, NEW kind \in {"save", "apply"}, Send(t, kind), req'[i] # req[i]
          PROVE  RequestInv(i)'
      <3>1. /\ req'[i].kind = kind
            /\ req'[i].basis = saw[t]
            /\ req'[i].expected = IF kind = "save" THEN known[t] ELSE 0
            /\ req'[i].current = VersionOf(draft)
            /\ req'[i].pc = IF kind = "save" THEN "find" ELSE "check"
            /\ req'[i].answer = "none"
            /\ draft' = draft
        BY <2>3 DEF Send, NoRequest, TypeOK, tables
      <3>2. Agrees(draft, known[t], saw[t])
        BY DEF VersionInv
      <3> QED BY <1>1, <3>1, <3>2 DEF RequestInv, Agrees, TellsVersion, VersionInv, TypeOK
    <2>4. ASSUME NEW call \in Calls, Create(call) \/ Call(call), req'[i] # req[i]
          PROVE  RequestInv(i)'
      <3>1. /\ req'[i].kind = "save" => req'[i].pc = "find"
            /\ req'[i].expected = 0 /\ req'[i].current = 0
            /\ req'[i].answer = "none"
            /\ draft' = draft
        <4>1. CASE Create(call)
          BY <2>4, <4>1 DEF Create, NoRequest, TypeOK
        <4>2. CASE Call(call)
          BY <2>4, <4>2 DEF Call, NoRequest, TypeOK, tables
        <4> QED BY <2>4, <4>1, <4>2
      <3> QED BY <1>1, <3>1 DEF RequestInv, Agrees, TellsVersion, VersionInv
    <2>5. ASSUME Serve(i) \/ CallFails(i)
          PROVE  RequestInv(i)'
      <3>1. /\ req'[i].kind = req[i].kind
            /\ req'[i].expected = req[i].expected
            /\ req'[i].basis = req[i].basis
            /\ req'[i].current = req[i].current
        BY <2>5, HandlerKeeps
      <3>2. Agrees(draft', req'[i].expected, req'[i].basis)
        BY <1>2, <2>1, <3>1 DEF RequestInv
      <3>3. TellsVersion(req'[i]) => Agrees(draft', req'[i].version, req'[i].content)
        <4>1. CASE Answer(i, "error") \/ Answer(i, "invalid")
          BY <4>1 DEF Answer, TellsVersion, TypeOK, Request
        <4>2. ASSUME draft' = draft, req'[i].answer = req[i].answer,
                     req'[i].version = req[i].version, req'[i].content = req[i].content
              PROVE  TellsVersion(req'[i]) => Agrees(draft', req'[i].version, req'[i].content)
          BY <2>1, <3>1, <4>2 DEF RequestInv, TellsVersion
        <4>3. CASE Check(i)
          <5>1. CASE Goto(i, "find")
            BY <4>2, <4>3, <5>1 DEF Check, Goto, tables, TypeOK, Request
          <5>2. CASE /\ draft # None
                     /\ req' = [req EXCEPT ![i].pc = "meta", ![i].content = draft.content]
            BY <2>1, <3>1, <4>3, <5>2
               DEF Check, tables, RequestInv, TellsVersion, Agrees, TypeOK, Request
          <5> QED BY <4>1, <4>3, <5>1, <5>2 DEF Check
        <4>4. CASE Find(i)
          <5>1. CASE /\ draft # None
                     /\ req' = [req EXCEPT ![i].pc = "done", ![i].answer = "conflict",
                                          ![i].content = draft.content,
                                          ![i].version = draft.version]
            BY <1>1, <4>4, <5>1 DEF Find, tables, Agrees, TypeOK, Request
          <5>2. CASE req' = [req EXCEPT ![i].pc = "write", ![i].read = VersionOf(draft)]
            BY <4>2, <4>4, <5>2 DEF Find, tables, TypeOK, Request
          <5> QED BY <4>4, <5>1, <5>2 DEF Find
        <4>5. CASE Write(i)
          <5>1. ASSUME ~Answer(i, "error")
                PROVE  /\ draft' = Written(draft, req[i].content)
                       /\ req'[i].version = draft'.version
                       /\ req'[i].content = req[i].content
            BY <4>5, <5>1 DEF Write, TypeOK, Request
          <5>2. /\ Written(draft, req[i].content).content = req[i].content
                /\ Written(draft, req[i].content) \in Rows
            BY RowsTyped DEF TypeOK, Request
          <5>3. ASSUME ~Answer(i, "error")
                PROVE  Agrees(draft', req'[i].version, req'[i].content)
            BY <5>1, <5>2, <5>3, NoneAssumption DEF Agrees, VersionOf, Rows
          <5> QED BY <4>1, <5>3
        <4>6. CASE Meta(i) \/ FindApplied(i)
          <5>1. CASE Meta(i)
            BY <4>2, <5>1 DEF Meta, Goto, TypeOK, Request
          <5>2. CASE FindApplied(i)
            BY <4>2, <5>2 DEF FindApplied, tables, TypeOK, Request
          <5> QED BY <4>6, <5>1, <5>2
        <4>7. CASE WriteApplied(i)
          <5>1. CASE Goto(i, "map")
            BY <4>2, <4>7, <5>1 DEF WriteApplied, Goto, TypeOK, Request
          <5>2. CASE Answer(i, "ok")
            BY <2>1, <4>7, <5>2
               DEF WriteApplied, Answer, RequestInv, TellsVersion, TypeOK, Request
          <5> QED BY <4>1, <4>7, <5>1, <5>2 DEF WriteApplied, AfterSettings
        <4>8. CASE SaveMap(i)
          BY <2>1, <4>8 DEF SaveMap, Answer, RequestInv, TellsVersion, TypeOK, Request
        <4>9. CASE CallFails(i)
          BY <4>1, <4>9 DEF CallFails
        <4> QED BY <2>5, <4>3, <4>4, <4>5, <4>6, <4>7, <4>8, <4>9 DEF Serve
      <3>4. ASSUME req[i].kind = "save"
            PROVE  /\ req'[i].pc \in {"find", "write", "done"}
                   /\ req[i].expected <= req[i].current
                   /\ req[i].current <= VersionOf(draft')
                   /\ req'[i].pc = "write" \/ req'[i].answer = "ok" =>
                        req[i].expected \in {0, req[i].current}
                   /\ req'[i].pc = "write" => req[i].expected \in {0, req'[i].read}
        <4>1. /\ req[i].pc \in {"find", "write", "done"}
              /\ req[i].expected <= req[i].current /\ req[i].current <= VersionOf(draft)
              /\ req[i].pc = "write" \/ req[i].answer = "ok" =>
                   req[i].expected \in {0, req[i].current}
              /\ req[i].pc = "write" => req[i].expected \in {0, req[i].read}
          BY <2>1, <3>4 DEF RequestInv
        <4>2. req[i].current <= VersionOf(draft')
          BY <1>1, <1>3, <2>1, <4>1, DraftSteps DEF VersionOf
        <4>3. CASE Find(i)
          <5>1. req[i].expected \in {0, VersionOf(draft)} \/ VersionOf(draft) = 0
                  => req[i].expected \in {0, req[i].current}
            BY <1>1, <2>1, <4>1
          <5>2. CASE req'[i].pc = "done" /\ req'[i].answer = "conflict"
            BY <4>1, <4>2, <5>2
          <5>3. ASSUME ~(req'[i].pc = "done" /\ req'[i].answer = "conflict")
                PROVE  /\ req'[i].pc = "write" /\ req'[i].read = VersionOf(draft)
                       /\ req[i].expected \in {0, VersionOf(draft)} \/ VersionOf(draft) = 0
            BY <4>3, <5>3 DEF Find, VersionOf, TypeOK, Request
          <5>4. VersionOf(draft) = 0 => req[i].expected = 0
            BY <1>1, <2>1, <4>1
          <5> QED BY <4>1, <4>2, <5>1, <5>2, <5>3, <5>4
        <4>4. CASE Write(i)
          BY <3>4, <4>1, <4>2, <4>4 DEF Write, AfterDraft, Answer, TypeOK, Request
        <4>5. CASE CallFails(i)
          BY <4>1, <4>2, <4>5 DEF CallFails, Answer, TypeOK, Request
        <4>6. ~Check(i) /\ ~Meta(i) /\ ~FindApplied(i) /\ ~WriteApplied(i) /\ ~SaveMap(i)
          BY <4>1 DEF Check, Meta, FindApplied, WriteApplied, SaveMap
        <4> QED BY <2>5, <4>3, <4>4, <4>5, <4>6 DEF Serve
      <3> QED BY <3>1, <3>2, <3>3, <3>4 DEF RequestInv
    <2>6. CASE UNCHANGED req
      BY <2>2, <2>6
    <2> QED BY <2>2, <2>3, <2>4, <2>5, <2>6, HandlerKeeps
            DEF Next, vars, Open, Hear, GiveUp, Edit
  <1> QED BY <1>4, <1>5, <1>6 DEF VersionInv

\* In every state a tab that knows the stored version has seen what is stored, and a save
\* that was answered "ok" was not sent under an old version: saveDraftByProjectId()
\* raises the version with every write, and persistDraft() keeps it with the content.
THEOREM KnownContent == Spec => []VersionsAreContents
  <1>1. Init => TypeOK /\ VersionInv
    BY TypeInit, VersionInit
  <1>2. TypeOK /\ VersionInv /\ [Next]_vars => TypeOK' /\ VersionInv'
    BY TypeNext, VersionNext
  <1>3. TypeOK /\ VersionInv => VersionsAreContents
    <2> SUFFICES ASSUME TypeOK, VersionInv
                 PROVE  VersionsAreContents
      OBVIOUS
    <2>1. KnownVersionIsKnownContent
      BY DEF KnownVersionIsKnownContent, VersionInv, Agrees
    <2>2. StaleSavesAreRefused
      BY DEF StaleSavesAreRefused, VersionInv, RequestInv
    <2> QED BY <2>1, <2>2 DEF VersionsAreContents
  <1> QED BY <1>1, <1>2, <1>3, PTL DEF Spec

\* A save under a version, if nobody writes between its handler's reading and its writing,
\* drops nothing its tab had not seen: find() compares the version it reads with the one
\* expected, and the row is still that one when it is updated.
THEOREM GuardedSaves == Spec => GuardedSaveDropsOnlyWhatItSaw
  <1>1. Init => TypeOK /\ VersionInv
    BY TypeInit, VersionInit
  <1>2. TypeOK /\ VersionInv /\ [Next]_vars => TypeOK' /\ VersionInv'
    BY TypeNext, VersionNext
  <1>3. ASSUME TypeOK, VersionInv, [Next]_vars, NEW i \in Ids,
               req[i].pc = "write", draft' # draft, req'[i].pc = "done",
               req[i].expected # 0, req[i].read = VersionOf(draft)
        PROVE  ContentOf(draft) \ ContentOf(draft') \subseteq req[i].basis
    <2>1. CASE draft = None
      BY <2>1 DEF ContentOf
    <2>2. CASE draft # None
      <3>1. Write(i)
        <4>1. PICK j \in Ids : Write(j)
          BY <1>3, DraftSteps
        <4>2. req'[i] # req[i]
          BY <1>3
        <4>3. Serve(j)
          BY <4>1 DEF Serve
        <4>4. i = j
          BY <1>3, <4>2, <4>3, HandlerKeeps
        <4> QED BY <4>1, <4>4
      <3>2. req[i].kind = "save"
        BY <1>3, <3>1, NoneAssumption DEF Write, AfterDraft, Answer, TypeOK, Request
      <3>3. RequestInv(i)
        BY <1>3 DEF VersionInv
      <3>4. req[i].expected = draft.version
        BY <1>3, <2>2, <3>2, <3>3 DEF RequestInv, VersionOf
      <3>5. draft.content = req[i].basis
        BY <2>2, <3>3, <3>4 DEF RequestInv, Agrees
      <3> QED BY <2>2, <3>5 DEF ContentOf
    <2> QED BY <2>1, <2>2
  <1>4. TypeOK /\ VersionInv /\ [Next]_vars =>
          [\A i \in Ids :
             /\ req[i].pc = "write" /\ draft' # draft /\ req'[i].pc = "done"
             /\ req[i].expected # 0 /\ req[i].read = VersionOf(draft)
             => ContentOf(draft) \ ContentOf(draft') \subseteq req[i].basis]_vars
    BY <1>3
  <1> QED BY <1>1, <1>2, <1>4, PTL DEF Spec, GuardedSaveDropsOnlyWhatItSaw

-----------------------------------------------------------------------------
(* Applies                                                                 *)

\* What an apply is going to write has passed the strict validation, and a creation
\* writes what it was sent.
RequestValid(i) ==
    /\ req[i].pc \in {"meta", "findApplied", "writeApplied", "map"} =>
         Valid(req[i].content) \/ req[i].kind = "create"
    /\ req[i].pc \in {"find", "write"} =>
         req[i].kind \in {"save", "create"} \/ (req[i].kind = "apply" /\ Valid(req[i].content))
    /\ req[i].kind = "create" => req[i].expected = 0

\* As long as no apply is torn, one apply at most is under way and all it has written
\* is its own.
OneApply ==
    ~torn =>
      /\ \A i \in Ids : \A j \in Ids : Applying(i) /\ Applying(j) => i = j
      /\ \A i \in Ids : Applying(i) => meta = req[i].content
      /\ \A i \in Ids : Applying(i) /\ ~req[i].withMap => mapless
      /\ \A i \in Ids : req[i].pc = "map" =>
           applied # None /\ applied.content = req[i].content

\* Requests are numbered in the order they are sent, and none runs before.
Numbered ==
    /\ \E n \in Nat : Sent = 1 .. n
    /\ \A i \in Ids \ Sent : req[i].pc = "unsent"

\* The invariant behind ProjectIsOneDraft.
ProjectInv ==
    /\ Numbered
    /\ \A i \in Ids : RequestValid(i)
    /\ OneApply
    /\ OnlyValidIsApplied
    /\ ProjectAgrees

\* What a creation was sent with stays.
CreationsStay == \A content : FromCreation(content) => FromCreation(content)'

\* Every step but those of an apply or a creation that writes the project.
Quiet ==
    /\ UNCHANGED <<applied, meta, map, torn, mapless>>
    /\ \A i \in Ids : \/ req'[i] = req[i]
                      \/ /\ ~Applying(i) /\ ~Applying(i)'

\* A written row is there and holds what was written.
LEMMA WrittenRow ==
    ASSUME NEW row \in Rows \cup {None}, NEW content \in Drafts
    PROVE  /\ Written(row, content) # None
           /\ Written(row, content).content = content
  BY RowsTyped, NoneAssumption DEF Written

\* What applies do not touch keeps the project's rows in agreement.
LEMMA QuietKeeps ==
    ASSUME TypeOK, ProjectInv, Quiet, CreationsStay
    PROVE  OneApply' /\ OnlyValidIsApplied' /\ ProjectAgrees'
  <1>1. ASSUME NEW i \in Ids, Applying(i)'
        PROVE  req'[i] = req[i] /\ Applying(i)
    BY <1>1 DEF Quiet, Applying
  <1>2. ASSUME NEW i \in Ids, Applying(i)
        PROVE  Applying(i)'
    BY <1>2 DEF Quiet, Applying
  <1>3. ASSUME NEW i \in Ids, req'[i].pc = "map"
        PROVE  req'[i] = req[i]
    BY <1>1, <1>3 DEF Applying
  <1>4. OneApply'
    BY <1>1, <1>3 DEF OneApply, Quiet, ProjectInv
  <1>5. OnlyValidIsApplied'
    BY DEF OnlyValidIsApplied, Valid, Quiet, ProjectInv, CreationsStay
  <1>6. ProjectAgrees'
    BY <1>2 DEF ProjectAgrees, ContentOf, Quiet, ProjectInv
  <1> QED BY <1>4, <1>5, <1>6

\* A handler leaves a creation's draft alone: only an apply of the stored draft and a save
\* that is refused take over another one.
LEMMA ContentKept ==
    ASSUME TypeOK, NEW i \in Ids, RequestValid(i), Serve(i) \/ CallFails(i)
    PROVE  req[i].kind = "create" => req'[i].content = req[i].content
  <1> SUFFICES ASSUME req[i].kind = "create"
               PROVE  req'[i].content = req[i].content
    OBVIOUS
  <1> USE DEF TypeOK, Request
  <1>1. CASE Check(i)
    BY <1>1 DEF Check
  <1>2. CASE Find(i)
    <2>1. req[i].expected = 0
      BY DEF RequestValid
    <2> QED BY <1>2, <2>1 DEF Find
  <1>3. CASE Write(i)
    BY <1>3 DEF Write, Answer
  <1>4. CASE Meta(i)
    BY <1>4 DEF Meta, Goto
  <1>5. CASE FindApplied(i)
    BY <1>5 DEF FindApplied
  <1>6. CASE WriteApplied(i)
    BY <1>6 DEF WriteApplied, AfterSettings, Goto, Answer
  <1>7. CASE SaveMap(i) \/ CallFails(i)
    BY <1>7 DEF SaveMap, CallFails, Answer
  <1> QED BY <1>1, <1>2, <1>3, <1>4, <1>5, <1>6, <1>7 DEF Serve

\* So what a project was created from is known for good.
LEMMA CreationStays ==
    ASSUME TypeOK, NEW i \in Ids, RequestValid(i), Serve(i) \/ CallFails(i)
    PROVE  CreationsStay
  <1>1. \A j \in Ids : req[j].kind = "create" =>
          req'[j].kind = "create" /\ req'[j].content = req[j].content
    BY HandlerKeeps, ContentKept
  <1> QED BY <1>1 DEF CreationsStay, FromCreation

\* Nothing is applied at first.
LEMMA ProjectInit == Init => ProjectInv
  <1> SUFFICES ASSUME Init PROVE ProjectInv
    OBVIOUS
  <1>1. Sent = 1 .. 0
    BY DEF Init, Sent, NoRequest
  <1>2. Numbered
    BY <1>1 DEF Init, Numbered, NoRequest
  <1> QED BY <1>2 DEF Init, ProjectInv, RequestValid, OneApply, OnlyValidIsApplied,
                   ProjectAgrees, Applying, NoRequest

\* The next request is the one after those sent.
LEMMA NextIsUnsent ==
    ASSUME TypeOK, Numbered, NEW i \in Ids, NextRequest(i)
    PROVE  i \notin Sent /\ Sent = 1 .. (i - 1)
  <1>1. PICK n \in Nat : Sent = 1 .. n
    BY DEF Numbered
  <1>2. Cardinality(Sent) = n
    BY <1>1, FS_Interval
  <1> QED BY <1>1, <1>2 DEF NextRequest, Ids

\* Sending numbers requests one after the other; handlers do not renumber.
LEMMA NumberedNext == TypeOK /\ Numbered /\ [Next]_vars => Numbered'
  <1> SUFFICES ASSUME TypeOK, Numbered, [Next]_vars
               PROVE  Numbered'
    OBVIOUS
  <1>1. CASE UNCHANGED req
    BY <1>1 DEF Numbered, Sent
  <1>2. ASSUME NEW i \in Ids, Serve(i) \/ CallFails(i)
        PROVE  Numbered'
    <2>1. \A j \in Ids : req'[j].kind = req[j].kind
      BY <1>2, HandlerKeeps
    <2>2. Sent' = Sent
      BY <2>1 DEF Sent
    <2>3. req[i].pc # "unsent"
      BY <1>2 DEF Serve, Check, Find, Write, Meta, FindApplied, WriteApplied, SaveMap, CallFails
    <2>4. \A j \in Ids \ {i} : req'[j] = req[j]
      BY <1>2, HandlerKeeps
    <2> QED BY <2>2, <2>3, <2>4 DEF Numbered
  <1>3. ASSUME NEW i \in Ids, NEW q, NextRequest(i), req' = [req EXCEPT ![i] = q],
               q.kind # "none"
        PROVE  Numbered'
    <2>1. Sent' = Sent \cup {i}
      BY <1>3 DEF Sent, TypeOK
    <2>2. Sent' = 1 .. i
      BY <1>3, <2>1, NextIsUnsent DEF Ids
    <2>3. \A j \in Ids \ Sent' : req'[j].pc = "unsent"
      BY <1>3, <2>1 DEF Numbered, TypeOK
    <2> QED BY <2>2, <2>3 DEF Numbered, Ids
  <1>4. ASSUME NEW t \in Tabs, NEW kind \in {"save", "apply"}, Send(t, kind)
        PROVE  Numbered'
    <2> DEFINE q == [NoRequest EXCEPT !.kind = kind, !.content = form[t], !.basis = saw[t],
                                !.expected = IF kind = "save" THEN known[t] ELSE 0,
                                !.current = VersionOf(draft), !.withMap = kind = "apply",
                                !.pc = IF kind = "save" THEN "find" ELSE "check"]
    <2>1. PICK i \in Ids : NextRequest(i) /\ req' = [req EXCEPT ![i] = q]
      BY <1>4 DEF Send
    <2>2. q.kind # "none"
      BY DEF NoRequest
    <2> QED BY <1>3, <2>1, <2>2
  <1>5. ASSUME NEW call \in Calls, Create(call)
        PROVE  Numbered'
    <2> DEFINE q == [NoRequest EXCEPT !.kind = "create", !.content = call.content,
                                !.withMap = TRUE, !.pc = "find"]
    <2>1. PICK i \in Ids : NextRequest(i) /\ req' = [req EXCEPT ![i] = q]
      BY <1>5 DEF Create
    <2>2. q.kind # "none"
      BY DEF NoRequest
    <2> QED BY <1>3, <2>1, <2>2
  <1>6. ASSUME NEW call \in Calls, Call(call)
        PROVE  Numbered'
    <2> DEFINE q == [NoRequest EXCEPT !.kind = call.kind, !.content = call.content,
                                !.withMap = call.withMap,
                                !.pc = IF call.kind = "save" THEN "find" ELSE "check"]
    <2>1. PICK i \in Ids : NextRequest(i) /\ req' = [req EXCEPT ![i] = q]
      BY <1>6 DEF Call
    <2>2. q.kind # "none"
      BY CallsAssumption DEF NoRequest
    <2> QED BY <1>3, <2>1, <2>2
  <1> QED BY <1>1, <1>2, <1>4, <1>5, <1>6 DEF Next, vars, Open, Hear, GiveUp, Edit

\* A handler that goes on keeps its request valid.
LEMMA ServeValid ==
    ASSUME TypeOK, ProjectInv, NEW i \in Ids, Serve(i) \/ CallFails(i)
    PROVE  RequestValid(i)'
  <1>1. RequestValid(i)
    BY DEF ProjectInv
  <1>2. req'[i].kind = req[i].kind /\ req'[i].expected = req[i].expected
    BY HandlerKeeps
  <1>3. CASE req'[i].pc = "done"
    BY <1>1, <1>2, <1>3 DEF RequestValid
  <1>4. CASE Check(i)
    <2>1. CASE Answer(i, "error") \/ Answer(i, "invalid")
      BY <1>3, <2>1 DEF Answer, TypeOK, Request
    <2>2. CASE Valid(req[i].content) /\ req[i].kind = "apply" /\ Goto(i, "find")
      BY <1>1, <2>2 DEF Goto, RequestValid, TypeOK, Request
    <2>3. CASE /\ Valid(draft.content)
               /\ req' = [req EXCEPT ![i].pc = "meta", ![i].content = draft.content]
      <3>1. req'[i].pc = "meta" /\ req'[i].content = draft.content
        BY <2>3 DEF TypeOK, Request
      <3> QED BY <1>1, <1>2, <2>3, <3>1 DEF RequestValid, Valid
    <2> QED BY <1>4, <2>1, <2>2, <2>3 DEF Check
  <1>5. CASE Find(i)
    <2>1. CASE req' = [req EXCEPT ![i].pc = "write", ![i].read = VersionOf(draft)]
      BY <1>1, <1>5, <2>1 DEF Find, RequestValid, TypeOK, Request
    <2> QED BY <1>3, <1>5, <2>1 DEF Find, TypeOK, Request
  <1>6. CASE Write(i)
    <2>1. \/ req'[i].pc = "done"
          \/ /\ req'[i].pc \in {"meta", "findApplied"} /\ req'[i].content = req[i].content
             /\ req[i].kind = "create" \/ req[i].kind # "save"
      BY <1>6 DEF Write, AfterDraft, Answer, TypeOK, Request
    <2>2. req[i].kind \in {"save", "create"} \/ Valid(req[i].content)
      BY <1>1, <1>6 DEF Write, RequestValid
    <2> QED BY <1>1, <1>2, <1>3, <2>1, <2>2 DEF RequestValid, Valid
  <1>7. CASE Meta(i)
    <2>1. req'[i].pc = "findApplied" /\ req'[i].content = req[i].content
      BY <1>7 DEF Meta, Goto, TypeOK, Request
    <2> QED BY <1>1, <1>2, <1>7, <2>1 DEF Meta, RequestValid, Valid
  <1>8. CASE FindApplied(i)
    <2>1. req'[i].pc = "writeApplied" /\ req'[i].content = req[i].content
      BY <1>8 DEF FindApplied, TypeOK, Request
    <2> QED BY <1>1, <1>2, <1>8, <2>1 DEF FindApplied, RequestValid, Valid
  <1>9. CASE WriteApplied(i)
    <2>1. req'[i].pc = "done" \/ (req'[i].pc = "map" /\ req'[i].content = req[i].content)
      BY <1>9 DEF WriteApplied, AfterSettings, Goto, Answer, TypeOK, Request
    <2> QED BY <1>1, <1>2, <1>3, <1>9, <2>1 DEF WriteApplied, RequestValid, Valid
  <1>10. CASE SaveMap(i) \/ CallFails(i)
    BY <1>3, <1>10 DEF SaveMap, CallFails, Answer, TypeOK, Request
  <1> QED BY <1>4, <1>5, <1>6, <1>7, <1>8, <1>9, <1>10 DEF Serve

\* What a request under way writes may be applied.
LEMMA WritesAllowed ==
    ASSUME TypeOK, ProjectInv, NEW i \in Ids, Serve(i) \/ CallFails(i),
           req[i].pc \in {"meta", "findApplied", "writeApplied", "map"},
           NEW content, content = req[i].content
    PROVE  Valid(content) \/ FromCreation(content)'
  <1>1. RequestValid(i)
    BY DEF ProjectInv
  <1>2. CASE req[i].kind = "create"
    <2>1. FromCreation(content)
      BY <1>2 DEF FromCreation
    <2>2. CreationsStay
      BY <1>1, CreationStays
    <2> QED BY <2>1, <2>2 DEF CreationsStay
  <1> QED BY <1>1, <1>2 DEF RequestValid

\* Every step keeps the applied rows in agreement or is torn.
LEMMA ProjectNext == TypeOK /\ ProjectInv /\ [Next]_vars => ProjectInv'
  <1> SUFFICES ASSUME TypeOK, ProjectInv, [Next]_vars
               PROVE  ProjectInv'
    OBVIOUS
  <1>0. Numbered'
    BY NumberedNext DEF ProjectInv
  <1>1. CASE UNCHANGED req /\ UNCHANGED <<applied, meta, map, torn, mapless>>
    <2>1. Quiet
      BY <1>1 DEF Quiet
    <2>2. \A i \in Ids : RequestValid(i)'
      BY <1>1 DEF RequestValid, Valid, ProjectInv
    <2>3. CreationsStay
      BY <1>1 DEF CreationsStay, FromCreation
    <2> QED BY <1>0, <2>1, <2>2, <2>3, QuietKeeps DEF ProjectInv
  <1>2. ASSUME NEW i \in Ids, Serve(i) \/ CallFails(i)
        PROVE  ProjectInv'
    <2>1. /\ \A j \in Ids \ {i} : req'[j] = req[j]
          /\ req'[i].kind = req[i].kind /\ req'[i].withMap = req[i].withMap
      BY <1>2, HandlerKeeps
    <2>2. \A j \in Ids : RequestValid(j)'
      <3>1. ASSUME NEW j \in Ids \ {i}
            PROVE  RequestValid(j)'
        BY <2>1 DEF RequestValid, Valid, ProjectInv
      <3> QED BY <1>2, <3>1, ServeValid
    <2>3. RequestValid(i) /\ OneApply /\ OnlyValidIsApplied /\ ProjectAgrees
      BY DEF ProjectInv
    <2>4. CreationsStay
      BY <1>2, <2>3, CreationStays
    <2>0. PICK content : content = req[i].content
      OBVIOUS
    <2>5. req[i].pc \in {"meta", "findApplied", "writeApplied", "map"} =>
            Valid(content) \/ FromCreation(content)'
      BY <1>2, <2>0, WritesAllowed
    \* A step of an apply or a creation that goes on, and writes no row of the project.
    <2>6. ASSUME Applying(i), Applying(i)', UNCHANGED <<applied, meta, map, torn, mapless>>,
                 req'[i].content = req[i].content, req'[i].pc # "map"
          PROVE  ProjectInv'
      <3>1. \A j \in Ids : Applying(j)' <=> Applying(j)
        BY <2>1, <2>6 DEF Applying
      <3>2. /\ \A j \in Ids : req'[j].content = req[j].content
            /\ \A j \in Ids : req'[j].withMap = req[j].withMap
            /\ \A j \in Ids : req'[j].pc = "map" => req[j].pc = "map"
        BY <2>1, <2>6
      <3>3. OneApply'
        BY <2>3, <2>6, <3>1, <3>2 DEF OneApply
      <3>4. OnlyValidIsApplied'
        BY <2>3, <2>4, <2>6 DEF OnlyValidIsApplied, Valid, CreationsStay
      <3>5. ProjectAgrees'
        BY <2>6 DEF ProjectAgrees
      <3> QED BY <1>0, <2>2, <3>3, <3>4, <3>5 DEF ProjectInv
    \* A step after which the apply is torn, and nothing is written.
    <2>7. ASSUME torn', UNCHANGED <<applied, meta, map>>
          PROVE  ProjectInv'
      <3>1. OnlyValidIsApplied'
        BY <2>3, <2>4, <2>7 DEF OnlyValidIsApplied, Valid, CreationsStay
      <3> QED BY <1>0, <2>2, <2>7, <3>1 DEF ProjectInv, OneApply, ProjectAgrees
    \* A step outside of applying.
    <2>8. ASSUME ~Applying(i), ~Applying(i)', UNCHANGED <<applied, meta, map, torn, mapless>>
          PROVE  ProjectInv'
      <3>1. Quiet
        BY <2>1, <2>8 DEF Quiet
      <3> QED BY <1>0, <2>2, <2>4, <3>1, QuietKeeps DEF ProjectInv
    <2>9. CASE Check(i)
      <3>1. /\ ~Applying(i) /\ ~Applying(i)'
            /\ UNCHANGED <<applied, meta, map, torn, mapless>>
        BY <2>9 DEF Check, Applying, Goto, Answer, tables, TypeOK, Request
      <3> QED BY <2>8, <3>1
    <2>10. CASE Find(i)
      <3>1. UNCHANGED <<applied, meta, map, torn, mapless>>
        BY <2>10 DEF Find, tables
      <3>2. CASE req[i].kind = "create"
        <4>1. req[i].expected = 0
          BY <2>3, <3>2 DEF RequestValid
        <4>2. req'[i].pc = "write" /\ req'[i].content = req[i].content /\ req[i].pc = "find"
          BY <2>10, <4>1 DEF Find, TypeOK, Request
        <4>3. Applying(i) /\ Applying(i)'
          BY <2>1, <3>2, <4>2 DEF Applying
        <4> QED BY <2>6, <3>1, <4>2, <4>3
      <3>3. CASE req[i].kind # "create"
        <4>1. req[i].pc = "find" /\ req'[i].pc \in {"write", "done"}
          BY <2>10 DEF Find, TypeOK, Request
        <4>2. ~Applying(i) /\ ~Applying(i)'
          BY <2>1, <3>3, <4>1 DEF Applying
        <4> QED BY <2>8, <3>1, <4>2
      <3> QED BY <3>2, <3>3
    <2>11. CASE Write(i)
      <3>1. UNCHANGED <<applied, meta, map, mapless>> /\ req[i].pc = "write"
        BY <2>11 DEF Write
      <3>2. CASE req[i].kind = "create"
        <4>1. CASE torn'
          BY <2>7, <3>1, <4>1
        <4>2. CASE ~torn'
          <5>1. Applying(i)
            BY <3>1, <3>2 DEF Applying
          <5>2. /\ req'[i].pc = "findApplied" /\ req'[i].content = req[i].content
                /\ torn' = torn
            <6>1. /\ torn' = torn
                  /\ req' = [req EXCEPT ![i].version = draft'.version, ![i].read = 0,
                       ![i].pc = AfterDraft(req[i].kind),
                       ![i].answer = IF req[i].kind = "save" THEN "ok" ELSE @]
              BY <2>11, <4>2, <5>1 DEF Write
            <6> QED BY <3>2, <6>1 DEF AfterDraft, TypeOK, Request
          <5>3. Applying(i)'
            BY <5>2 DEF Applying
          <5> QED BY <2>6, <3>1, <5>1, <5>2, <5>3
        <4> QED BY <4>1, <4>2
      <3>3. CASE req[i].kind # "create"
        <4>1. req'[i].pc \in {"meta", "done"}
          BY <2>11, <3>3 DEF Write, AfterDraft, Answer, TypeOK, Request
        <4>2. ~Applying(i) /\ ~Applying(i)'
          BY <2>1, <3>1, <3>3, <4>1 DEF Applying
        <4>3. torn' = torn
          BY <2>11, <4>2 DEF Write, TypeOK
        <4> QED BY <2>8, <3>1, <4>2, <4>3
      <3> QED BY <3>2, <3>3
    <2>12. CASE Meta(i)
      <3>1. /\ req'[i].pc = "findApplied" /\ req'[i].content = req[i].content
            /\ req[i].pc = "meta" /\ meta' = req[i].content
            /\ applied' = applied /\ map' = map
            /\ torn' = \E j \in Ids \ {i} : Applying(j)
            /\ mapless' = ~req[i].withMap
        BY <2>12 DEF Meta, Goto, TypeOK, Request
      <3>2. Applying(i)'
        BY <3>1 DEF Applying
      <3>3. ASSUME NEW j \in Ids, ~torn', Applying(j)'
            PROVE  j = i
        BY <2>1, <3>1, <3>3 DEF Applying
      <3>4. ~req'[i].withMap => mapless'
        BY <2>1, <3>1
      <3>5. OneApply'
        <4>1. ASSUME NEW j \in Ids, ~torn', Applying(j)'
              PROVE  /\ meta' = req'[j].content
                     /\ ~req'[j].withMap => mapless'
                     /\ req'[j].pc # "map"
          BY <3>1, <3>3, <3>4, <4>1
        <4> QED BY <3>3, <4>1 DEF OneApply, Applying
      <3>6. OnlyValidIsApplied'
        BY <2>0, <2>3, <2>4, <2>5, <3>1 DEF OnlyValidIsApplied, Valid, CreationsStay
      <3>7. ProjectAgrees'
        BY <3>2 DEF ProjectAgrees
      <3> QED BY <1>0, <2>2, <3>5, <3>6, <3>7 DEF ProjectInv
    <2>13. CASE FindApplied(i)
      <3>1. /\ req'[i].pc = "writeApplied" /\ req'[i].content = req[i].content
            /\ req[i].pc = "findApplied"
            /\ UNCHANGED <<applied, meta, map, torn, mapless>>
        BY <2>13 DEF FindApplied, tables, TypeOK, Request
      <3>2. Applying(i) /\ Applying(i)'
        BY <3>1 DEF Applying
      <3> QED BY <2>6, <3>1, <3>2
    <2>14. CASE WriteApplied(i)
      <3>1. /\ req[i].pc = "writeApplied" /\ meta' = meta /\ map' = map /\ mapless' = mapless
        BY <2>14 DEF WriteApplied
      <3>2. req[i].content \in Drafts /\ applied \in Rows \cup {None}
        BY DEF TypeOK, Request
      <3>3. Applying(i)
        BY <3>1 DEF Applying
      <3>4. OnlyValidIsApplied'
        <4>1. \/ applied' = applied
              \/ applied' # None /\ applied'.content = req[i].content
          BY <2>14, <3>2, WrittenRow DEF WriteApplied
        <4> QED BY <2>0, <2>3, <2>4, <2>5, <3>1, <4>1 DEF OnlyValidIsApplied, Valid, CreationsStay
      <3>5. CASE torn'
        BY <1>0, <2>2, <3>4, <3>5 DEF ProjectInv, OneApply, ProjectAgrees
      <3>6. CASE ~torn'
        <4>1. /\ applied' = Written(applied, req[i].content)
              /\ AfterSettings(i)
              /\ ~torn
          BY <2>14, <3>6 DEF WriteApplied
        <4>2. applied' # None /\ applied'.content = req[i].content
          BY <3>2, <4>1, WrittenRow
        <4>3. meta = req[i].content /\ (~req[i].withMap => mapless)
          BY <2>3, <3>3, <4>1 DEF OneApply
        <4>4. ASSUME NEW j \in Ids, Applying(j)'
              PROVE  j = i
          BY <2>1, <2>3, <3>3, <4>1, <4>4 DEF OneApply, Applying
        <4>5. CASE Goto(i, "map")
          <5>1. req'[i].pc = "map" /\ req'[i].content = req[i].content
            BY <4>5 DEF Goto, TypeOK, Request
          <5>2. Applying(i)'
            BY <5>1 DEF Applying
          <5>3. OneApply'
            <6>1. ASSUME NEW j \in Ids, Applying(j)'
                  PROVE  /\ meta' = req'[j].content
                         /\ ~req'[j].withMap => mapless'
                         /\ applied' # None /\ applied'.content = req'[j].content
              BY <2>1, <3>1, <4>2, <4>3, <4>4, <5>1, <6>1
            <6> QED BY <4>4, <6>1 DEF OneApply, Applying
          <5>4. ProjectAgrees'
            BY <5>2 DEF ProjectAgrees
          <5> QED BY <1>0, <2>2, <3>4, <5>3, <5>4 DEF ProjectInv
        <4>6. CASE ~req[i].withMap /\ Answer(i, "ok")
          <5>1. req'[i].pc = "done"
            BY <4>6 DEF Answer, TypeOK, Request
          <5>2. ~Applying(i)'
            BY <5>1 DEF Applying
          <5>3. \A j \in Ids : ~Applying(j)'
            BY <4>4, <5>2
          <5>4. OneApply'
            BY <5>3 DEF OneApply, Applying
          <5>5. ProjectAgrees'
            BY <3>1, <4>2, <4>3, <4>6 DEF ProjectAgrees
          <5> QED BY <1>0, <2>2, <3>4, <5>4, <5>5 DEF ProjectInv
        <4> QED BY <4>1, <4>5, <4>6 DEF AfterSettings
      <3> QED BY <3>5, <3>6
    <2>15. CASE SaveMap(i)
      <3>1. /\ req[i].pc = "map" /\ req'[i].pc = "done"
            /\ map' = Written(map, req[i].content)
            /\ meta' = meta /\ applied' = applied /\ torn' = torn
        BY <2>15 DEF SaveMap, Answer, TypeOK, Request
      <3>2. map' # None /\ map'.content = req[i].content
        BY <3>1, WrittenRow DEF TypeOK, Request
      <3>3. Applying(i) /\ ~Applying(i)'
        BY <3>1 DEF Applying
      <3>4. ASSUME NEW j \in Ids, Applying(j)', ~torn
            PROVE  FALSE
        BY <2>1, <2>3, <3>3, <3>4 DEF OneApply, Applying
      <3>5. OneApply'
        BY <3>1, <3>4 DEF OneApply, Applying
      <3>6. OnlyValidIsApplied'
        BY <2>0, <2>3, <2>4, <2>5, <3>1, <3>2 DEF OnlyValidIsApplied, Valid, CreationsStay
      <3>7. ProjectAgrees'
        BY <2>3, <3>1, <3>2, <3>3 DEF ProjectAgrees, OneApply, ContentOf
      <3> QED BY <1>0, <2>2, <3>5, <3>6, <3>7 DEF ProjectInv
    <2>16. CASE CallFails(i)
      <3>1. /\ req'[i].pc = "done"
            /\ applied' = applied /\ meta' = meta /\ map' = map /\ mapless' = mapless
            /\ torn' = (torn \/ Applying(i))
        BY <2>16 DEF CallFails, Answer, TypeOK, Request
      <3>2. CASE Applying(i)
        BY <2>7, <3>1, <3>2
      <3>3. CASE ~Applying(i)
        <4>1. ~Applying(i)'
          BY <3>1 DEF Applying
        <4>2. torn' = torn
          BY <3>1, <3>3 DEF TypeOK
        <4> QED BY <2>8, <3>1, <3>3, <4>1, <4>2
      <3> QED BY <3>2, <3>3
    <2> QED BY <1>2, <2>9, <2>10, <2>11, <2>12, <2>13, <2>14, <2>15, <2>16 DEF Serve
  <1>3. ASSUME NEW i \in Ids, NEW q, NextRequest(i), req' = [req EXCEPT ![i] = q],
               q.pc = "check" \/ (q.pc = "find" /\ q.kind = "save"),
               q.kind # "create", UNCHANGED <<applied, meta, map, torn, mapless>>
        PROVE  ProjectInv'
    <2>1. req'[i] = q /\ \A j \in Ids \ {i} : req'[j] = req[j]
      BY <1>3 DEF TypeOK
    <2>2. req[i].pc = "unsent" /\ req[i].kind = "none"
      BY <1>3, NextIsUnsent DEF ProjectInv, Numbered, Sent
    <2>3. ~Applying(i) /\ ~Applying(i)'
      BY <1>3, <2>1, <2>2 DEF Applying
    <2>4. Quiet
      BY <1>3, <2>1, <2>3 DEF Quiet
    <2>5. \A j \in Ids : RequestValid(j)'
      BY <1>3, <2>1 DEF RequestValid, Valid, ProjectInv
    <2>6. CreationsStay
      BY <2>1, <2>2 DEF CreationsStay, FromCreation
    <2> QED BY <1>0, <2>4, <2>5, <2>6, QuietKeeps DEF ProjectInv
  <1>4. ASSUME NEW t \in Tabs, NEW kind \in {"save", "apply"}, Send(t, kind)
        PROVE  ProjectInv'
    <2> DEFINE q == [NoRequest EXCEPT !.kind = kind, !.content = form[t], !.basis = saw[t],
                                !.expected = IF kind = "save" THEN known[t] ELSE 0,
                                !.current = VersionOf(draft), !.withMap = kind = "apply",
                                !.pc = IF kind = "save" THEN "find" ELSE "check"]
    <2>1. PICK i \in Ids : NextRequest(i) /\ req' = [req EXCEPT ![i] = q]
      BY <1>4 DEF Send
    <2>2. (q.pc = "check" \/ (q.pc = "find" /\ q.kind = "save")) /\ q.kind # "create"
      BY DEF NoRequest
    <2> QED BY <1>3, <1>4, <2>1, <2>2 DEF Send, tables
  <1>5. ASSUME NEW call \in Calls, Call(call)
        PROVE  ProjectInv'
    <2> DEFINE q == [NoRequest EXCEPT !.kind = call.kind, !.content = call.content,
                                !.withMap = call.withMap,
                                !.pc = IF call.kind = "save" THEN "find" ELSE "check"]
    <2>1. PICK i \in Ids : NextRequest(i) /\ req' = [req EXCEPT ![i] = q]
      BY <1>5 DEF Call
    <2>2. (q.pc = "check" \/ (q.pc = "find" /\ q.kind = "save")) /\ q.kind # "create"
      BY <1>5 DEF NoRequest, Call
    <2> QED BY <1>3, <1>5, <2>1, <2>2 DEF Call, tables
  <1>6. ASSUME NEW call \in Calls, Create(call)
        PROVE  ProjectInv'
    <2> DEFINE q == [NoRequest EXCEPT !.kind = "create", !.content = call.content,
                                !.withMap = TRUE, !.pc = "find"]
    <2>1. PICK i \in Ids : NextRequest(i) /\ req' = [req EXCEPT ![i] = q]
      BY <1>6 DEF Create
    <2>2. /\ q.kind = "create" /\ q.pc = "find" /\ q.content = call.content
          /\ q.withMap = TRUE /\ q.expected = 0
      BY DEF NoRequest
    <2> HIDE DEF q
    <2>3. req'[i] = q /\ \A j \in Ids \ {i} : req'[j] = req[j] /\ req[j].pc = "unsent"
      BY <1>6, <2>1 DEF Create, TypeOK, ProjectInv, Numbered
    <2>4. /\ \A j \in Ids : req[j].kind = "none"
          /\ meta' = call.content
          /\ applied' = applied /\ map' = map
      BY <1>6 DEF Create, Sent
    <2>5. ASSUME NEW j \in Ids, Applying(j)'
          PROVE  j = i
      BY <2>3, <2>4, <2>5 DEF Applying
    <2>6. Applying(i)'
      BY <2>2, <2>3 DEF Applying
    <2>7. OneApply'
      <3>1. ASSUME NEW j \in Ids, Applying(j)'
            PROVE  meta' = req'[j].content /\ req'[j].withMap /\ req'[j].pc # "map"
        BY <2>2, <2>3, <2>4, <2>5, <3>1
      <3> QED BY <2>5, <3>1 DEF OneApply, Applying
    <2>8. FromCreation(meta)'
      BY <2>2, <2>3, <2>4 DEF FromCreation
    <2>9. OnlyValidIsApplied'
      <3>1. \A content : ~FromCreation(content)
        BY <2>4 DEF FromCreation
      <3> QED BY <2>4, <2>8, <3>1 DEF OnlyValidIsApplied, Valid, ProjectInv
    <2>10. ProjectAgrees'
      BY <2>6 DEF ProjectAgrees
    <2>11. \A j \in Ids : RequestValid(j)'
      BY <2>2, <2>3 DEF RequestValid, Valid, ProjectInv
    <2> QED BY <1>0, <2>7, <2>9, <2>10, <2>11 DEF ProjectInv
  <1> QED BY <1>1, <1>2, <1>4, <1>5, <1>6
          DEF Next, vars, tables, Open, Hear, GiveUp, Edit

\* No apply brings anything incomplete into the project, and unless an apply or the creation
\* was torn its name, its settings and the map it was to make come from one draft:
\* applyCreationToProject() validates before it writes, and a later apply that runs alone
\* repairs what an earlier one left.
THEOREM OneDraft == Spec => []ProjectIsOneDraft
  <1>1. Init => TypeOK /\ ProjectInv
    BY TypeInit, ProjectInit
  <1>2. TypeOK /\ ProjectInv /\ [Next]_vars => TypeOK' /\ ProjectInv'
    BY TypeNext, ProjectNext
  <1>3. ProjectInv => ProjectIsOneDraft
    BY DEF ProjectInv, ProjectIsOneDraft
  <1> QED BY <1>1, <1>2, <1>3, PTL DEF Spec

-----------------------------------------------------------------------------
(* How projects come into being: their slugs.                              *)

\* A numbered slug is the name's, a dash and the number, cut to the width.
LEMMA CandidateShape ==
    ASSUME NEW n \in Names, NEW k \in Projects!Suffixes
    PROVE  /\ Base[n] \in Seq(Chars) /\ Len(Base[n]) \in Nat /\ Len(Base[n]) <= Width
           /\ Projects!Candidate(n, k) \in Projects!Slugs
           /\ Len(Projects!Candidate(n, k)) = IF Len(Base[n]) + 2 < Width THEN Len(Base[n]) + 2
                   ELSE Width
           /\ \A m \in 1 .. Len(Projects!Candidate(n, k)) :
                Projects!Candidate(n, k)[m] = IF m <= Len(Base[n]) THEN Base[n][m]
                                     ELSE IF m = Len(Base[n]) + 1 THEN "-" ELSE Digit[k]
<1> DEFINE whole == Base[n] \o <<"-", Digit[k]>>
           cut == IF Len(whole) < Width THEN Len(whole) ELSE Width
<1>1. Base[n] \in Seq(Chars) /\ Len(Base[n]) \in Nat /\ Len(Base[n]) <= Width /\ Width \in Nat
  BY ProjectsAssumption DEF Projects!ConstantsAssumption, Projects!Slugs
<1>2. "-" \in Chars /\ Digit[k] \in Chars
  BY ProjectsAssumption DEF Projects!ConstantsAssumption
<1>3. <<"-", Digit[k]>> \in Seq(Chars)
  BY <1>2
<1>4. whole \in Seq(Chars) /\ Len(whole) = Len(Base[n]) + 2
  BY <1>1, <1>3
<1>5. \A m \in 1 .. Len(whole) : whole[m] = IF m <= Len(Base[n]) THEN Base[n][m]
                                     ELSE IF m = Len(Base[n]) + 1 THEN "-" ELSE Digit[k]
  BY <1>1, <1>3
<1>6. cut \in Nat /\ cut <= Len(whole) /\ cut <= Width
  BY <1>1, <1>4
<1> HIDE DEF whole
<1>7. /\ SubSeq(whole, 1, cut) \in Seq(Chars)
      /\ Len(SubSeq(whole, 1, cut)) = cut
      /\ \A m \in 1 .. cut : SubSeq(whole, 1, cut)[m] = whole[m]
  BY <1>4, <1>6
<1>8. Projects!Candidate(n, k) = SubSeq(whole, 1, cut)
  BY DEF Projects!Candidate, whole
<1> QED
  BY <1>1, <1>4, <1>5, <1>6, <1>7, <1>8 DEF Projects!Slugs

\* With room for a number, numbered slugs tell the numbers and are not the plain one.
LEMMA CandidatesApart ==
    ASSUME NEW n \in Names, Projects!HasRoom(n), NEW j \in Projects!Suffixes
    PROVE  /\ Projects!Candidate(n, j) # Base[n]
           /\ \A k \in Projects!Suffixes : Projects!Candidate(n, j) = Projects!Candidate(n, k)
                   => j = k
<1> DEFINE last == Len(Base[n]) + 2
<1>1. Len(Base[n]) \in Nat /\ last <= Width /\ Width \in Nat
  BY CandidateShape, ProjectsAssumption DEF Projects!HasRoom, Projects!ConstantsAssumption
<1>2. ASSUME NEW k \in Projects!Suffixes
      PROVE  Len(Projects!Candidate(n, k)) = last /\ Projects!Candidate(n, k)[last] = Digit[k]
  <2>1. Len(Projects!Candidate(n, k)) = last
    BY <1>1, CandidateShape
  <2>2. last \in 1 .. Len(Projects!Candidate(n, k)) /\ ~ (last <= Len(Base[n]))
        /\ last # Len(Base[n]) + 1
    BY <1>1, <2>1
  <2> QED
    BY <2>1, <2>2, CandidateShape
<1>3. Projects!Candidate(n, j) # Base[n]
  BY <1>1, <1>2
<1>4. ASSUME NEW k \in Projects!Suffixes, Projects!Candidate(n, j) = Projects!Candidate(n, k)
      PROVE  j = k
  BY <1>2, <1>4, ProjectsAssumption DEF Projects!ConstantsAssumption
<1> QED
  BY <1>3, <1>4

\* Without, they are all the same.
LEMMA CandidatesAlike ==
    ASSUME NEW n \in Names, ~Projects!HasRoom(n), NEW j \in Projects!Suffixes,
            NEW k \in Projects!Suffixes
    PROVE  Projects!Candidate(n, j) = Projects!Candidate(n, k)
<1>1. Len(Base[n]) \in Nat /\ Width \in Nat /\ Len(Base[n]) + 2 > Width
  BY CandidateShape, ProjectsAssumption DEF Projects!HasRoom, Projects!ConstantsAssumption
<1>2. Len(Projects!Candidate(n, j)) = Width /\ Len(Projects!Candidate(n, k)) = Width
  BY <1>1, CandidateShape
<1>3. ASSUME NEW m \in 1 .. Width
      PROVE  Projects!Candidate(n, j)[m] = Projects!Candidate(n, k)[m]
  <2>1. m <= Len(Base[n]) + 1
    BY <1>1
  <2>2. \A i \in Projects!Suffixes : Len(Projects!Candidate(n, i)) = Width =>
          Projects!Candidate(n, i)[m] = IF m <= Len(Base[n]) THEN Base[n][m] ELSE "-"
    BY <1>1, <2>1, CandidateShape
  <2> QED
    BY <1>2, <2>2
<1>4. Projects!Candidate(n, j) \in Seq(Chars) /\ Projects!Candidate(n, k) \in Seq(Chars)
  BY CandidateShape DEF Projects!Slugs
<1> QED
  BY <1>2, <1>3, <1>4, SeqEqual

-----------------------------------------------------------------------------
(* The invariant.                                                          *)

\* Requests are numbered as they are sent.
CreationsNumbered == \E n \in 0 .. Budget2 : Projects!Sent = 1 .. n

\* The steps at which a request has no workspace yet.
Looking == {"unsent", "workspace", "insertWorkspace"}

\* What a request holds at each of its steps.
Shape(i) ==
    /\ creation[i].kind = "none" <=> creation[i].pc = "unsent"
    /\ creation[i].pc \in {"workspace", "insertWorkspace"}
            => creation[i].kind \in {"workspace", "assistant"}
    /\ creation[i].pc \in Looking => creation[i].slug = Base[creation[i].name]
            /\ creation[i].suffix = 2
    /\ creation[i].pc \in {"slug", "insert"} => creation[i].ws \in DOMAIN workspaces
    /\ creation[i].pc \in Looking \cup {"slug", "insert"} => projects[i] = None
    /\ creation[i].pc \in Projects!Parts => projects[i] # None
    /\ creation[i].pc # "done" => creation[i].answer = "none"
    /\ projects[i] # None => projects[i].ws = creation[i].ws
            /\ projects[i].slug = creation[i].slug
    /\ creation[i].kind = "assistant" => creation[i].target = primarySlug[creation[i].user]
    /\ creation[i].kind = "workspace" => creation[i].target \in WorkspaceSlugs

\* The unique key on workspaces.slug.
UniqueSlugs ==
    \A v, w \in DOMAIN workspaces : workspaces[v].slug = workspaces[w].slug => v = w

\* A workspace has the slug of its owner's address, or its owner asked for another one.
Origin ==
    \A w \in DOMAIN workspaces :
      \/ workspaces[w].slug = primarySlug[workspaces[w].owner]
      \/ \E i \in Projects!Sent : creation[i].user = workspaces[w].owner
              /\ creation[i].kind = "workspace"

\* The plain slug and the numbers below j are in use.
UsedBelow(w, n, j) ==
    /\ Projects!Taken(w, Base[n])
    /\ \A m \in 2 .. (j - 1) : Projects!Taken(w, Projects!Candidate(n, m))

\* A request looks slugs up in turn, and goes past those in use only.
Counted(i) ==
    \/ creation[i].slug = Base[creation[i].name] /\ creation[i].suffix = 2
    \/ \E j \in Projects!Suffixes :
         /\ creation[i].slug = Projects!Candidate(creation[i].name, j)
                 /\ creation[i].suffix = Projects!After(j)
         /\ UsedBelow(creation[i].ws, creation[i].name, j)

\* Requests under way together have met.
MetTogether == \A i, j \in Projects!Running : i # j => i \in met

\* What a request under way alone has read is still so.
KnowsAlone(i) ==
    /\ creation[i].pc = "insertWorkspace" =>
         IF creation[i].kind = "assistant" THEN Projects!Owned(creation[i].user) = {}
                                      ELSE ~Projects!WorkspaceTaken(creation[i].target)
    /\ creation[i].pc = "insert" => ~Projects!Taken(creation[i].ws, creation[i].slug)

\* The inductive invariant of ProjectCreation.
CreationInv ==
    /\ Projects!TypeOK
    /\ CreationsNumbered
    /\ \A i \in Projects!Ids : Shape(i) /\ Counted(i)
    /\ UniqueSlugs /\ Origin /\ MetTogether
    /\ \A i \in Projects!Running : i \notin met => KnowsAlone(i)
    /\ Projects!LoneCreationSucceeds

-----------------------------------------------------------------------------

\* The instance's Cardinality is the one of FiniteSets.
LEMMA SameCardinality == ASSUME NEW S PROVE Projects!Cardinality(S) = Cardinality(S)
  BY Zenon DEF Cardinality, Projects!Cardinality

\* An unsent creation has the plain slug of its name, and the first number to try.
LEMMA NoCreationTyped ==
    /\ Projects!NoRequest \in Projects!Request
    /\ Projects!NoRequest.kind = "none" /\ Projects!NoRequest.pc = "unsent"
            /\ Projects!NoRequest.ws = 0
    /\ Projects!NoRequest.slug = Base[Projects!NoRequest.name] /\ Projects!NoRequest.suffix = 2
    /\ Projects!NoRequest.answer = "none" /\ Projects!NoRequest.target = None
<1> DEFINE u == CHOOSE x \in Users : TRUE
           n == CHOOSE x \in Names : TRUE
<1>1. u \in Users /\ n \in Names
  BY ProjectsAssumption DEF Projects!ConstantsAssumption
<1> HIDE DEF u, n
<1>2. Base[n] \in Projects!Slugs /\ 2 \in Projects!Suffixes
  BY <1>1, ProjectsAssumption DEF Projects!ConstantsAssumption, Projects!Suffixes
<1>3. Projects!NoRequest = [user |-> u, kind |-> "none", name |-> n, pc |-> "unsent", ws |-> 0,
         target |-> None, slug |-> Base[n], suffix |-> 2, answer |-> "none"]
  BY DEF Projects!NoRequest, u, n
<1> QED
  BY <1>1, <1>2, <1>3 DEF Projects!Request, Projects!Kinds, Projects!Steps, Projects!Answers

\* The creations sent are counted by their numbers.
LEMMA SentFinite ==
    ASSUME CreationsNumbered
    PROVE  /\ IsFiniteSet(Projects!Sent) /\ Cardinality(Projects!Sent) \in 0 .. Budget2
           /\ Projects!Sent = 1 .. Cardinality(Projects!Sent)
<1>1. PICK n \in 0 .. Budget2 : Projects!Sent = 1 .. n
  BY DEF CreationsNumbered
<1>2. Budget2 \in Nat
  BY ProjectsAssumption DEF Projects!ConstantsAssumption
<1> QED
  BY <1>1, <1>2, FS_Interval

\* What a step of a handler may touch.
LEMMA Served ==
    ASSUME Projects!TypeOK, NEW i \in Projects!Ids, Projects!Serve(i) \/ Projects!CallFails(i)
    PROVE  /\ \A j \in Projects!Ids \ {i} : creation'[j] = creation[j]
            /\ projects'[j] = projects[j]
           /\ DOMAIN creation' = Projects!Ids /\ DOMAIN projects' = Projects!Ids
           /\ creation[i].pc \notin {"unsent", "done"} \/ i \in Projects!Running
           /\ creation'[i].user = creation[i].user /\ creation'[i].kind = creation[i].kind
           /\ creation'[i].name = creation[i].name /\ creation'[i].target = creation[i].target
           /\ creation'[i].pc # "unsent"
           /\ primarySlug' = primarySlug /\ met' = met
  <1> USE DEF Projects!Goto, Projects!Answer
  <1>1. CASE Projects!FindWorkspace(i)
    BY <1>1 DEF Projects!FindWorkspace, Projects!TypeOK, Projects!Request
  <1>2. CASE Projects!InsertWorkspace(i)
    BY <1>2 DEF Projects!InsertWorkspace, Projects!Inserted, Projects!TypeOK, Projects!Request
  <1>3. CASE Projects!LookUp(i)
    BY <1>3 DEF Projects!LookUp, Projects!TypeOK, Projects!Request
  <1>4. CASE Projects!InsertProject(i)
    BY <1>4 DEF Projects!InsertProject, Projects!TypeOK, Projects!Request
  <1>5. CASE Projects!Fill(i)
    <2>1. /\ projects' = [projects EXCEPT ![i].has = @ \cup {creation[i].pc}]
          /\ primarySlug' = primarySlug /\ met' = met
      BY <1>5 DEF Projects!Fill
    <2>2. creation[i].pc \notin {"unsent", "done"}
            /\ \E step \in Projects!Steps, what \in Projects!Answers :
            /\ step # "unsent"
            /\ creation' = [creation EXCEPT ![i].pc = step]
                    \/ creation' = [creation EXCEPT ![i].pc = step, ![i].answer = what]
      BY <1>5 DEF Projects!Fill, Projects!Parts, Projects!Steps, Projects!Answers
    <2> QED
      BY <2>1, <2>2 DEF Projects!TypeOK, Projects!Request
  <1>6. CASE Projects!CallFails(i)
    BY <1>6 DEF Projects!CallFails, Projects!TypeOK, Projects!Request
  <1> QED
    BY <1>1, <1>2, <1>3, <1>4, <1>5, <1>6 DEF Projects!Serve

\* What a request begins with.
LEMMA SendEffect ==
    ASSUME CreationInv, NEW u \in Users, NEW kind \in {"assistant", "project", "workspace"},
           NEW n \in Names, Projects!Send(u, kind, n)
    PROVE  \E i \in Projects!Ids, w \in Nat, t \in WorkspaceSlugs \cup {None},
            q \in Projects!Request :
             /\ Projects!Sent = 1 .. (i - 1) /\ i \notin Projects!Sent
             /\ creation' = [creation EXCEPT ![i] = q]
             /\ q.user = u /\ q.kind = kind /\ q.name = n /\ q.ws = w /\ q.target = t
             /\ q.slug = Base[n] /\ q.suffix = 2 /\ q.answer = "none"
             /\ q.pc = IF kind = "project" THEN "slug" ELSE "workspace"
             /\ kind = "project" => w \in DOMAIN workspaces
             /\ t \in Projects!Targets(u, kind)
             /\ met' = IF Projects!Running = {} THEN met ELSE met \cup Projects!Running \cup {i}
  <1> DEFINE i == Cardinality(Projects!Sent) + 1
  <1>1. Cardinality(Projects!Sent) \in Nat /\ Projects!Sent = 1 .. Cardinality(Projects!Sent)
    BY SentFinite DEF CreationInv
  <1>2. lost \in Nat /\ Budget2 \in Nat
    BY ProjectsAssumption DEF CreationInv, Projects!TypeOK, Projects!ConstantsAssumption
  <1>3. Cardinality(Projects!Sent) + lost < Budget2
    BY SameCardinality DEF Projects!Send, Projects!InBudget
  <1>4. i \in Projects!Ids /\ Projects!Sent = 1 .. (i - 1) /\ i \notin Projects!Sent
    BY <1>1, <1>2, <1>3 DEF Projects!Ids
  <1>5. PICK w \in (IF kind = "project" THEN Projects!Owned(u) ELSE {0}),
          t \in Projects!Targets(u, kind) :
          creation' = [creation EXCEPT ![i] =
                  [Projects!NoRequest EXCEPT
                    !.user = u, !.kind = kind, !.name = n, !.ws = w, !.target = t,
                    !.slug = Base[n],
                    !.pc = IF kind = "project" THEN "slug" ELSE "workspace"]]
    BY SameCardinality DEF Projects!Send
  <1>6. w \in Nat /\ (kind = "project" => w \in DOMAIN workspaces)
    BY DEF Projects!Owned, CreationInv, Projects!TypeOK
  <1>7. t \in WorkspaceSlugs \cup {None}
    BY DEF Projects!Targets, CreationInv, Projects!TypeOK
  <1>8. PICK p \in Projects!Steps : p = IF kind = "project" THEN "slug" ELSE "workspace"
    BY DEF Projects!Steps
  <1>9. Base[n] \in Projects!Slugs
    BY ProjectsAssumption DEF Projects!ConstantsAssumption
  <1> DEFINE q == [Projects!NoRequest EXCEPT
                    !.user = u, !.kind = kind, !.name = n, !.ws = w, !.target = t,
                    !.slug = Base[n], !.pc = p]
  <1>10. /\ q \in Projects!Request
         /\ q.user = u /\ q.kind = kind /\ q.name = n /\ q.ws = w /\ q.target = t
         /\ q.slug = Base[n] /\ q.suffix = 2 /\ q.answer = "none" /\ q.pc = p
    BY <1>6, <1>7, <1>8, <1>9, NoCreationTyped DEF Projects!Request, Projects!Kinds
  <1>11. creation' = [creation EXCEPT ![i] = q]
    BY <1>5, <1>8
  <1>12. met' = IF Projects!Running = {} THEN met ELSE met \cup Projects!Running \cup {i}
    BY SameCardinality DEF Projects!Send
  <1> HIDE DEF i, q
  <1> QED
    BY <1>4, <1>6, <1>7, <1>8, <1>10, <1>11, <1>12

-----------------------------------------------------------------------------
(* Types.                                                                  *)

\* The types hold before the first creation.
LEMMA CreationTypeInit == Projects!Init => Projects!TypeOK
<1> SUFFICES ASSUME Projects!Init PROVE Projects!TypeOK
  OBVIOUS
<1>1. workspaces \in Seq(Projects!Workspace) /\ lost \in 0 .. Budget2
  BY ProjectsAssumption DEF Projects!Init, Projects!ConstantsAssumption
<1> QED
  BY <1>1, NoCreationTyped DEF Projects!Init, Projects!TypeOK

\* An inserted workspace is the last one.
LEMMA InsertedWorkspace ==
    ASSUME CreationInv, NEW i \in Projects!Ids, creation[i].pc = "insertWorkspace",
            Projects!Inserted(i)
    PROVE  /\ workspaces' \in Seq(Projects!Workspace)
           /\ Len(workspaces) \in Nat /\ Len(workspaces') = Len(workspaces) + 1
           /\ DOMAIN workspaces = 1 .. Len(workspaces)
           /\ DOMAIN workspaces' = 1 .. Len(workspaces')
           /\ \A w \in DOMAIN workspaces : workspaces'[w] = workspaces[w]
           /\ workspaces'[Len(workspaces')].slug = creation[i].target
           /\ workspaces'[Len(workspaces')].owner = creation[i].user
<1>1. creation[i].target \in WorkspaceSlugs /\ creation[i].user \in Users
  BY DEF CreationInv, Shape, Projects!TypeOK, Projects!Request
<1>2. workspaces \in Seq(Projects!Workspace)
  BY DEF CreationInv, Projects!TypeOK
<1> DEFINE row == [slug |-> creation[i].target, owner |-> creation[i].user]
<1>3. row \in Projects!Workspace /\ row.slug = creation[i].target /\ row.owner = creation[i].user
  BY <1>1 DEF Projects!Workspace
<1>4. workspaces' = Append(workspaces, row)
  BY DEF Projects!Inserted
<1> HIDE DEF row
<1> QED
  BY <1>2, <1>3, <1>4, AppendProperties

\* A set of numbers has a least element.
LEMMA LeastElement ==
    ASSUME NEW S \in SUBSET Nat, S # {}
    PROVE  \E m \in S : \A n \in S : m <= n
<1> DEFINE R == OpToRel(<, Nat)
<1>1. IsWellFoundedOn(R, Nat)
  BY NatLessThanWellFounded, Zenon
<1>2. PICK m \in S : \A n \in S : ~ (<<n, m>> \in R)
  BY <1>1, WFMin, Zenon
<1>3. \A n \in S : ~ (n < m)
  BY <1>2 DEF OpToRel
<1> QED
  BY <1>3

-----------------------------------------------------------------------------
(* What each step does to its request.                                     *)

\* The oldest of a user's workspaces is one of them.
LEMMA Oldest ==
    ASSUME CreationInv, NEW u \in Users, Projects!Owned(u) # {}
    PROVE  (CHOOSE w \in Projects!Owned(u) : \A v \in Projects!Owned(u) : w <= v)
            \in Projects!Owned(u)
<1>1. Projects!Owned(u) \in SUBSET Nat
  BY DEF CreationInv, Projects!TypeOK, Projects!Owned
<1>2. \E w \in Projects!Owned(u) : \A v \in Projects!Owned(u) : w <= v
  BY <1>1, LeastElement
<1> QED
  BY <1>2

\* FindWorkspace: a conflict, a workspace to insert, or the oldest one.
LEMMA FindEffect ==
    ASSUME CreationInv, NEW i \in Projects!Ids, Projects!FindWorkspace(i)
    PROVE  /\ UNCHANGED <<workspaces, projects, lost>>
           /\ creation[i].pc = "workspace" /\ creation' = [creation EXCEPT ![i] = creation'[i]]
           /\ creation'[i].slug = creation[i].slug /\ creation'[i].suffix = creation[i].suffix
           /\ \/ /\ creation'[i].pc = "done" /\ creation'[i].ws = creation[i].ws
                 /\ creation'[i].answer = "conflict"
              \/ /\ creation'[i].pc = "insertWorkspace" /\ creation'[i].ws = creation[i].ws
                 /\ creation'[i].answer = creation[i].answer
                 /\ IF creation[i].kind = "assistant" THEN Projects!Owned(creation[i].user) = {}
                                                 ELSE ~Projects!WorkspaceTaken(creation[i].target)
              \/ /\ creation'[i].pc = "slug" /\ creation'[i].ws \in DOMAIN workspaces
                 /\ creation'[i].ws \in Nat /\ creation'[i].answer = creation[i].answer
                 /\ creation[i].kind = "assistant"
  <1>1. creation \in [Projects!Ids -> Projects!Request] /\ creation[i].user \in Users
    BY DEF CreationInv, Projects!TypeOK, Projects!Request
  <1>2. UNCHANGED <<workspaces, projects, lost>> /\ creation[i].pc = "workspace"
    BY DEF Projects!FindWorkspace
  <1>3. CASE Projects!Answer(i, "conflict")
    BY <1>1, <1>2, <1>3 DEF Projects!Answer, Projects!Request
  <1>4. CASE /\ Projects!Goto(i, "insertWorkspace")
             /\ IF creation[i].kind = "assistant" THEN Projects!Owned(creation[i].user) = {}
                                             ELSE ~Projects!WorkspaceTaken(creation[i].target)
    BY <1>1, <1>2, <1>4 DEF Projects!Goto, Projects!Request
  <1>5. CASE /\ Projects!Owned(creation[i].user) # {} /\ creation[i].kind = "assistant"
             /\ creation' = [creation EXCEPT ![i].pc = "slug",
                              ![i].ws = CHOOSE w \in Projects!Owned(creation[i].user) :
                                          \A v \in Projects!Owned(creation[i].user) : w <= v]
    <2>1. PICK first : first = CHOOSE w \in Projects!Owned(creation[i].user) :
                                 \A v \in Projects!Owned(creation[i].user) : w <= v
      OBVIOUS
    <2>2. first \in Projects!Owned(creation[i].user)
      BY <1>1, <1>5, <2>1, Oldest
    <2>3. first \in Nat /\ first \in DOMAIN workspaces
      BY <2>2 DEF Projects!Owned, CreationInv, Projects!TypeOK
    <2>4. creation' = [creation EXCEPT ![i].pc = "slug", ![i].ws = first]
      BY <1>5, <2>1
    <2>5. /\ creation' = [creation EXCEPT ![i] = creation'[i]]
          /\ creation'[i] = [creation[i] EXCEPT !.pc = "slug", !.ws = first]
      BY <1>1, <2>4
    <2>6. /\ creation'[i].slug = creation[i].slug /\ creation'[i].suffix = creation[i].suffix
          /\ creation'[i].pc = "slug" /\ creation'[i].ws = first
                  /\ creation'[i].answer = creation[i].answer
      BY <1>1, <2>5 DEF Projects!Request
    <2> QED
      BY <1>2, <1>5, <2>3, <2>5, <2>6
  <1> QED
    BY <1>3, <1>4, <1>5 DEF Projects!FindWorkspace

\* InsertWorkspace: a duplicate slug, or a new workspace.
LEMMA InsertEffect ==
    ASSUME CreationInv, NEW i \in Projects!Ids, Projects!InsertWorkspace(i)
    PROVE  /\ UNCHANGED <<projects, lost>>
           /\ creation[i].pc = "insertWorkspace"
                   /\ creation' = [creation EXCEPT ![i] = creation'[i]]
           /\ creation'[i].slug = creation[i].slug /\ creation'[i].suffix = creation[i].suffix
           /\ \/ /\ Projects!WorkspaceTaken(creation[i].target) /\ workspaces' = workspaces
                 /\ creation'[i].pc = "done" /\ creation'[i].ws = creation[i].ws
                 /\ creation'[i].answer = "duplicate"
              \/ /\ ~Projects!WorkspaceTaken(creation[i].target) /\ Projects!Inserted(i)
                 /\ creation'[i].ws = Len(workspaces')
                 /\ \/ /\ creation'[i].pc = "slug" /\ creation'[i].answer = creation[i].answer
                       /\ creation[i].kind # "workspace"
                    \/ creation'[i].pc = "done" /\ creation'[i].answer = "ok"
  <1>1. creation \in [Projects!Ids -> Projects!Request]
    BY DEF CreationInv, Projects!TypeOK
  <1>2. UNCHANGED <<projects, lost>> /\ creation[i].pc = "insertWorkspace"
    BY DEF Projects!InsertWorkspace
  <1>3. CASE Projects!WorkspaceTaken(creation[i].target)
    BY <1>1, <1>2, <1>3 DEF Projects!InsertWorkspace, Projects!Answer, Projects!Request
  <1>4. CASE ~Projects!WorkspaceTaken(creation[i].target)
    <2>1. Projects!Inserted(i)
      BY <1>4 DEF Projects!InsertWorkspace
    <2>2. PICK n : n = Len(workspaces')
      OBVIOUS
    <2>3. creation' = [creation EXCEPT ![i].ws = n,
                 ![i].pc = IF creation[i].kind = "workspace" THEN "done" ELSE "slug",
                 ![i].answer = IF creation[i].kind = "workspace" THEN "ok" ELSE @]
      BY <2>1, <2>2 DEF Projects!Inserted
    <2> QED
      BY <1>1, <1>2, <1>4, <2>1, <2>2, <2>3 DEF Projects!Request
  <1> QED
    BY <1>3, <1>4

\* Numbers stay within their bound.
LEMMA AfterTyped ==
    ASSUME NEW k \in Projects!Suffixes
    PROVE  Projects!After(k) \in Projects!Suffixes
  BY ProjectsAssumption DEF Projects!After, Projects!Suffixes, Projects!ConstantsAssumption

\* LookUp: the next number, or a slug that is free.
LEMMA LookUpEffect ==
    ASSUME CreationInv, NEW i \in Projects!Ids, Projects!LookUp(i)
    PROVE  /\ UNCHANGED <<workspaces, projects, lost>>
           /\ creation[i].pc = "slug" /\ creation' = [creation EXCEPT ![i] = creation'[i]]
           /\ creation'[i].ws = creation[i].ws /\ creation'[i].answer = creation[i].answer
           /\ \/ /\ Projects!Taken(creation[i].ws, creation[i].slug) /\ creation'[i].pc = "slug"
                 /\ creation'[i].slug = Projects!Candidate(creation[i].name, creation[i].suffix)
                 /\ creation'[i].suffix = Projects!After(creation[i].suffix)
              \/ /\ ~Projects!Taken(creation[i].ws, creation[i].slug)
                      /\ creation'[i].pc = "insert"
                 /\ creation'[i].slug = creation[i].slug
                         /\ creation'[i].suffix = creation[i].suffix
  <1>1. creation \in [Projects!Ids -> Projects!Request]
    BY DEF CreationInv, Projects!TypeOK
  <1> QED
    BY <1>1 DEF Projects!LookUp, Projects!Goto, Projects!Request

\* InsertProject: a duplicate slug, or a new project under the slug that was free.
LEMMA InsertProjectEffect ==
    ASSUME CreationInv, NEW i \in Projects!Ids, Projects!InsertProject(i)
    PROVE  /\ UNCHANGED <<workspaces, lost>>
           /\ creation[i].pc = "insert" /\ creation' = [creation EXCEPT ![i] = creation'[i]]
           /\ creation'[i].ws = creation[i].ws /\ creation'[i].slug = creation[i].slug
           /\ creation'[i].suffix = creation[i].suffix
           /\ \/ /\ Projects!Taken(creation[i].ws, creation[i].slug) /\ projects' = projects
                 /\ creation'[i].pc = "done" /\ creation'[i].answer = "duplicate"
              \/ /\ ~Projects!Taken(creation[i].ws, creation[i].slug)
                 /\ projects' = [projects EXCEPT ![i] = projects'[i]]
                 /\ projects'[i] \in Projects!Project /\ projects'[i] # None
                 /\ projects'[i].ws = creation[i].ws /\ projects'[i].slug = creation[i].slug
                 /\ \/ creation'[i].pc = "done" /\ creation'[i].answer = "ok"
                    \/ creation'[i].pc = "draft" /\ creation'[i].answer = creation[i].answer
  <1>1. creation \in [Projects!Ids -> Projects!Request]
          /\ projects \in [Projects!Ids -> Projects!Project \cup {None}]
    BY DEF CreationInv, Projects!TypeOK
  <1>2. creation[i].ws \in Nat /\ creation[i].slug \in Projects!Slugs
    BY <1>1 DEF Projects!Request
  <1> DEFINE row == [ws |-> creation[i].ws, slug |-> creation[i].slug, has |-> {}]
  <1>3. row \in Projects!Project /\ row # None /\ row.ws = creation[i].ws
          /\ row.slug = creation[i].slug
    BY <1>2, ProjectsAssumption DEF Projects!Project, Projects!ConstantsAssumption
  <1>4. CASE Projects!Taken(creation[i].ws, creation[i].slug)
    BY <1>1, <1>4 DEF Projects!InsertProject, Projects!Answer, Projects!Request
  <1>5. CASE ~Projects!Taken(creation[i].ws, creation[i].slug)
    <2>1. projects' = [projects EXCEPT ![i] = row]
      BY <1>5 DEF Projects!InsertProject
    <2> HIDE DEF row
    <2>2. /\ projects' = [projects EXCEPT ![i] = projects'[i]] /\ projects'[i] = row
      BY <1>1, <2>1
    <2>3. UNCHANGED <<workspaces, lost>> /\ creation[i].pc = "insert"
      BY DEF Projects!InsertProject
    <2>4. Projects!Answer(i, "ok") \/ Projects!Goto(i, "draft")
      BY <1>5 DEF Projects!InsertProject
    <2> QED
      BY <1>1, <1>3, <1>5, <2>2, <2>3, <2>4 DEF Projects!Answer, Projects!Goto, Projects!Request
  <1> QED
    BY <1>4, <1>5

\* Fill: one more part of a project that is there.
LEMMA FillEffect ==
    ASSUME CreationInv, NEW i \in Projects!Ids, Projects!Fill(i)
    PROVE  /\ UNCHANGED <<workspaces, lost>>
           /\ creation[i].pc \in Projects!Parts
                   /\ creation' = [creation EXCEPT ![i] = creation'[i]]
           /\ creation'[i].ws = creation[i].ws /\ creation'[i].slug = creation[i].slug
           /\ creation'[i].suffix = creation[i].suffix
           /\ \/ creation'[i].pc = "done" /\ creation'[i].answer = "ok"
              \/ creation'[i].pc \in Projects!Parts /\ creation'[i].answer = creation[i].answer
           /\ projects' = [projects EXCEPT ![i] = projects'[i]]
           /\ projects[i] # None /\ projects'[i] \in Projects!Project /\ projects'[i] # None
           /\ projects'[i].ws = projects[i].ws /\ projects'[i].slug = projects[i].slug
  <1>1. creation \in [Projects!Ids -> Projects!Request]
          /\ projects \in [Projects!Ids -> Projects!Project \cup {None}]
    BY DEF CreationInv, Projects!TypeOK
  <1>2. creation[i].pc \in Projects!Parts /\ UNCHANGED <<workspaces, lost>>
    BY DEF Projects!Fill
  <1>3. projects[i] # None /\ projects[i] \in Projects!Project
    BY <1>1, <1>2 DEF CreationInv, Shape
  <1>4. PICK part \in Projects!Parts : part = creation[i].pc
    BY <1>2
  <1>5. PICK row : row = [projects[i] EXCEPT !.has = @ \cup {part}]
    OBVIOUS
  <1>6. row \in Projects!Project /\ row.ws = projects[i].ws /\ row.slug = projects[i].slug
    BY <1>3, <1>5 DEF Projects!Project
  <1>7. projects' = [projects EXCEPT ![i] = row]
    BY <1>1, <1>4, <1>5 DEF Projects!Fill
  <1>8. row # None
    BY <1>6, ProjectsAssumption DEF Projects!ConstantsAssumption
  <1>9. projects' = [projects EXCEPT ![i] = projects'[i]] /\ projects'[i] = row
    BY <1>1, <1>7
  <1>10. Projects!Answer(i, "ok") \/ Projects!Goto(i, "settings") \/ Projects!Goto(i, "map")
    BY <1>2 DEF Projects!Fill, Projects!Parts
  <1>11. \/ creation'[i].pc = "done" /\ creation'[i].answer = "ok"
         \/ creation'[i].pc \in Projects!Parts /\ creation'[i].answer = creation[i].answer
    BY <1>1, <1>10 DEF Projects!Answer, Projects!Goto, Projects!Parts, Projects!Request
  <1>12. /\ creation' = [creation EXCEPT ![i] = creation'[i]]
         /\ creation'[i].ws = creation[i].ws /\ creation'[i].slug = creation[i].slug
         /\ creation'[i].suffix = creation[i].suffix
    BY <1>1, <1>10 DEF Projects!Answer, Projects!Goto, Projects!Request
  <1> QED
    BY <1>2, <1>3, <1>6, <1>8, <1>9, <1>11, <1>12

\* CallFails: the request ends, what it inserted stays.
LEMMA FailEffect ==
    ASSUME CreationInv, NEW i \in Projects!Ids, Projects!CallFails(i)
    PROVE  /\ UNCHANGED <<workspaces, projects>> /\ lost' \in 0 .. Budget2
           /\ creation[i].pc \notin {"unsent", "done"}
                   /\ creation' = [creation EXCEPT ![i] = creation'[i]]
           /\ creation'[i].ws = creation[i].ws /\ creation'[i].slug = creation[i].slug
           /\ creation'[i].suffix = creation[i].suffix
           /\ creation'[i].pc = "done" /\ creation'[i].answer = "failed"
  <1>1. creation \in [Projects!Ids -> Projects!Request] /\ lost \in 0 .. Budget2
    BY DEF CreationInv, Projects!TypeOK
  <1>2. Cardinality(Projects!Sent) \in Nat /\ Budget2 \in Nat
    BY SentFinite, ProjectsAssumption DEF CreationInv, Projects!ConstantsAssumption
  <1>3. lost' \in 0 .. Budget2
    BY <1>1, <1>2, SameCardinality DEF Projects!CallFails, Projects!InBudget
  <1>4. creation[i].pc \notin {"unsent", "done"}
    BY DEF Projects!CallFails, Projects!Running, Projects!Sent, CreationInv, Shape
  <1> QED
    BY <1>1, <1>3, <1>4 DEF Projects!CallFails, Projects!Answer, Projects!Request


\* A request's step leaves it one that types allow.
LEMMA CreationServed ==
    ASSUME CreationInv, NEW i \in Projects!Ids, Projects!Serve(i) \/ Projects!CallFails(i)
    PROVE  creation'[i] \in Projects!Request
  <1> USE DEF Projects!Steps, Projects!Answers
  <1>1. creation \in [Projects!Ids -> Projects!Request] /\ creation[i] \in Projects!Request
          /\ Shape(i)
    BY DEF CreationInv, Projects!TypeOK
  <1>2. ASSUME NEW step \in Projects!Steps, Projects!Goto(i, step)
        PROVE  creation'[i] \in Projects!Request
    BY <1>1, <1>2 DEF Projects!Goto, Projects!Request
  <1>3. ASSUME NEW what \in Projects!Answers, Projects!Answer(i, what)
        PROVE  creation'[i] \in Projects!Request
    BY <1>1, <1>3 DEF Projects!Answer, Projects!Request
  <1>4. CASE Projects!FindWorkspace(i)
    <2>1. PICK first : first = CHOOSE w \in Projects!Owned(creation[i].user) :
                                 \A v \in Projects!Owned(creation[i].user) : w <= v
      OBVIOUS
    <2>2. CASE /\ Projects!Owned(creation[i].user) # {}
               /\ creation' = [creation EXCEPT ![i].pc = "slug", ![i].ws = first]
      <3>1. first \in Projects!Owned(creation[i].user)
        BY <1>1, <2>1, <2>2, Oldest DEF Projects!Request
      <3>2. first \in Nat
        BY <3>1 DEF Projects!Owned, CreationInv, Projects!TypeOK
      <3>3. creation'[i] = [creation[i] EXCEPT !.pc = "slug", !.ws = first]
        BY <1>1, <2>2
      <3> QED
        BY <1>1, <3>2, <3>3 DEF Projects!Request
    <2>3. Projects!Answer(i, "conflict") \/ Projects!Goto(i, "insertWorkspace") \/
          (/\ Projects!Owned(creation[i].user) # {}
           /\ creation' = [creation EXCEPT ![i].pc = "slug", ![i].ws = first])
      BY <1>4, <2>1 DEF Projects!FindWorkspace
    <2> QED
      BY <1>2, <1>3, <2>2, <2>3
  <1>5. CASE Projects!InsertWorkspace(i)
    <2>1. CASE Projects!Inserted(i)
      <3>1. PICK n : n = Len(workspaces')
        OBVIOUS
      <3>2. n \in Nat
        BY <1>5, <2>1, <3>1, InsertedWorkspace DEF Projects!InsertWorkspace
      <3>3. creation' = [creation EXCEPT ![i].ws = n,
                 ![i].pc = IF creation[i].kind = "workspace" THEN "done" ELSE "slug",
                 ![i].answer = IF creation[i].kind = "workspace" THEN "ok" ELSE @]
        BY <2>1, <3>1 DEF Projects!Inserted
      <3> QED
        BY <1>1, <3>2, <3>3 DEF Projects!Request
    <2> QED
      BY <1>3, <1>5, <2>1 DEF Projects!InsertWorkspace
  <1>6. CASE Projects!LookUp(i)
    <2>1. Projects!After(creation[i].suffix) \in Projects!Suffixes
            /\ Projects!Candidate(creation[i].name, creation[i].suffix) \in Projects!Slugs
      BY <1>1, AfterTyped, CandidateShape DEF Projects!Request
    <2>2. PICK k \in Projects!Suffixes, s \in Projects!Slugs :
            k = Projects!After(creation[i].suffix)
                    /\ s = Projects!Candidate(creation[i].name, creation[i].suffix)
      BY <2>1
    <2>3. CASE creation' = [creation EXCEPT ![i].slug = s, ![i].suffix = k]
      BY <1>1, <2>3 DEF Projects!Request
    <2> QED
      BY <1>1, <1>2, <1>6, <2>2, <2>3 DEF Projects!LookUp
  <1>7. CASE Projects!InsertProject(i)
    BY <1>2, <1>3, <1>7 DEF Projects!InsertProject
  <1>8. CASE Projects!Fill(i)
    BY <1>2, <1>3, <1>8 DEF Projects!Fill, Projects!Parts
  <1>9. CASE Projects!CallFails(i)
    BY <1>3, <1>9 DEF Projects!CallFails
  <1> QED
    BY <1>4, <1>5, <1>6, <1>7, <1>8, <1>9 DEF Projects!Serve

\* Handlers keep the types.
LEMMA TypeServed ==
    ASSUME CreationInv, NEW i \in Projects!Ids, Projects!Serve(i) \/ Projects!CallFails(i)
    PROVE  Projects!TypeOK'
  <1>1. Projects!TypeOK
    BY DEF CreationInv
  <1>2. creation'[i] \in Projects!Request /\ primarySlug' = primarySlug /\ met' = met
        /\ \A j \in Projects!Ids \ {i} : creation'[j] = creation[j] /\ projects'[j] = projects[j]
    BY <1>1, CreationServed, Served
  <1>3. creation' \in [Projects!Ids -> Projects!Request]
    <2>1. creation' = [creation EXCEPT ![i] = creation'[i]]
      BY FindEffect, InsertEffect, LookUpEffect, InsertProjectEffect, FillEffect, FailEffect
         DEF Projects!Serve
    <2> QED
      BY <1>1, <1>2, <2>1 DEF Projects!TypeOK
  <1>4. workspaces' \in Seq(Projects!Workspace) /\ DOMAIN workspaces \subseteq DOMAIN workspaces'
    <2>1. CASE Projects!InsertWorkspace(i) /\ Projects!Inserted(i)
      <3>1. creation[i].pc = "insertWorkspace"
        BY <2>1 DEF Projects!InsertWorkspace
      <3> QED
        BY <2>1, <3>1, InsertedWorkspace
    <2>2. CASE workspaces' = workspaces
      BY <1>1, <2>2 DEF Projects!TypeOK
    <2> QED
      BY <2>1, <2>2, FindEffect, InsertEffect, LookUpEffect, InsertProjectEffect, FillEffect,
         FailEffect DEF Projects!Serve
  <1>5. lost' \in 0 .. Budget2
    <2>1. lost' = lost \/ lost' \in 0 .. Budget2
      BY FindEffect, InsertEffect, LookUpEffect, InsertProjectEffect, FillEffect, FailEffect
         DEF Projects!Serve
    <2> QED
      BY <1>1, <2>1 DEF Projects!TypeOK
  <1>6. /\ projects' \in [Projects!Ids -> Projects!Project \cup {None}]
        /\ projects'[i] # None => projects'[i].ws \in DOMAIN workspaces
    <2>1. CASE projects' = projects
      BY <1>1, <2>1 DEF Projects!TypeOK
    <2>2. CASE Projects!InsertProject(i) /\ projects' # projects
      <3>1. creation[i].ws \in DOMAIN workspaces
        BY <2>2 DEF Projects!InsertProject, CreationInv, Shape
      <3>2. /\ projects' = [projects EXCEPT ![i] = projects'[i]]
              /\ projects'[i] \in Projects!Project
            /\ projects'[i].ws = creation[i].ws
        BY <2>2, InsertProjectEffect
      <3> QED
        BY <1>1, <3>1, <3>2 DEF Projects!TypeOK
    <2>3. CASE Projects!Fill(i)
      <3>1. /\ projects' = [projects EXCEPT ![i] = projects'[i]]
              /\ projects'[i] \in Projects!Project
            /\ projects'[i].ws = projects[i].ws /\ projects[i] # None
        BY <2>3, FillEffect
      <3> QED
        BY <1>1, <3>1 DEF Projects!TypeOK
    <2> QED
      BY <2>1, <2>2, <2>3, FindEffect, InsertEffect, LookUpEffect, FailEffect DEF Projects!Serve
  <1>7. \A j \in Projects!Ids : projects'[j] # None => projects'[j].ws \in DOMAIN workspaces'
    BY <1>1, <1>2, <1>4, <1>6 DEF Projects!TypeOK
  <1> QED
    BY <1>1, <1>2, <1>3, <1>4, <1>5, <1>6, <1>7 DEF Projects!TypeOK

\* What a new request leaves alone.
LEMMA SendFrame ==
    ASSUME CreationInv, NEW u \in Users, NEW kind \in {"assistant", "project", "workspace"},
           NEW n \in Names, Projects!Send(u, kind, n)
    PROVE  UNCHANGED <<primarySlug, workspaces, projects, lost>>
  BY DEF Projects!Send

\* So do new requests.
LEMMA TypeSent ==
    ASSUME CreationInv, NEW u \in Users, NEW kind \in {"assistant", "project", "workspace"},
           NEW n \in Names, Projects!Send(u, kind, n)
    PROVE  Projects!TypeOK'
  <1>1. PICK i \in Projects!Ids, q \in Projects!Request :
          /\ creation' = [creation EXCEPT ![i] = q]
          /\ met' = IF Projects!Running = {} THEN met ELSE met \cup Projects!Running \cup {i}
    BY SendEffect
  <1>2. Projects!Running \subseteq Projects!Ids
    BY DEF Projects!Running, Projects!Sent
  <1> QED
    BY <1>1, <1>2, SendFrame DEF CreationInv, Projects!TypeOK

-----------------------------------------------------------------------------
(* What only grows.                                                        *)

\* Nothing is deleted: workspaces and slugs stay.
Grows ==
    /\ DOMAIN workspaces \subseteq DOMAIN workspaces'
    /\ \A w \in DOMAIN workspaces : workspaces'[w] = workspaces[w]
    /\ \A i \in Projects!Ids : projects[i] # None =>
         /\ projects'[i] # None
         /\ projects'[i].ws = projects[i].ws /\ projects'[i].slug = projects[i].slug
    /\ primarySlug' = primarySlug
    /\ Projects!Sent \subseteq Projects!Sent' /\ met \subseteq met'
    /\ \A i \in Projects!Sent : /\ creation'[i].user = creation[i].user
            /\ creation'[i].kind = creation[i].kind
                       /\ creation'[i].name = creation[i].name
                               /\ creation'[i].target = creation[i].target

\* Handlers only add.
LEMMA ServedGrows ==
    ASSUME CreationInv, NEW i \in Projects!Ids, Projects!Serve(i) \/ Projects!CallFails(i)
    PROVE  Grows /\ Projects!Sent' = Projects!Sent
  <1>1. Projects!TypeOK
    BY DEF CreationInv
  <1>2. /\ \A j \in Projects!Ids \ {i} : creation'[j] = creation[j] /\ projects'[j] = projects[j]
        /\ creation'[i].user = creation[i].user /\ creation'[i].kind = creation[i].kind
        /\ creation'[i].name = creation[i].name /\ creation'[i].target = creation[i].target
        /\ primarySlug' = primarySlug /\ met' = met
    BY <1>1, Served
  <1>3. /\ DOMAIN workspaces \subseteq DOMAIN workspaces'
        /\ \A w \in DOMAIN workspaces : workspaces'[w] = workspaces[w]
    <2>1. CASE Projects!InsertWorkspace(i) /\ Projects!Inserted(i)
      <3>1. creation[i].pc = "insertWorkspace"
        BY <2>1 DEF Projects!InsertWorkspace
      <3> QED
        BY <2>1, <3>1, InsertedWorkspace
    <2> QED
      BY <2>1, FindEffect, InsertEffect, LookUpEffect, InsertProjectEffect, FillEffect,
         FailEffect DEF Projects!Serve
  <1>4. projects[i] # None => /\ projects'[i] # None
                              /\ projects'[i].ws = projects[i].ws
                              /\ projects'[i].slug = projects[i].slug
    <2>1. CASE Projects!InsertProject(i)
      <3>1. projects[i] = None
        BY <2>1 DEF Projects!InsertProject, CreationInv, Shape
      <3> QED
        BY <3>1
    <2> QED
      BY <2>1, FindEffect, InsertEffect, LookUpEffect, FillEffect, FailEffect DEF Projects!Serve
  <1>5. Projects!Sent' = Projects!Sent
    BY <1>2 DEF Projects!Sent
  <1> QED
    BY <1>2, <1>3, <1>4, <1>5 DEF Grows, Projects!Sent

\* So do new requests: the one they write was unsent.
LEMMA SentGrows ==
    ASSUME CreationInv, NEW u \in Users, NEW kind \in {"assistant", "project", "workspace"},
           NEW n \in Names, Projects!Send(u, kind, n)
    PROVE  Grows
  <1>1. PICK i \in Projects!Ids, q \in Projects!Request :
          /\ i \notin Projects!Sent /\ creation' = [creation EXCEPT ![i] = q] /\ q.kind = kind
          /\ met' = IF Projects!Running = {} THEN met ELSE met \cup Projects!Running \cup {i}
    BY SendEffect
  <1>2. /\ \A j \in Projects!Ids \ {i} : creation'[j] = creation[j]
        /\ creation'[i].kind = kind
    BY <1>1 DEF CreationInv, Projects!TypeOK
  <1> QED
    BY <1>1, <1>2, SendFrame DEF Grows, Projects!Sent

\* A slug in use stays so ...
LEMMA StillTaken ==
    ASSUME Grows, NEW w, NEW s, Projects!Taken(w, s)
    PROVE  Projects!Taken(w, s)'
  BY DEF Grows, Projects!Taken

\* ... and with it the numbers below.
LEMMA StillUsed ==
    ASSUME Grows, NEW w, NEW n, NEW j, UsedBelow(w, n, j)
    PROVE  UsedBelow(w, n, j)'
  <1>1. Projects!Taken(w, Base[n])'
    BY StillTaken DEF UsedBelow
  <1>2. \A m \in 2 .. (j - 1) : Projects!Taken(w, Projects!Candidate(n, m))'
    BY StillTaken DEF UsedBelow
  <1> QED
    BY <1>1, <1>2 DEF UsedBelow, Projects!Candidate

-----------------------------------------------------------------------------
(* Each part of the invariant.                                             *)

\* A new request takes the next number.
LEMMA NumberedSent ==
    ASSUME CreationInv, NEW u \in Users, NEW kind \in {"assistant", "project", "workspace"},
           NEW n \in Names, Projects!Send(u, kind, n)
    PROVE  CreationsNumbered'
  <1>1. PICK i \in Projects!Ids, q \in Projects!Request :
          Projects!Sent = 1 .. (i - 1) /\ creation' = [creation EXCEPT ![i] = q] /\ q.kind = kind
    BY SendEffect
  <1>2. Projects!Sent' = Projects!Sent \cup {i}
    BY <1>1 DEF Projects!Sent, CreationInv, Projects!TypeOK
  <1>3. i \in 0 .. Budget2 /\ i \in Nat /\ i >= 1
    BY ProjectsAssumption DEF Projects!Ids, Projects!ConstantsAssumption
  <1>4. Projects!Sent' = 1 .. i
    BY <1>1, <1>2, <1>3
  <1> QED
    BY <1>3, <1>4 DEF CreationsNumbered

\* A request that nobody touches keeps its shape and its count.
LEMMA OthersKeep ==
    ASSUME Grows, NEW j \in Projects!Ids, creation'[j] = creation[j], projects'[j] = projects[j]
    PROVE  /\ Shape(j) => Shape(j)'
           /\ Counted(j) => Counted(j)'
  <1>1. Shape(j) => Shape(j)'
    BY DEF Shape, Grows
  <1>2. ASSUME NEW k \in Projects!Suffixes,
               creation[j].slug = Projects!Candidate(creation[j].name, k)
                       /\ creation[j].suffix = Projects!After(k),
               UsedBelow(creation[j].ws, creation[j].name, k)
        PROVE  Counted(j)'
    <2>1. PICK w, n : w = creation[j].ws /\ n = creation[j].name
      OBVIOUS
    <2>2. UsedBelow(w, n, k)'
      BY <1>2, <2>1, StillUsed
    <2>3. UsedBelow(creation[j].ws, creation[j].name, k)'
      BY <2>1, <2>2 DEF UsedBelow, Projects!Taken, Projects!Candidate
    <2>4. (creation[j].slug = Projects!Candidate(creation[j].name, k)
            /\ creation[j].suffix = Projects!After(k))'
      BY <1>2 DEF Projects!Candidate, Projects!After
    <2> QED
      BY <2>3, <2>4 DEF Counted
  <1>3. Counted(j) => Counted(j)'
    BY <1>2 DEF Counted
  <1> QED
    BY <1>1, <1>3

\* A handler leaves its request in the shape of its next step.
LEMMA ShapeServed ==
    ASSUME CreationInv, NEW i \in Projects!Ids, Projects!Serve(i) \/ Projects!CallFails(i)
    PROVE  Shape(i)'
  <1>1. Shape(i) /\ Projects!TypeOK
    BY DEF CreationInv
  <1>2. /\ creation'[i].user = creation[i].user /\ creation'[i].kind = creation[i].kind
        /\ creation'[i].name = creation[i].name /\ creation'[i].target = creation[i].target
        /\ creation'[i].pc # "unsent"
        /\ primarySlug' = primarySlug
    BY <1>1, Served
  <1>3. Grows
    BY ServedGrows
  <1>4. CASE Projects!FindWorkspace(i)
    BY <1>1, <1>2, <1>4, FindEffect DEF Shape, Looking, Projects!Parts
  <1>5. CASE Projects!InsertWorkspace(i)
    <2>1. CASE Projects!Inserted(i) /\ ~Projects!WorkspaceTaken(creation[i].target)
      <3>1. creation'[i].ws = Len(workspaces') /\ Len(workspaces') \in DOMAIN workspaces'
        BY <1>5, <2>1, InsertEffect, InsertedWorkspace
      <3> QED
        BY <1>1, <1>2, <1>5, <2>1, <3>1, InsertEffect DEF Shape, Looking, Projects!Parts
    <2> QED
      BY <1>1, <1>2, <1>5, <2>1, InsertEffect DEF Shape, Looking, Projects!Parts
  <1>6. CASE Projects!LookUp(i)
    BY <1>1, <1>2, <1>6, LookUpEffect DEF Shape, Looking, Projects!Parts
  <1>7. CASE Projects!InsertProject(i)
    BY <1>1, <1>2, <1>7, InsertProjectEffect DEF Shape, Looking, Projects!Parts
  <1>8. CASE Projects!Fill(i)
    BY <1>1, <1>2, <1>8, FillEffect DEF Shape, Looking, Projects!Parts
  <1>9. CASE Projects!CallFails(i)
    BY <1>1, <1>2, <1>9, FailEffect DEF Shape, Looking, Projects!Parts
  <1> QED
    BY <1>4, <1>5, <1>6, <1>7, <1>8, <1>9 DEF Projects!Serve

\* A request goes past a slug only if it is in use: LookUp counts, the rest keeps the count.
LEMMA CountedServed ==
    ASSUME CreationInv, NEW i \in Projects!Ids, Projects!Serve(i) \/ Projects!CallFails(i)
    PROVE  Counted(i)'
  <1>1. Shape(i) /\ Projects!TypeOK /\ Counted(i) /\ creation[i] \in Projects!Request
    BY DEF CreationInv, Projects!TypeOK
  <1>2. creation'[i].name = creation[i].name
    BY <1>1, Served
  <1>3. Grows
    BY ServedGrows
  <1>4. PICK w, n, s, m : w = creation[i].ws /\ n = creation[i].name /\ s = creation[i].slug
          /\ m = creation[i].suffix
    OBVIOUS
  <1>5. ASSUME creation'[i].ws = creation[i].ws, creation'[i].slug = creation[i].slug,
               creation'[i].suffix = creation[i].suffix
        PROVE  Counted(i)'
    <2>1. \A k \in Projects!Suffixes : UsedBelow(w, n, k) => UsedBelow(w, n, k)'
      BY <1>3, StillUsed
    <2> QED
      BY <1>1, <1>2, <1>4, <1>5, <2>1 DEF Counted, Projects!Candidate, Projects!After
  <1>6. CASE creation[i].pc \in Looking /\ ~Projects!CallFails(i)
    <2>1. creation[i].slug = Base[creation[i].name] /\ creation[i].suffix = 2
      BY <1>1, <1>6 DEF Shape
    <2>2. creation'[i].slug = creation[i].slug /\ creation'[i].suffix = creation[i].suffix
      BY <1>6, FindEffect, InsertEffect, LookUpEffect, InsertProjectEffect, FillEffect
         DEF Projects!Serve, Looking, Projects!Parts
    <2> QED
      BY <1>2, <2>1, <2>2 DEF Counted
  <1>7. CASE Projects!LookUp(i) /\ Projects!Taken(w, s)
    <2>1. creation'[i].slug = Projects!Candidate(n, m)
            /\ creation'[i].suffix = Projects!After(m) /\ creation'[i].ws = w
      BY <1>4, <1>7, LookUpEffect
    <2>2. Projects!Taken(w, s)'
      BY <1>3, <1>7, StillTaken
    <2>3. m \in Projects!Suffixes /\ 2 \in Projects!Suffixes
      BY <1>1, <1>4, ProjectsAssumption DEF Projects!Request, Projects!Suffixes,
              Projects!ConstantsAssumption
    <2>4. UsedBelow(w, n, m)'
      <3>1. CASE s = Base[n] /\ m = 2
        BY <2>2, <3>1 DEF UsedBelow
      <3>2. ASSUME NEW k \in Projects!Suffixes, s = Projects!Candidate(n, k),
              m = Projects!After(k), UsedBelow(w, n, k)
            PROVE  UsedBelow(w, n, m)'
        <4>1. Projects!Taken(w, Base[n])'
                /\ \A l \in 2 .. (k - 1) : Projects!Taken(w, Projects!Candidate(n, l))'
          BY <1>3, <3>2, StillUsed DEF UsedBelow
        <4>2. k \in Nat /\ k >= 2 /\ (m = k + 1 \/ m = 2)
          BY <3>2, ProjectsAssumption DEF Projects!After, Projects!Suffixes,
                  Projects!ConstantsAssumption
        <4>3. Projects!Taken(w, Projects!Candidate(n, k))'
          BY <2>2, <3>2 DEF Projects!Candidate
        <4>4. \A l \in 2 .. (m - 1) : l \in 2 .. (k - 1) \/ l = k
          BY <4>2
        <4> QED
          BY <4>1, <4>3, <4>4 DEF UsedBelow
      <3> QED
        BY <1>1, <1>4, <3>1, <3>2 DEF Counted
    <2>5. UsedBelow(creation[i].ws, creation[i].name, m)'
      BY <1>2, <1>4, <2>1, <2>4 DEF UsedBelow, Projects!Taken, Projects!Candidate
    <2>6. (creation[i].slug = Projects!Candidate(creation[i].name, m)
            /\ creation[i].suffix = Projects!After(m))'
      BY <1>2, <1>4, <2>1 DEF Projects!Candidate, Projects!After
    <2> QED
      BY <2>3, <2>5, <2>6 DEF Counted
  <1>8. Projects!LookUp(i) => (Projects!LookUp(i) /\ Projects!Taken(w, s))
          \/ (/\ creation'[i].ws = creation[i].ws
                                                  /\ creation'[i].slug = creation[i].slug
                                                  /\ creation'[i].suffix = creation[i].suffix)
    BY <1>4, LookUpEffect
  <1> QED
    BY <1>5, <1>6, <1>7, <1>8, FindEffect, InsertEffect, InsertProjectEffect,
       FillEffect, FailEffect DEF Projects!Serve, Looking

\* A workspace is inserted under a free slug: its owner's, or one that was asked for.
LEMMA WorkspacesServed ==
    ASSUME CreationInv, NEW i \in Projects!Ids, Projects!Serve(i) \/ Projects!CallFails(i)
    PROVE  UniqueSlugs' /\ Origin'
  <1>1. UniqueSlugs /\ Origin /\ Projects!TypeOK /\ Shape(i)
    BY DEF CreationInv
  <1>2. Grows /\ Projects!Sent' = Projects!Sent
    BY ServedGrows
  <1>3. CASE workspaces' = workspaces
    <2>1. UniqueSlugs'
      BY <1>1, <1>3 DEF UniqueSlugs
    <2>2. Origin'
      BY <1>1, <1>2, <1>3 DEF Origin, Grows
    <2> QED
      BY <2>1, <2>2
  <1>4. CASE Projects!InsertWorkspace(i) /\ Projects!Inserted(i)
          /\ ~Projects!WorkspaceTaken(creation[i].target)
    <2>1. creation[i].pc = "insertWorkspace"
      BY <1>4 DEF Projects!InsertWorkspace
    <2>2. PICK last : last = Len(workspaces')
      OBVIOUS
    <2>3. /\ Len(workspaces) \in Nat /\ last = Len(workspaces) + 1
          /\ DOMAIN workspaces = 1 .. Len(workspaces) /\ DOMAIN workspaces' = 1 .. last
          /\ \A w \in DOMAIN workspaces : workspaces'[w] = workspaces[w]
          /\ workspaces'[last].slug = creation[i].target
          /\ workspaces'[last].owner = creation[i].user
      BY <1>4, <2>1, <2>2, InsertedWorkspace
    <2>4. \A w \in DOMAIN workspaces' : w \in DOMAIN workspaces \/ w = last
      BY <2>3
    <2>5. \A w \in DOMAIN workspaces : workspaces'[w].slug # creation[i].target
      BY <1>4, <2>3 DEF Projects!WorkspaceTaken
    <2>6. UniqueSlugs'
      BY <1>1, <2>3, <2>4, <2>5 DEF UniqueSlugs
    <2>7. creation[i].kind = "assistant" \/ creation[i].kind = "workspace"
      BY <1>1, <2>1 DEF Shape
    <2>8. i \in Projects!Sent
      BY <1>1, <2>7 DEF Projects!Sent
    <2>9. \/ workspaces'[last].slug = primarySlug'[workspaces'[last].owner]
          \/ /\ i \in Projects!Sent' /\ creation'[i].user = workspaces'[last].owner
             /\ creation'[i].kind = "workspace"
      BY <1>1, <1>2, <2>3, <2>7, <2>8 DEF Shape, Grows
    <2>10. ASSUME NEW w \in DOMAIN workspaces
           PROVE  \/ workspaces'[w].slug = primarySlug'[workspaces'[w].owner]
                  \/ \E j \in Projects!Sent' : /\ creation'[j].user = workspaces'[w].owner
                                      /\ creation'[j].kind = "workspace"
      BY <1>1, <1>2, <2>3 DEF Origin, Grows
    <2>11. Origin'
      BY <2>4, <2>9, <2>10 DEF Origin
    <2> QED
      BY <2>6, <2>11
  <1> QED
    BY <1>3, <1>4, FindEffect, InsertEffect, LookUpEffect, InsertProjectEffect, FillEffect,
       FailEffect DEF Projects!Serve

\* A handler's request is under way, and ends or stays so.
LEMMA RunningServed ==
    ASSUME CreationInv, NEW i \in Projects!Ids, Projects!Serve(i) \/ Projects!CallFails(i)
    PROVE  i \in Projects!Running /\ Projects!Running' \subseteq Projects!Running
  <1>1. Projects!TypeOK /\ Shape(i)
    BY DEF CreationInv
  <1>2. creation[i].pc \notin {"unsent", "done"}
    BY <1>1, FindEffect, InsertEffect, LookUpEffect, InsertProjectEffect, FillEffect,
       FailEffect DEF Projects!Serve, Projects!Parts
  <1>3. i \in Projects!Running
    BY <1>1, <1>2 DEF Projects!Running, Projects!Sent, Shape
  <1>4. \A j \in Projects!Ids \ {i} : creation'[j] = creation[j]
    BY <1>1, Served
  <1>5. Projects!Sent' = Projects!Sent
    BY ServedGrows
  <1> QED
    BY <1>3, <1>4, <1>5 DEF Projects!Running, Projects!Sent

\* What a lone request has read stays so, for no other one writes.
LEMMA AloneServed ==
    ASSUME CreationInv, NEW i \in Projects!Ids, Projects!Serve(i) \/ Projects!CallFails(i)
    PROVE  /\ MetTogether'
           /\ \A j \in Projects!Running' : j \notin met' => KnowsAlone(j)'
  <1>1. Projects!TypeOK /\ MetTogether /\ Shape(i)
    BY DEF CreationInv
  <1>2. i \in Projects!Running /\ Projects!Running' \subseteq Projects!Running
    BY RunningServed
  <1>3. met' = met /\ creation'[i].kind = creation[i].kind
        /\ creation'[i].user = creation[i].user /\ creation'[i].target = creation[i].target
    BY <1>1, Served
  <1>4. MetTogether'
    BY <1>1, <1>2, <1>3 DEF MetTogether
  <1>5. ASSUME i \in Projects!Running', i \notin met
        PROVE  KnowsAlone(i)'
    <2>1. CASE Projects!FindWorkspace(i)
      <3>1. UNCHANGED <<workspaces, projects>>
        BY <2>1, FindEffect
      <3>2. creation'[i].pc # "insert"
        BY <2>1, FindEffect
      <3>3. creation'[i].pc = "insertWorkspace" =>
              IF creation[i].kind = "assistant" THEN Projects!Owned(creation[i].user) = {}
                                           ELSE ~Projects!WorkspaceTaken(creation[i].target)
        BY <2>1, FindEffect
      <3> QED
        BY <1>3, <3>1, <3>2, <3>3 DEF KnowsAlone, Projects!Owned, Projects!WorkspaceTaken
    <2>2. CASE Projects!LookUp(i)
      <3>1. UNCHANGED <<workspaces, projects>> /\ creation'[i].pc # "insertWorkspace"
        BY <2>2, LookUpEffect
      <3>2. creation'[i].pc = "insert" =>
              /\ ~Projects!Taken(creation[i].ws, creation[i].slug)
              /\ creation'[i].ws = creation[i].ws /\ creation'[i].slug = creation[i].slug
        BY <2>2, LookUpEffect
      <3> QED
        BY <3>1, <3>2 DEF KnowsAlone, Projects!Taken
    <2>3. CASE creation'[i].pc \notin {"insertWorkspace", "insert"}
      BY <2>3 DEF KnowsAlone
    <2> QED
      BY <2>1, <2>2, <2>3, InsertEffect, InsertProjectEffect, FillEffect, FailEffect
         DEF Projects!Serve, Projects!Parts
  <1>6. \A j \in Projects!Running' : j # i => j \in met'
    BY <1>1, <1>2, <1>3 DEF MetTogether
  <1> QED
    BY <1>3, <1>4, <1>5, <1>6

\* A refusal of a lone request that some other owner's workspace explains.
Excused(i) ==
    /\ creation[i].kind = "assistant"
    /\ \E w \in DOMAIN workspaces :
         /\ workspaces[w].slug = primarySlug[creation[i].user]
         /\ workspaces[w].owner # creation[i].user

\* What excuses a refusal stays.
LEMMA StillExcused ==
    ASSUME Grows, NEW j \in Projects!Sent, Excused(j)
    PROVE  Excused(j)'
  BY DEF Grows, Excused

\* A lone request is refused at the unique key of workspaces only, as its user has none.
LEMMA LoneServed ==
    ASSUME CreationInv, NEW i \in Projects!Ids, Projects!Serve(i) \/ Projects!CallFails(i)
    PROVE  Projects!LoneCreationSucceeds'
  <1>1. Projects!TypeOK /\ Shape(i) /\ Projects!LoneCreationSucceeds
    BY DEF CreationInv
  <1>2. Grows /\ Projects!Sent' = Projects!Sent /\ i \in Projects!Running
    BY ServedGrows, RunningServed
  <1>3. met' = met /\ \A j \in Projects!Ids \ {i} : creation'[j] = creation[j]
    BY <1>1, Served
  <1>4. ASSUME NEW j \in Projects!Sent', creation'[j].answer = "duplicate", j \notin met', j # i
        PROVE  Excused(j)'
    <2>1. Excused(j)
      BY <1>1, <1>2, <1>3, <1>4 DEF Projects!LoneCreationSucceeds, Excused, Projects!Sent
    <2> QED
      BY <1>2, <1>4, <2>1, StillExcused
  <1>5. ASSUME creation'[i].answer = "duplicate", i \notin met
        PROVE  Excused(i)
    <2>1. creation[i].answer = "none" /\ KnowsAlone(i)
      BY <1>1, <1>2, <1>5 DEF Shape, Projects!Running, CreationInv
    <2>2. CASE Projects!InsertWorkspace(i)
      <3>1. /\ creation[i].pc = "insertWorkspace" /\ Projects!WorkspaceTaken(creation[i].target)
        BY <1>5, <2>1, <2>2, InsertEffect
      <3>2. creation[i].kind = "assistant" /\ Projects!Owned(creation[i].user) = {}
            /\ creation[i].target = primarySlug[creation[i].user]
        BY <1>1, <2>1, <3>1 DEF KnowsAlone, Shape
      <3> QED
        BY <3>1, <3>2 DEF Excused, Projects!WorkspaceTaken, Projects!Owned
    <2>3. CASE Projects!InsertProject(i)
      BY <1>5, <2>1, <2>3, InsertProjectEffect DEF KnowsAlone
    <2> QED
      BY <1>5, <2>1, <2>2, <2>3, FindEffect, LookUpEffect, FillEffect,
              FailEffect DEF Projects!Serve
  <1>6. ASSUME creation'[i].answer = "duplicate", i \notin met'
        PROVE  Excused(i)'
    <2>1. i \in Projects!Sent /\ Excused(i)
      BY <1>2, <1>3, <1>5, <1>6 DEF Projects!Running
    <2> QED
      BY <1>2, <2>1, StillExcused
  <1> QED
    BY <1>4, <1>6 DEF Projects!LoneCreationSucceeds, Excused

\* A handler's step keeps the invariant.
LEMMA InvServed ==
    ASSUME CreationInv, NEW i \in Projects!Ids, Projects!Serve(i) \/ Projects!CallFails(i)
    PROVE  CreationInv'
  <1>1. Projects!TypeOK' /\ UniqueSlugs' /\ Origin' /\ MetTogether'
          /\ Projects!LoneCreationSucceeds'
        /\ \A j \in Projects!Running' : j \notin met' => KnowsAlone(j)'
    BY TypeServed, WorkspacesServed, AloneServed, LoneServed
  <1>2. CreationsNumbered'
    BY ServedGrows DEF CreationInv, CreationsNumbered
  <1>3. \A j \in Projects!Ids \ {i} : creation'[j] = creation[j] /\ projects'[j] = projects[j]
    BY Served DEF CreationInv
  <1>4. \A j \in Projects!Ids : Shape(j)' /\ Counted(j)'
    <2>1. ASSUME NEW j \in Projects!Ids \ {i}
          PROVE  Shape(j)' /\ Counted(j)'
      BY <1>3, ServedGrows, OthersKeep DEF CreationInv
    <2> QED
      BY <2>1, ShapeServed, CountedServed
  <1> QED
    BY <1>1, <1>2, <1>4 DEF CreationInv

\* A new request keeps the invariant.
LEMMA InvSent ==
    ASSUME CreationInv, NEW u \in Users, NEW kind \in {"assistant", "project", "workspace"},
           NEW n \in Names, Projects!Send(u, kind, n)
    PROVE  CreationInv'
  <1>1. PICK i \in Projects!Ids, w \in Nat, t \in WorkspaceSlugs \cup {None},
          q \in Projects!Request :
             /\ Projects!Sent = 1 .. (i - 1) /\ i \notin Projects!Sent
             /\ creation' = [creation EXCEPT ![i] = q]
             /\ q.user = u /\ q.kind = kind /\ q.name = n /\ q.ws = w /\ q.target = t
             /\ q.slug = Base[n] /\ q.suffix = 2 /\ q.answer = "none"
             /\ q.pc = IF kind = "project" THEN "slug" ELSE "workspace"
             /\ kind = "project" => w \in DOMAIN workspaces
             /\ t \in Projects!Targets(u, kind)
             /\ met' = IF Projects!Running = {} THEN met ELSE met \cup Projects!Running \cup {i}
    BY SendEffect
  <1>2. /\ \A j \in Projects!Ids \ {i} : creation'[j] = creation[j]
        /\ creation'[i] = q
    BY <1>1 DEF CreationInv, Projects!TypeOK
  <1>3. UNCHANGED <<primarySlug, workspaces, projects, lost>>
    BY SendFrame
  <1>4. Projects!TypeOK' /\ CreationsNumbered' /\ Grows
    BY TypeSent, NumberedSent, SentGrows
  <1>5. projects[i] = None
    <2>1. creation[i].pc = "unsent"
      BY <1>1 DEF Projects!Sent, CreationInv, Shape
    <2> QED
      BY <2>1 DEF CreationInv, Shape, Looking
  <1>6. Shape(i)' /\ Counted(i)'
    <2>1. Shape(i)'
      BY <1>1, <1>2, <1>3, <1>5 DEF Shape, Looking, Projects!Parts, Projects!Targets
    <2>2. Counted(i)'
      BY <1>1, <1>2 DEF Counted
    <2> QED
      BY <2>1, <2>2
  <1>7. \A j \in Projects!Ids : Shape(j)' /\ Counted(j)'
    <2>1. ASSUME NEW j \in Projects!Ids \ {i}
          PROVE  Shape(j)' /\ Counted(j)'
      BY <1>2, <1>3, <1>4, OthersKeep DEF CreationInv
    <2> QED
      BY <1>6, <2>1
  <1>8. UniqueSlugs' /\ Origin'
    <2>1. UniqueSlugs'
      BY <1>3 DEF CreationInv, UniqueSlugs
    <2>2. Origin'
      BY <1>3, <1>4 DEF CreationInv, Origin, Grows
    <2> QED
      BY <2>1, <2>2
  <1>9. Projects!Running' = Projects!Running \cup {i}
    BY <1>1, <1>2 DEF Projects!Running, Projects!Sent
  <1>10. MetTogether'
    BY <1>1, <1>9 DEF MetTogether
  <1>11. ASSUME NEW j \in Projects!Running', j \notin met'
         PROVE  KnowsAlone(j)'
    <2>1. j = i
      BY <1>1, <1>9, <1>11
    <2> QED
      BY <1>1, <1>2, <2>1 DEF KnowsAlone
  <1>12. ASSUME NEW j \in Projects!Sent', creation'[j].answer = "duplicate", j \notin met'
         PROVE  Excused(j)'
    <2>1. j # i /\ j \in Projects!Ids
      BY <1>1, <1>2, <1>12 DEF Projects!Sent
    <2>2. j \in Projects!Sent /\ creation[j].answer = "duplicate" /\ j \notin met
      BY <1>1, <1>2, <1>12, <2>1 DEF Projects!Sent
    <2>3. Excused(j)
      BY <2>2 DEF CreationInv, Projects!LoneCreationSucceeds, Excused
    <2> QED
      BY <1>4, <2>2, <2>3, StillExcused
  <1>13. Projects!LoneCreationSucceeds'
    BY <1>12 DEF Projects!LoneCreationSucceeds, Excused
  <1> QED
    BY <1>4, <1>7, <1>8, <1>10, <1>11, <1>13 DEF CreationInv

\* The invariant holds at first ...
LEMMA CreationInit == Projects!Init => CreationInv
<1> SUFFICES ASSUME Projects!Init PROVE CreationInv
  OBVIOUS
<1>1. \A i \in Projects!Ids : creation[i] = Projects!NoRequest /\ projects[i] = None
  BY DEF Projects!Init
<1>2. Projects!Sent = {} /\ Projects!Running = {} /\ DOMAIN workspaces = {}
  BY <1>1, NoCreationTyped DEF Projects!Init, Projects!Sent, Projects!Running
<1>3. CreationsNumbered
  <2>1. Projects!Sent = 1 .. 0 /\ 0 \in 0 .. Budget2
    BY <1>2, ProjectsAssumption DEF Projects!ConstantsAssumption
  <2> QED
    BY <2>1 DEF CreationsNumbered
<1>4. ASSUME NEW i \in Projects!Ids
      PROVE  Shape(i) /\ Counted(i)
  BY <1>1, <1>2, NoCreationTyped DEF Shape, Counted, Looking, Projects!Parts
<1> QED
  BY <1>2, <1>3, <1>4, CreationTypeInit
     DEF CreationInv, UniqueSlugs, Origin, MetTogether, Projects!LoneCreationSucceeds

\* ... and every step keeps it.
LEMMA CreationNext == CreationInv /\ [Projects!Next]_Projects!vars => CreationInv'
<1> SUFFICES ASSUME CreationInv, [Projects!Next]_Projects!vars PROVE CreationInv'
  OBVIOUS
<1>1. CASE UNCHANGED Projects!vars
  <2>1. Projects!TypeOK' /\ CreationsNumbered' /\ Grows
    BY <1>1 DEF Projects!vars, CreationInv, Projects!TypeOK, CreationsNumbered,
            Projects!Sent, Grows
  <2>2. \A i \in Projects!Ids : Shape(i)' /\ Counted(i)'
    BY <1>1, <2>1, OthersKeep DEF Projects!vars, CreationInv
  <2>3. UniqueSlugs' /\ Origin' /\ MetTogether' /\ Projects!LoneCreationSucceeds'
    BY <1>1 DEF Projects!vars, CreationInv, UniqueSlugs, Origin, MetTogether, Projects!Running,
            Projects!Sent,
                Projects!LoneCreationSucceeds
  <2>4. \A i \in Projects!Running' : i \notin met' => KnowsAlone(i)'
    BY <1>1 DEF Projects!vars, CreationInv, Projects!Running, Projects!Sent, KnowsAlone,
            Projects!Owned, Projects!WorkspaceTaken, Projects!Taken
  <2> QED
    BY <2>1, <2>2, <2>3, <2>4 DEF CreationInv
<1>2. ASSUME NEW wish \in Wishes, Projects!Send(wish.user, wish.kind, wish.name)
      PROVE  CreationInv'
  <2>1. /\ wish.user \in Users /\ wish.kind \in {"assistant", "project", "workspace"}
        /\ wish.name \in Names
    BY ProjectsAssumption DEF Projects!ConstantsAssumption
  <2> QED
    BY <1>2, <2>1, InvSent
<1>3. ASSUME NEW i \in Projects!Ids, Projects!Serve(i) \/ Projects!CallFails(i)
      PROVE  CreationInv'
  BY <1>3, InvServed
<1> QED
  BY <1>1, <1>2, <1>3 DEF Projects!Next

\* Workspaces whose slug is the one of their owner's address are one at most.
LEMMA OneWorkspace == CreationInv => Projects!AssistantMakesOneWorkspace
<1> SUFFICES ASSUME CreationInv, NEW u \in Users,
                    \A i \in Projects!Sent : creation[i].user = u
                            => creation[i].kind # "workspace"
             PROVE  Cardinality(Projects!Owned(u)) <= 1
  BY SameCardinality DEF Projects!AssistantMakesOneWorkspace
<1>1. \A w \in Projects!Owned(u) : workspaces[w].slug = primarySlug[u]
  BY DEF CreationInv, Origin, Projects!Owned
<1>2. \A v, w \in Projects!Owned(u) : v = w
  BY <1>1 DEF CreationInv, UniqueSlugs, Projects!Owned
<1>3. CASE Projects!Owned(u) = {}
  BY <1>3, FS_EmptySet
<1>4. ASSUME NEW w \in Projects!Owned(u)
      PROVE  Cardinality(Projects!Owned(u)) <= 1
  <2>1. Projects!Owned(u) = {w}
    BY <1>2
  <2>2. Cardinality({w}) = 1
    BY FS_Singleton
  <2> QED
    BY <2>1, <2>2
<1> QED
  BY <1>3, <1>4

\* A project under a number was looked up past all the numbers below.
LEMMA NoGap == CreationInv => Projects!SuffixesHaveNoGap
<1> SUFFICES ASSUME CreationInv, NEW i \in Projects!Ids, NEW k \in Projects!Suffixes,
                    projects[i] # None, projects[i].slug = Projects!Candidate(creation[i].name, k)
             PROVE  Projects!Taken(projects[i].ws, IF k = 2 THEN Base[creation[i].name]
                                                   ELSE Projects!Candidate(creation[i].name, k - 1))
  BY DEF Projects!SuffixesHaveNoGap
<1>1. /\ projects[i].ws = creation[i].ws /\ projects[i].slug = creation[i].slug /\ Counted(i)
      /\ creation[i].name \in Names
  BY DEF CreationInv, Shape, Projects!TypeOK, Projects!Request
<1>2. PICK w, n : w = creation[i].ws /\ n = creation[i].name
  OBVIOUS
<1>3. Projects!Taken(w, Projects!Candidate(n, k))
  BY <1>1, <1>2 DEF Projects!Taken
<1>4. k \in Nat /\ k >= 2 /\ (k # 2 => k - 1 \in Projects!Suffixes)
  BY ProjectsAssumption DEF Projects!Suffixes, Projects!ConstantsAssumption
<1>5. CASE Projects!HasRoom(n)
  <2>1. creation[i].slug # Base[n]
    BY <1>1, <1>2, <1>5, CandidatesApart
  <2>2. PICK j \in Projects!Suffixes : creation[i].slug = Projects!Candidate(n, j)
          /\ UsedBelow(w, n, j)
    BY <1>1, <1>2, <2>1 DEF Counted
  <2>3. j = k
    BY <1>1, <1>2, <1>5, <2>2, CandidatesApart
  <2>4. k # 2 => k - 1 \in 2 .. (k - 1)
    BY <1>4
  <2> QED
    BY <1>1, <1>2, <2>2, <2>3, <2>4 DEF UsedBelow
<1>6. CASE ~Projects!HasRoom(n)
  <2>1. CASE k # 2
    <3>1. Projects!Candidate(n, k - 1) = Projects!Candidate(n, k)
      BY <1>1, <1>2, <1>4, <1>6, <2>1, CandidatesAlike
    <3> QED
      BY <1>1, <1>2, <1>3, <2>1, <3>1
  <2>2. CASE k = 2
    <3>1. CASE creation[i].slug = Base[n]
      BY <1>1, <1>2, <1>3, <2>2, <3>1
    <3>2. CASE \E j \in Projects!Suffixes : UsedBelow(w, n, j)
      BY <1>1, <1>2, <2>2, <3>2 DEF UsedBelow
    <3> QED
      BY <1>1, <1>2, <3>1, <3>2 DEF Counted
  <2> QED
    BY <2>1, <2>2
<1> QED
  BY <1>5, <1>6

-----------------------------------------------------------------------------
(* Both parts, side by side.                                                *)

\* A step of MCNext is one of a part's or leaves it alone.
LEMMA PartSteps ==
    [MCNext]_<<area, draftVars, projectVars>> => [Next]_vars /\ [Projects!Next]_Projects!vars
  BY DEF MCNext, draftVars, projectVars, Projects!vars

\* Drafts, workspaces, projects and their requests keep their types, whichever part runs.
THEOREM TypesCorrect == MCSpec => []TypesOK
<1>1. MCInit => TypeOK /\ CreationInv
  BY TypeInit, CreationInit DEF MCInit
<1>2. TypeOK /\ CreationInv /\ [MCNext]_<<area, draftVars, projectVars>> => TypeOK'
        /\ CreationInv'
  BY PartSteps, TypeNext, CreationNext
<1>3. TypeOK /\ CreationInv => TypesOK
  BY DEF TypesOK, CreationInv
<1> QED
  BY <1>1, <1>2, <1>3, PTL DEF MCSpec

\* Who never asks for a workspace by its slug has one at most; slugs are numbered without a
\* gap; and a creation that runs alone is refused only because another user's workspace has
\* the slug of its user's address (getOrCreatePrimaryWorkspace, resolveUniqueProjectSlug,
\* CreateWorkspaceUseCase, CreateProjectUseCase).
THEOREM ProjectsSound == MCSpec => []ProjectsAreSound
<1>1. MCInit => CreationInv
  BY CreationInit DEF MCInit
<1>2. CreationInv /\ [MCNext]_<<area, draftVars, projectVars>> => CreationInv'
  BY PartSteps, CreationNext
<1>3. CreationInv => ProjectsAreSound
  BY OneWorkspace, NoGap DEF ProjectsAreSound, CreationInv
<1> QED
  BY <1>1, <1>2, <1>3, PTL DEF MCSpec

=============================================================================
