----------------------- MODULE WorkingSnapshot_proofs -----------------------
(***************************************************************************)
(* Theorems about WorkingSnapshot, for any sets of commands and            *)
(* replacements.  IInv strengthens the checked properties to an inductive  *)
(* invariant; the argument is that everything a request remembers (the     *)
(* revision it names, the row it read) is the current row or an older one, *)
(* because the revision only grows.                                        *)
(***************************************************************************)
EXTENDS WorkingSnapshot, TLAPS

\* What a request remembers of the row is the row or something older.
MemoryInv ==
    /\ row.revision = 0 => row.content = {}
    /\ \A r \in Requests :
         /\ expected[r] # None => expected[r] <= row.revision
         /\ base[r].revision <= row.revision
         /\ base[r].revision = row.revision => base[r].content = row.content
         /\ committedAt[r] <= row.revision

\* What the next call of a request says of its past.
PhaseInv ==
    \A r \in Requests :
      /\ pc[r] \notin {"reread", "done"} => committedAt[r] = 0
      /\ pc[r] = "create" => expected[r] \in {None, 0}
      /\ pc[r] = "cas" => expected[r] # None
      /\ pc[r] = "update" => expected[r] = None
      /\ pc[r] = "reread" => committedAt[r] # 0
      /\ pc[r] = "latest" => expected[r] # None /\ expected[r] < row.revision
      /\ pc[r] = "compose" => r \in Replacements
      /\ pc[r] # "done" => reply[r].status = "none"
      /\ r \in Commands /\ pc[r] \in {"find", "cas"} /\ expected[r] # None
           => expected[r] <= base[r].revision

\* A revision is made by one write, and a write that names a revision makes the
\* next one.
HistoryInv ==
    /\ \A r \in Requests :
         expected[r] # None /\ committedAt[r] # 0 => committedAt[r] = expected[r] + 1
    /\ \A r, s \in Requests :
         committedAt[r] # 0 /\ committedAt[r] = committedAt[s] => r = s

IInv ==
    /\ TypeOK
    /\ MemoryInv
    /\ PhaseInv
    /\ HistoryInv
    /\ AnswersAreTruthful
    /\ ConflictTellsNewerRevision

-----------------------------------------------------------------------------

\* The order of revisions, for terms that are also compared with None.
LEMMA Order ==
  \A a, b \in Nat : /\ a <= b /\ a # b => a < b
                    /\ a <= b /\ b <= a => a = b
  OBVIOUS

\* The initial states satisfy the inductive invariant.
LEMMA InitIInv == Init => IInv
<1> SUFFICES ASSUME Init PROVE IInv
  OBVIOUS
<1> USE DEF Init, Absent, NoReply
<1>1. TypeOK
  BY DEF TypeOK, Rows, Contents, Phases, Replies, Statuses
<1>2. MemoryInv
  <2>1. row.revision \in {0, 1} /\ row.content = {}
    OBVIOUS
  <2>2. ASSUME NEW r \in Requests
        PROVE  /\ expected[r] = None
               /\ base[r].revision = 0 /\ base[r].content = {}
               /\ committedAt[r] = 0
    OBVIOUS
  <2> QED
    BY <2>1, <2>2 DEF MemoryInv
<1>3. PhaseInv
  BY DEF PhaseInv
<1>4. HistoryInv
  BY DEF HistoryInv
<1>5. AnswersAreTruthful /\ ConflictTellsNewerRevision
  BY DEF AnswersAreTruthful, ConflictTellsNewerRevision
<1> QED
  BY <1>1, <1>2, <1>3, <1>4, <1>5 DEF IInv

\* Every call of every request keeps the types.
LEMMA TypeStep == TypeOK /\ [Next]_vars => TypeOK'
<1> SUFFICES ASSUME TypeOK, [Next]_vars PROVE TypeOK'
  OBVIOUS
<1> USE NoneAssumption DEF TypeOK, Rows, Contents, Phases, Replies, Statuses, Goto, Answer
<1>1. ASSUME NEW r \in Requests, SubmitCommand(r) PROVE TypeOK'
  <2>1. PICK e \in Expectable(0) : expected' = [expected EXCEPT ![r] = e]
    BY <1>1 DEF SubmitCommand
  <2>2. e \in Nat \cup {None}
    BY <2>1 DEF Expectable
  <2> QED
    BY <1>1, <2>1, <2>2 DEF SubmitCommand
<1>2. ASSUME NEW r \in Requests, Load(r) PROVE TypeOK'
  <2>1. CASE row.revision = 0
    <3>1. /\ Answer(r, "not_found", 0, {})
          /\ UNCHANGED <<row, expected, base, committedAt>>
      BY <1>2, <2>1 DEF Load
    <3> QED
      BY <3>1
  <2>2. CASE row.revision # 0
    <3>1. /\ pc' = [pc EXCEPT ![r] = "find"]
          /\ base' = [base EXCEPT ![r] = row]
          /\ UNCHANGED <<row, expected, reply, committedAt>>
      BY <1>2, <2>2 DEF Load
    <3>2. base' \in [Requests -> Rows] /\ row' \in Rows
      BY <3>1
    <3>3. pc' \in [Requests -> Phases]
      BY <3>1
    <3> QED
      BY <3>1, <3>2, <3>3
  <2> QED
    BY <2>1, <2>2
<1>3. ASSUME NEW r \in Requests, ReadForReplacement(r) PROVE TypeOK'
  BY <1>3 DEF ReadForReplacement
<1>4. ASSUME NEW r \in Requests, SubmitReplacement(r) PROVE TypeOK'
  <2>1. PICK e \in Expectable(base[r].revision) : expected' = [expected EXCEPT ![r] = e]
    BY <1>4 DEF SubmitReplacement
  <2>2. e \in Nat \cup {None}
    BY <2>1 DEF Expectable
  <2> QED
    BY <1>4, <2>1, <2>2 DEF SubmitReplacement
<1>5. ASSUME NEW r \in Requests, Find(r) PROVE TypeOK'
  <2>1. CASE row.revision # 0
    BY <1>5, <2>1 DEF Find
  <2>2. CASE row.revision = 0 /\ expected[r] \in {None, 0}
    BY <1>5, <2>2 DEF Find
  <2>3. CASE row.revision = 0 /\ expected[r] \notin {None, 0}
    <3>1. /\ Answer(r, "conflict", 0, {})
          /\ UNCHANGED <<row, expected, base, committedAt>>
      BY <1>5, <2>3, Zenon DEF Find
    <3> QED
      BY <3>1
  <2> HIDE DEF TypeOK
  <2> QED
    BY <2>1, <2>2, <2>3
<1>6. ASSUME NEW r \in Requests, Store(r) PROVE row' \in Rows /\ committedAt' \in [Requests -> Nat]
  BY <1>6 DEF Store, NextContent
<1>6a. ASSUME NEW r \in Requests, NEW st \in Statuses, NEW n \in Nat, NEW c \in Contents,
              Answer(r, st, n, c)
       PROVE  pc' \in [Requests -> Phases] /\ reply' \in [Requests -> Replies]
  BY <1>6a
<1>6b. ASSUME NEW r \in Requests, Store(r), AnswerStored(r)
       PROVE  pc' \in [Requests -> Phases] /\ reply' \in [Requests -> Replies]
  <2>1. row'.revision \in Nat /\ row'.content \in Contents
    BY <1>6, <1>6b
  <2>2. {"ok", "error"} \subseteq Statuses /\ {} \in Contents /\ 0 \in Nat
    OBVIOUS
  <2> HIDE DEF Statuses, Contents, Answer
  <2> QED
    BY <1>6a, <1>6b, <2>1, <2>2 DEF AnswerStored
<1>7. ASSUME NEW r \in Requests, Create(r) PROVE TypeOK'
  <2>1. CASE row.revision = 0
    <3>1. Store(r) /\ AnswerStored(r) /\ UNCHANGED <<expected, base>>
      BY <1>7, <2>1 DEF Create
    <3> QED
      BY <1>6, <1>6b, <3>1
  <2>2. CASE row.revision # 0
    BY <1>7, <2>2 DEF Create
  <2> QED
    BY <2>1, <2>2
<1>8. ASSUME NEW r \in Requests, Cas(r) PROVE TypeOK'
  <2>1. CASE row.revision = expected[r]
    BY <1>6, <1>8, <2>1 DEF Cas
  <2>2. CASE row.revision # expected[r]
    BY <1>8, <2>2 DEF Cas
  <2> QED
    BY <2>1, <2>2
<1>9. ASSUME NEW r \in Requests, Latest(r) PROVE TypeOK'
  BY <1>9 DEF Latest
<1>10. ASSUME NEW r \in Requests, Reread(r) PROVE TypeOK'
  <2>1. UNCHANGED <<row, expected, base, committedAt>>
    BY <1>10 DEF Reread
  <2>2. \/ Answer(r, "ok", row.revision, row.content)
        \/ Answer(r, "not_found", 0, {})
    BY <1>10 DEF Reread
  <2>3. {"ok", "not_found"} \subseteq Statuses /\ {row.content, {}} \subseteq Contents
        /\ {row.revision, 0} \subseteq Nat
    OBVIOUS
  <2>4. pc' \in [Requests -> Phases] /\ reply' \in [Requests -> Replies]
    <3> HIDE DEF Statuses, Contents, Answer
    <3> QED
      BY <1>6a, <2>2, <2>3
  <2> QED
    BY <2>1, <2>4
<1>11. ASSUME NEW r \in Requests, Update(r) PROVE TypeOK'
  BY <1>6, <1>6b, <1>11 DEF Update
<1>12. ASSUME NEW r \in Requests, CallFails(r) PROVE TypeOK'
  BY <1>12 DEF CallFails
<1>13. CASE UNCHANGED vars
  BY <1>13 DEF vars
<1> QED
  BY <1>1, <1>2, <1>3, <1>4, <1>5, <1>7, <1>8, <1>9, <1>10, <1>11, <1>12, <1>13
     DEF Next, ClientStep, ServerStep

\* Storing a row leaves every memory older than the row: the revision grew.
LEMMA StoreKeepsMemory ==
  ASSUME TypeOK, MemoryInv, NEW r \in Requests, Store(r), UNCHANGED <<expected, base>>
  PROVE  MemoryInv'
<1> USE NoneAssumption DEF TypeOK, Rows, MemoryInv
<1>1. row' = [revision |-> row.revision + 1, content |-> NextContent(r)]
  BY DEF Store
<1>2. row'.revision = row.revision + 1 /\ row'.revision # 0
  BY <1>1
<1>3. ASSUME NEW q \in Requests
      PROVE  /\ expected'[q] # None => expected'[q] <= row'.revision
             /\ base'[q].revision < row'.revision
             /\ committedAt'[q] <= row'.revision
  BY <1>2 DEF Store
<1> QED
  BY <1>2, <1>3

\* Storing a row gives its writer a revision no other request has.
LEMMA StoreKeepsHistory ==
  ASSUME TypeOK, MemoryInv, HistoryInv, NEW r \in Requests, Store(r),
         UNCHANGED <<expected, base>>,
         expected[r] # None => expected[r] = row.revision
  PROVE  HistoryInv'
<1> USE NoneAssumption DEF TypeOK, Rows, MemoryInv, HistoryInv
<1>1. committedAt' = [committedAt EXCEPT ![r] = row.revision + 1]
  BY DEF Store
<1>2. ASSUME NEW q \in Requests, expected'[q] # None, committedAt'[q] # 0
      PROVE  committedAt'[q] = expected'[q] + 1
  BY <1>1, <1>2
<1>3. ASSUME NEW q \in Requests, NEW t \in Requests,
             committedAt'[q] # 0, committedAt'[q] = committedAt'[t]
      PROVE  q = t
  BY <1>1, <1>3
<1> QED
  BY <1>2, <1>3

\* An answer that is no conflict leaves the conflicts as they are.
LEMMA AnswerKeepsConflicts ==
  ASSUME TypeOK, ConflictTellsNewerRevision, UNCHANGED expected,
         NEW r \in Requests, NEW s, NEW n, NEW c, Answer(r, s, n, c),
         s # "conflict"
  PROVE  ConflictTellsNewerRevision'
<1>1. reply'[r].status = s /\ reply'[r].revision = n
  BY DEF TypeOK, Answer
<1>2. \A q \in Requests \ {r} : reply'[q] = reply[q]
  BY DEF TypeOK, Answer
<1> QED
  BY <1>1, <1>2 DEF ConflictTellsNewerRevision

\* Answers stay truthful if the new one is: ok of a write that is there, a conflict of
\* none, and of an error what the history says of every write.
LEMMA AnswerKeepsTruth ==
  ASSUME TypeOK, AnswersAreTruthful, HistoryInv', UNCHANGED expected,
         NEW r \in Requests, NEW s, NEW n, NEW c, Answer(r, s, n, c),
         \A q \in Requests \ {r} : committedAt'[q] = committedAt[q],
         s = "ok" => committedAt'[r] \in 1 .. n,
         s = "conflict" => committedAt'[r] = 0
  PROVE  AnswersAreTruthful'
<1>1. reply'[r].status = s /\ reply'[r].revision = n
  BY DEF TypeOK, Answer
<1>2. \A q \in Requests \ {r} : reply'[q] = reply[q]
  BY DEF TypeOK, Answer
<1>3. \A q \in Requests : expected'[q] # None =>
        committedAt'[q] \in {0, expected'[q] + 1}
  BY DEF HistoryInv
<1> QED
  BY <1>1, <1>2, <1>3 DEF AnswersAreTruthful

\* The answer of the statement that stored the row keeps the answers in order.
LEMMA StoredAnswer ==
  ASSUME TypeOK, MemoryInv, AnswersAreTruthful, ConflictTellsNewerRevision,
         NEW r \in Requests, Store(r), AnswerStored(r), UNCHANGED expected, HistoryInv'
  PROVE  AnswersAreTruthful' /\ ConflictTellsNewerRevision'
<1>1. row'.revision = row.revision + 1 /\ row.revision \in Nat
  BY DEF TypeOK, Rows, Store
<1>2. /\ committedAt'[r] = row.revision + 1
      /\ \A q \in Requests \ {r} : committedAt'[q] = committedAt[q]
  BY DEF TypeOK, Store
<1>3. committedAt'[r] \in 1 .. row'.revision
  BY <1>1, <1>2
<1>4. CASE Answer(r, "ok", row'.revision, row'.content)
  BY <1>2, <1>3, <1>4, AnswerKeepsTruth, AnswerKeepsConflicts
<1>5. CASE Answer(r, "error", 0, {})
  BY <1>2, <1>5, AnswerKeepsTruth, AnswerKeepsConflicts
<1> QED
  BY <1>4, <1>5 DEF AnswerStored

\* Every call of every request keeps the inductive invariant.
LEMMA IInvStep == IInv /\ [Next]_vars => IInv'
<1> SUFFICES ASSUME IInv, [Next]_vars PROVE IInv'
  OBVIOUS
<1>0. TypeOK'
  BY TypeStep DEF IInv
<1> DEFINE Rest == MemoryInv /\ PhaseInv /\ HistoryInv
                     /\ AnswersAreTruthful /\ ConflictTellsNewerRevision
<1> USE NoneAssumption DEF IInv, TypeOK, Rows, Replies
<1>1. ASSUME NEW r \in Requests, SubmitCommand(r) PROVE Rest'
  <2>1. MemoryInv'
    BY <1>0, <1>1 DEF MemoryInv, SubmitCommand, Goto, Expectable
  <2>2. PhaseInv'
    BY <1>0, <1>1 DEF PhaseInv, MemoryInv, SubmitCommand, Goto, Expectable
  <2>3. HistoryInv'
    BY <1>0, <1>1 DEF HistoryInv, PhaseInv, SubmitCommand, Goto, Expectable
  <2>4. AnswersAreTruthful'
    BY <1>0, <1>1 DEF AnswersAreTruthful, PhaseInv, MemoryInv, SubmitCommand, Goto, Expectable
  <2>5. ConflictTellsNewerRevision'
    BY <1>0, <1>1 DEF ConflictTellsNewerRevision, PhaseInv, MemoryInv, SubmitCommand, Goto, Expectable
  <2> QED
    BY <2>1, <2>2, <2>3, <2>4, <2>5
<1>2. ASSUME NEW r \in Requests, Load(r) PROVE Rest'
  <2>1. CASE row.revision = 0
    <3>1. MemoryInv'
      BY <1>0, <1>2, <2>1 DEF MemoryInv, Load, Goto, Answer
    <3>2. PhaseInv'
      BY <1>0, <1>2, <2>1 DEF PhaseInv, MemoryInv, Load, Goto, Answer
    <3>3. HistoryInv'
      BY <1>0, <1>2, <2>1 DEF HistoryInv, PhaseInv, Load, Goto, Answer
    <3>4. AnswersAreTruthful'
      <4>1. Answer(r, "not_found", 0, {}) /\ UNCHANGED <<expected, committedAt>>
        BY <1>2, <2>1 DEF Load
      <4> HIDE DEF IInv, TypeOK
      <4> QED
        BY <3>3, <4>1, AnswerKeepsTruth DEF IInv
    <3>5. ConflictTellsNewerRevision'
      BY <1>0, <1>2, <2>1 DEF ConflictTellsNewerRevision, PhaseInv, MemoryInv, Load, Goto, Answer
    <3> QED
      BY <3>1, <3>2, <3>3, <3>4, <3>5
  <2>2. CASE row.revision # 0
    <3>1. MemoryInv'
      BY <1>0, <1>2, <2>2 DEF MemoryInv, Load, Goto
    <3>2. PhaseInv'
      BY <1>0, <1>2, <2>2 DEF PhaseInv, MemoryInv, Load, Goto
    <3>3. HistoryInv'
      BY <1>0, <1>2, <2>2 DEF HistoryInv, PhaseInv, Load, Goto
    <3>4. AnswersAreTruthful'
      BY <1>0, <1>2, <2>2 DEF AnswersAreTruthful, PhaseInv, MemoryInv, Load, Goto
    <3>5. ConflictTellsNewerRevision'
      BY <1>0, <1>2, <2>2 DEF ConflictTellsNewerRevision, PhaseInv, MemoryInv, Load, Goto
    <3> QED
      BY <3>1, <3>2, <3>3, <3>4, <3>5
  <2> HIDE DEF Rest
  <2> QED
    BY <2>1, <2>2
<1>3. ASSUME NEW r \in Requests, ReadForReplacement(r) PROVE Rest'
  <2>1. MemoryInv'
    BY <1>0, <1>3 DEF MemoryInv, ReadForReplacement, Goto
  <2>2. PhaseInv'
    BY <1>0, <1>3 DEF PhaseInv, MemoryInv, ReadForReplacement, Goto
  <2>3. HistoryInv'
    BY <1>0, <1>3 DEF HistoryInv, PhaseInv, ReadForReplacement, Goto
  <2>4. AnswersAreTruthful'
    BY <1>0, <1>3 DEF AnswersAreTruthful, PhaseInv, MemoryInv, ReadForReplacement, Goto
  <2>5. ConflictTellsNewerRevision'
    BY <1>0, <1>3 DEF ConflictTellsNewerRevision, PhaseInv, MemoryInv, ReadForReplacement, Goto
  <2> QED
    BY <2>1, <2>2, <2>3, <2>4, <2>5
<1>4. ASSUME NEW r \in Requests, SubmitReplacement(r) PROVE Rest'
  <2>1. MemoryInv'
    BY <1>0, <1>4 DEF MemoryInv, SubmitReplacement, Goto, Expectable
  <2>2. PhaseInv'
    BY <1>0, <1>4, KindsAssumption DEF PhaseInv, MemoryInv, SubmitReplacement, Goto, Expectable
  <2>3. HistoryInv'
    BY <1>0, <1>4 DEF HistoryInv, PhaseInv, SubmitReplacement, Goto, Expectable
  <2>4. AnswersAreTruthful'
    BY <1>0, <1>4 DEF AnswersAreTruthful, PhaseInv, MemoryInv, SubmitReplacement, Goto, Expectable
  <2>5. ConflictTellsNewerRevision'
    BY <1>0, <1>4 DEF ConflictTellsNewerRevision, PhaseInv, MemoryInv, SubmitReplacement, Goto, Expectable
  <2> QED
    BY <2>1, <2>2, <2>3, <2>4, <2>5
<1>5. ASSUME NEW r \in Requests, Find(r) PROVE Rest'
  <2>1. CASE row.revision # 0
    <3>1. MemoryInv'
      BY <1>0, <1>5, <2>1 DEF MemoryInv, Find, Goto
    <3>2. PhaseInv'
      BY <1>0, <1>5, <2>1 DEF PhaseInv, MemoryInv, Find, Goto
    <3>3. HistoryInv'
      BY <1>0, <1>5, <2>1 DEF HistoryInv, PhaseInv, Find, Goto
    <3>4. AnswersAreTruthful'
      BY <1>0, <1>5, <2>1 DEF AnswersAreTruthful, PhaseInv, MemoryInv, Find, Goto
    <3>5. ConflictTellsNewerRevision'
      BY <1>0, <1>5, <2>1 DEF ConflictTellsNewerRevision, PhaseInv, MemoryInv, Find, Goto
    <3> QED
      BY <3>1, <3>2, <3>3, <3>4, <3>5
  <2>2. CASE row.revision = 0 /\ expected[r] \in {None, 0}
    <3>1. MemoryInv'
      BY <1>0, <1>5, <2>2 DEF MemoryInv, Find, Goto
    <3>2. PhaseInv'
      BY <1>0, <1>5, <2>2 DEF PhaseInv, MemoryInv, Find, Goto
    <3>3. HistoryInv'
      BY <1>0, <1>5, <2>2 DEF HistoryInv, PhaseInv, Find, Goto
    <3>4. AnswersAreTruthful'
      BY <1>0, <1>5, <2>2 DEF AnswersAreTruthful, PhaseInv, MemoryInv, Find, Goto
    <3>5. ConflictTellsNewerRevision'
      BY <1>0, <1>5, <2>2 DEF ConflictTellsNewerRevision, PhaseInv, MemoryInv, Find, Goto
    <3> QED
      BY <3>1, <3>2, <3>3, <3>4, <3>5
  <2>3. CASE row.revision = 0 /\ expected[r] \notin {None, 0}
    <3> expected[r] = 0
      BY <2>3 DEF MemoryInv
    <3> QED
      BY <2>3
  <2> HIDE DEF Rest
  <2> QED
    BY <2>1, <2>2, <2>3
<1>6. ASSUME NEW r \in Requests, Create(r) PROVE Rest'
  <2>1. CASE row.revision = 0
    <3>1. Store(r) /\ UNCHANGED <<expected, base>>
      BY <1>6, <2>1 DEF Create
    <3>2. expected[r] # None => expected[r] = row.revision
      BY <1>6, <2>1 DEF Create, PhaseInv
    <3>3. MemoryInv'
      BY <3>1, StoreKeepsMemory
    <3>4. HistoryInv'
      BY <3>1, <3>2, StoreKeepsHistory
    <3>5. PhaseInv'
      BY <1>0, <1>6, <2>1 DEF PhaseInv, MemoryInv, Create, AnswerStored, Goto, Answer, Store
    <3>6. AnswerStored(r)
      BY <1>6, <2>1 DEF Create
    <3>7. AnswersAreTruthful' /\ ConflictTellsNewerRevision'
      BY <3>1, <3>4, <3>6, StoredAnswer
    <3> QED
      BY <3>3, <3>4, <3>5, <3>7
  <2>2. CASE row.revision # 0
    <3>1. MemoryInv'
      BY <1>0, <1>6, <2>2 DEF MemoryInv, Create, Goto, Answer
    <3>2. PhaseInv'
      BY <1>0, <1>6, <2>2 DEF PhaseInv, MemoryInv, Create, Goto, Answer
    <3>3. HistoryInv'
      BY <1>0, <1>6, <2>2 DEF HistoryInv, PhaseInv, Create, Goto, Answer
    <3>4. AnswersAreTruthful'
      <4>1. Answer(r, "error", 0, {}) /\ UNCHANGED <<expected, committedAt>>
        BY <1>6, <2>2 DEF Create
      <4> HIDE DEF IInv, TypeOK
      <4> QED
        BY <3>3, <4>1, AnswerKeepsTruth DEF IInv
    <3>5. ConflictTellsNewerRevision'
      BY <1>0, <1>6, <2>2 DEF ConflictTellsNewerRevision, PhaseInv, MemoryInv, Create, Goto, Answer
    <3> QED
      BY <3>1, <3>2, <3>3, <3>4, <3>5
  <2> HIDE DEF Rest
  <2> QED
    BY <2>1, <2>2
<1>7. ASSUME NEW r \in Requests, Cas(r) PROVE Rest'
  <2>1. CASE row.revision = expected[r]
    <3>1. Store(r) /\ UNCHANGED <<expected, base>>
      BY <1>7, <2>1 DEF Cas
    <3>2. expected[r] # None => expected[r] = row.revision
      BY <1>7, <2>1 DEF Cas, PhaseInv
    <3>3. MemoryInv'
      BY <3>1, StoreKeepsMemory
    <3>4. HistoryInv'
      BY <3>1, <3>2, StoreKeepsHistory
    <3>5. PhaseInv'
      BY <1>0, <1>7, <2>1 DEF PhaseInv, MemoryInv, Cas, Goto, Store
    <3>6. AnswersAreTruthful'
      BY <1>0, <1>7, <2>1 DEF AnswersAreTruthful, PhaseInv, MemoryInv, Cas, Goto, Store
    <3>7. ConflictTellsNewerRevision'
      BY <1>0, <1>7, <2>1 DEF ConflictTellsNewerRevision, PhaseInv, MemoryInv, Cas, Goto, Store
    <3> QED
      BY <3>3, <3>4, <3>5, <3>6, <3>7
  <2>2. CASE row.revision # expected[r]
    <3>1. MemoryInv'
      BY <1>0, <1>7, <2>2 DEF MemoryInv, Cas, Goto
    <3>2. PhaseInv'
      <4>1. expected[r] # None /\ expected[r] < row.revision
        <5>1. expected[r] # None
          BY <1>7 DEF Cas, PhaseInv
        <5>2. expected[r] \in Nat /\ row.revision \in Nat
          BY <5>1
        <5>3. expected[r] <= row.revision
          BY <5>1 DEF MemoryInv
        <5> QED
          BY <2>2, <5>1, <5>2, <5>3, Order, Zenon
      <4>2. /\ pc[r] = "cas" /\ pc' = [pc EXCEPT ![r] = "latest"]
            /\ UNCHANGED <<row, expected, base, reply, committedAt>>
        BY <1>7, <2>2 DEF Cas, Goto
      <4> QED
        BY <4>1, <4>2 DEF PhaseInv
    <3>3. HistoryInv'
      BY <1>0, <1>7, <2>2 DEF HistoryInv, PhaseInv, Cas, Goto
    <3>4. AnswersAreTruthful'
      BY <1>0, <1>7, <2>2 DEF AnswersAreTruthful, PhaseInv, MemoryInv, Cas, Goto
    <3>5. ConflictTellsNewerRevision'
      BY <1>0, <1>7, <2>2 DEF ConflictTellsNewerRevision, PhaseInv, MemoryInv, Cas, Goto
    <3> QED
      BY <3>1, <3>2, <3>3, <3>4, <3>5
  <2> HIDE DEF Rest
  <2> QED
    BY <2>1, <2>2
<1>8. ASSUME NEW r \in Requests, Latest(r) PROVE Rest'
  <2>1. MemoryInv'
    BY <1>0, <1>8 DEF MemoryInv, Latest, Goto, Answer
  <2>2. PhaseInv'
    BY <1>0, <1>8 DEF PhaseInv, MemoryInv, Latest, Goto, Answer
  <2>3. HistoryInv'
    BY <1>0, <1>8 DEF HistoryInv, PhaseInv, Latest, Goto, Answer
  <2>4. AnswersAreTruthful'
    BY <1>0, <1>8 DEF AnswersAreTruthful, PhaseInv, MemoryInv, Latest, Goto, Answer
  <2>5. ConflictTellsNewerRevision'
    BY <1>0, <1>8 DEF ConflictTellsNewerRevision, PhaseInv, MemoryInv, Latest, Goto, Answer
  <2> QED
    BY <2>1, <2>2, <2>3, <2>4, <2>5
<1>9. ASSUME NEW r \in Requests, Reread(r) PROVE Rest'
  <2>1. MemoryInv'
    BY <1>0, <1>9 DEF MemoryInv, Reread, Goto, Answer
  <2>2. PhaseInv'
    BY <1>0, <1>9 DEF PhaseInv, MemoryInv, Reread, Goto, Answer
  <2>3. HistoryInv'
    BY <1>0, <1>9 DEF HistoryInv, PhaseInv, Reread, Goto, Answer
  <2>4. UNCHANGED <<expected, committedAt>> /\ committedAt[r] \in 1 .. row.revision
    BY <1>9 DEF Reread, PhaseInv, MemoryInv
  <2>5. \/ Answer(r, "ok", row.revision, row.content)
        \/ Answer(r, "not_found", 0, {})
    BY <1>9 DEF Reread
  <2>6. AnswersAreTruthful' /\ ConflictTellsNewerRevision'
    <3> HIDE DEF IInv, TypeOK
    <3> QED
      BY <2>3, <2>4, <2>5, AnswerKeepsTruth, AnswerKeepsConflicts DEF IInv
  <2> QED
    BY <2>1, <2>2, <2>3, <2>6
<1>10. ASSUME NEW r \in Requests, Update(r) PROVE Rest'
  <2>1. Store(r) /\ UNCHANGED <<expected, base>>
    BY <1>10 DEF Update
  <2>2. expected[r] = None
    BY <1>10 DEF Update, PhaseInv
  <2>3. MemoryInv'
    BY <2>1, StoreKeepsMemory
  <2>4. HistoryInv'
    BY <2>1, <2>2, StoreKeepsHistory
  <2>5. PhaseInv'
    BY <1>0, <1>10 DEF PhaseInv, MemoryInv, Update, AnswerStored, Goto, Answer, Store
  <2>6. AnswersAreTruthful' /\ ConflictTellsNewerRevision'
    BY <1>10, <2>1, <2>4, StoredAnswer DEF Update
  <2> QED
    BY <2>3, <2>4, <2>5, <2>6
<1>11. ASSUME NEW r \in Requests, CallFails(r) PROVE Rest'
  <2>1. MemoryInv'
    BY <1>0, <1>11 DEF MemoryInv, CallFails, Goto, Answer
  <2>2. PhaseInv'
    BY <1>0, <1>11 DEF PhaseInv, MemoryInv, CallFails, Goto, Answer
  <2>3. HistoryInv'
    BY <1>0, <1>11 DEF HistoryInv, CallFails, Goto, Answer
  <2>4. Answer(r, "error", 0, {}) /\ UNCHANGED <<expected, committedAt>>
    BY <1>11 DEF CallFails
  <2>5. AnswersAreTruthful' /\ ConflictTellsNewerRevision'
    <3> HIDE DEF IInv, TypeOK
    <3> QED
      BY <2>3, <2>4, AnswerKeepsTruth, AnswerKeepsConflicts DEF IInv
  <2> QED
    BY <2>1, <2>2, <2>3, <2>5
<1>12. ASSUME UNCHANGED vars PROVE Rest'
  BY <1>12 DEF MemoryInv, PhaseInv, HistoryInv, AnswersAreTruthful,
               ConflictTellsNewerRevision, vars
<1> HIDE DEF TypeOK
<1> QED
  <2>1. CASE UNCHANGED vars
    BY <1>0, <1>12, <2>1
  <2>2. ASSUME NEW r \in Requests, ClientStep(r) \/ ServerStep(r) PROVE Rest'
    <3> HIDE DEF Rest
    <3> QED
      BY <2>2, <1>1, <1>2, <1>3, <1>4, <1>5, <1>6, <1>7, <1>8, <1>9, <1>10, <1>11
         DEF ClientStep, ServerStep
  <2>3. CASE Next
    BY <1>0, <2>2, <2>3 DEF Next
  <2> QED
    BY <2>1, <2>3

\* The inductive invariant holds of every behaviour.
THEOREM Invariant == Spec => []IInv
<1>1. Init => IInv
  BY InitIInv
<1>2. IInv /\ [Next]_vars => IInv'
  BY IInvStep
<1> QED
  BY <1>1, <1>2, PTL DEF Spec

\* The variables keep their types.
THEOREM TypeCorrect == Spec => []TypeOK
<1>1. IInv => TypeOK
  BY DEF IInv
<1> QED
  BY <1>1, Invariant, PTL

\* An answer never lies about the write: ok is sent only after the write is in the
\* row, a conflict only when the write left no trace; after an error the write that
\* named a revision is the one after it or none, though calls fail before and after
\* they take effect.
THEOREM TruthfulAnswers == Spec => []AnswersAreTruthful
<1>1. IInv => AnswersAreTruthful
  BY DEF IInv
<1> QED
  BY <1>1, Invariant, PTL

\* A conflict answer always names a revision newer than the client's.
THEOREM ConflictProgress == Spec => []ConflictTellsNewerRevision
<1>1. IInv => ConflictTellsNewerRevision
  BY DEF IInv
<1> QED
  BY <1>1, Invariant, PTL

\* Of the requests that name one revision at most one takes effect.
THEOREM OneWinner == Spec => []OneWinnerPerRevision
<1>1. IInv => OneWinnerPerRevision
  <2> SUFFICES ASSUME IInv, NEW r \in Requests, NEW s \in Requests,
                      expected[r] # None, expected[r] = expected[s],
                      committedAt[r] # 0, committedAt[s] # 0
               PROVE  r = s
    BY DEF OneWinnerPerRevision
  <2>1. committedAt[r] = expected[r] + 1 /\ committedAt[s] = expected[s] + 1
    BY DEF IInv, HistoryInv
  <2> QED
    BY <2>1 DEF IInv, HistoryInv
<1> QED
  BY <1>1, Invariant, PTL

\* The row as a guarded write finds it is the row its snapshot started from.
LEMMA GuardedBase ==
  ASSUME IInv, NEW r \in Requests, Guarded(r), pc[r] = "cas",
         row.revision = expected[r]
  PROVE  base[r].content = row.content
<1> USE NoneAssumption DEF IInv, TypeOK, Rows
<1>1. expected[r] # None /\ expected[r] \in Nat
  BY DEF Guarded
<1>2. expected[r] <= base[r].revision
  BY <1>1 DEF Guarded, PhaseInv
<1>3. base[r].revision \in Nat /\ base[r].revision <= row.revision
  BY DEF MemoryInv
<1>4. base[r].revision = row.revision
  BY <1>1, <1>2, <1>3, Order, Zenon
<1> QED
  BY <1>4 DEF MemoryInv

\* The step form of GuardedWriteKeepsRow.
KeepsRow ==
  \A r \in Requests :
    committedAt'[r] # committedAt[r] /\ Guarded(r)
      => row.content \cup {r} \subseteq row'.content

LEMMA KeepsRowStep == IInv /\ [Next]_vars => KeepsRow
<1> SUFFICES ASSUME IInv, [Next]_vars, NEW r \in Requests,
                    committedAt'[r] # committedAt[r], Guarded(r)
             PROVE  row.content \cup {r} \subseteq row'.content
  BY DEF KeepsRow
<1>1. PICK q \in Requests : Create(q) \/ Cas(q) \/ Update(q)
  BY DEF Next, vars, ClientStep, ServerStep, SubmitCommand, Load, ReadForReplacement,
         SubmitReplacement, Find, Latest, Reread, CallFails
<1>2. Store(q)
  BY <1>1 DEF Create, Cas, Update
<1>3. q = r
  BY <1>2 DEF Store, IInv, TypeOK
<1>4. row'.content = base[r].content \cup {r}
  BY <1>2, <1>3 DEF Store, NextContent
<1>5. CASE Create(r)
  <2>1. row.revision = 0
    BY <1>5 DEF Create
  <2> QED
    BY <1>4, <2>1 DEF IInv, MemoryInv
<1>6. CASE Cas(r)
  <2>1. pc[r] = "cas" /\ row.revision = expected[r]
    BY <1>6 DEF Cas
  <2> QED
    BY <1>4, <2>1, GuardedBase
<1>7. CASE Update(r)
  BY <1>7 DEF Update, Guarded, IInv, PhaseInv
<1> QED
  BY <1>1, <1>3, <1>5, <1>6, <1>7

\* The property the optimistic revision is for: a write checked against the row
\* it started from loses nobody's edit.
THEOREM NoGuardedLoss == Spec => GuardedWriteKeepsRow
<1>1. IInv /\ [Next]_vars => KeepsRow
  BY KeepsRowStep
<1> QED
  BY <1>1, Invariant, PTL DEF Spec, GuardedWriteKeepsRow, KeepsRow

-----------------------------------------------------------------------------

\* A step of request r changes no other request's outcome.
LEMMA OutcomeStep ==
  ASSUME TypeOK, NEW r \in Requests, NEW phase, NEW made,
         pc' = [pc EXCEPT ![r] = phase],
         committedAt' = [committedAt EXCEPT ![r] = made],
         \A q \in Requests \ {r} : reply'[q] = reply[q]
  PROVE  Outcomes' = [Outcomes EXCEPT ![r] = Outcome(r)']
<1>1. ASSUME NEW q \in Requests, q # r PROVE Outcome(q)' = Outcome(q)
  BY <1>1 DEF Outcome, TypeOK
<1> QED
  BY <1>1 DEF Outcomes

\* The step of r maps to a step of the register, or stutters, by its outcome.
LEMMA RefinementStep == IInv /\ [Next]_vars => [Register!Next]_(Register!vars)
<1> SUFFICES ASSUME IInv, [Next]_vars PROVE [Register!Next]_(Register!vars)
  OBVIOUS
<1> USE NoneAssumption DEF IInv, TypeOK
<1>0. TypeOK'
  BY TypeStep
<1>a. ASSUME NEW r \in Requests, NEW phase, pc' = [pc EXCEPT ![r] = phase],
             UNCHANGED committedAt,
             \A q \in Requests \ {r} : reply'[q] = reply[q]
      PROVE  Outcomes' = [Outcomes EXCEPT ![r] = Outcome(r)']
  <2>1. committedAt' = [committedAt EXCEPT ![r] = committedAt[r]]
    BY <1>a
  <2> QED
    BY <1>a, <2>1, OutcomeStep
<1>b. ASSUME NEW r \in Requests, Outcomes' = [Outcomes EXCEPT ![r] = Outcome(r)'],
             Outcome(r)' = Outcome(r), UNCHANGED <<row, expected>>
      PROVE  UNCHANGED Register!vars
  BY <1>b DEF Register!vars, Outcomes
<1>c. ASSUME NEW r \in Requests, Outcomes' = [Outcomes EXCEPT ![r] = Outcome(r)'],
             Outcome(r) = "pending", Outcome(r)' = "refused",
             expected[r] # row.revision \/ row.revision = 0,
             UNCHANGED <<row, expected>>
      PROVE  Register!Next
  BY <1>c DEF Register!Next, Register!Refuse, Outcomes
<1>d. ASSUME NEW r \in Requests, Outcome(r) = "pending", Store(r),
             expected[r] \in {None, row.revision}, UNCHANGED expected,
             NEW phase, pc' = [pc EXCEPT ![r] = phase],
             \A q \in Requests \ {r} : reply'[q] = reply[q]
      PROVE  Register!Next
  <2>1. Outcomes' = [Outcomes EXCEPT ![r] = Outcome(r)']
    BY <1>d, OutcomeStep DEF Store
  <2>2. row'.revision = row.revision + 1 /\ r \in row'.content
    BY <1>d DEF Store, NextContent
  <2>3. committedAt'[r] # 0
    BY <1>d DEF Store, Rows
  <2>4. Outcome(r)' = "written"
    BY <2>3 DEF Outcome
  <2> QED
    BY <1>d, <2>1, <2>2, <2>4 DEF Register!Next, Register!Write, Outcomes
<1>e. ASSUME NEW r \in Requests, Outcomes' = [Outcomes EXCEPT ![r] = Outcome(r)'],
             Outcome(r) = "pending", Outcome(r)' = "failed",
             UNCHANGED <<row, expected>>
      PROVE  Register!Next
  BY <1>e DEF Register!Next, Register!Fail, Outcomes
<1>f. ASSUME NEW r \in Requests, NEW s, NEW n, NEW c, Answer(r, s, n, c)
      PROVE  /\ pc' = [pc EXCEPT ![r] = "done"]
             /\ reply'[r].status = s
             /\ \A q \in Requests \ {r} : reply'[q] = reply[q]
  BY <1>f DEF Answer, Goto
<1>1. ASSUME NEW r \in Requests, SubmitCommand(r) \/ SubmitReplacement(r)
      PROVE  Register!Next
  <2>1. PICK phase \in {"load", "find"} : pc' = [pc EXCEPT ![r] = phase]
    BY <1>1 DEF SubmitCommand, SubmitReplacement, Goto
  <2>2. UNCHANGED <<row, reply, committedAt>> /\ expected' = [expected EXCEPT ![r] = expected'[r]]
    BY <1>1 DEF SubmitCommand, SubmitReplacement
  <2>3. expected'[r] \in Nat \cup {None}
    BY <1>0
  <2>4. Outcomes' = [Outcomes EXCEPT ![r] = Outcome(r)']
    BY <1>a, <2>1, <2>2
  <2>5. committedAt[r] = 0 /\ pc[r] \in {"new", "compose"}
    BY <1>1 DEF SubmitCommand, SubmitReplacement, PhaseInv
  <2>6. Outcome(r) = "idle" /\ Outcome(r)' = "pending"
    BY <2>1, <2>2, <2>5 DEF Outcome
  <2> QED
    BY <2>2, <2>3, <2>4, <2>6 DEF Register!Next, Register!Submit, Outcomes
<1>2. ASSUME NEW r \in Requests, ReadForReplacement(r) PROVE UNCHANGED Register!vars
  <2>1. /\ pc' = [pc EXCEPT ![r] = "compose"] /\ pc[r] = "new"
        /\ UNCHANGED <<row, expected, reply, committedAt>>
    BY <1>2 DEF ReadForReplacement, Goto
  <2>2. Outcome(r)' = Outcome(r)
    BY <2>1 DEF Outcome, PhaseInv
  <2> QED
    BY <1>a, <1>b, <2>1, <2>2
<1>3. ASSUME NEW r \in Requests, Load(r) PROVE [Register!Next]_(Register!vars)
  <2>1. committedAt[r] = 0 /\ pc[r] = "load" /\ UNCHANGED <<row, expected, committedAt>>
    BY <1>3 DEF Load, PhaseInv
  <2>2. CASE row.revision = 0
    <3>1. /\ pc' = [pc EXCEPT ![r] = "done"] /\ reply'[r].status = "not_found"
          /\ \A q \in Requests \ {r} : reply'[q] = reply[q]
      BY <1>3, <1>f, <2>2 DEF Load
    <3>2. Outcome(r) = "pending" /\ Outcome(r)' = "refused"
      BY <2>1, <3>1 DEF Outcome
    <3> QED
      BY <1>a, <1>c, <2>1, <2>2, <3>1, <3>2
  <2>3. CASE row.revision # 0
    <3>1. pc' = [pc EXCEPT ![r] = "find"] /\ reply' = reply
      BY <1>3, <2>3 DEF Load, Goto
    <3>2. Outcome(r)' = Outcome(r)
      BY <2>1, <3>1 DEF Outcome
    <3> QED
      BY <1>a, <1>b, <2>1, <3>1, <3>2
  <2> QED
    BY <2>2, <2>3
<1>4. ASSUME NEW r \in Requests, Find(r) PROVE UNCHANGED Register!vars
  <2>1. committedAt[r] = 0 /\ pc[r] = "find" /\ UNCHANGED <<row, expected, committedAt>>
    BY <1>4 DEF Find, PhaseInv
  <2>2. row.revision = 0 => expected[r] \in {None, 0}
    BY DEF MemoryInv
  <2>3. PICK phase \in {"create", "update", "cas"} :
          pc' = [pc EXCEPT ![r] = phase] /\ reply' = reply
    BY <1>4, <2>2 DEF Find, Goto
  <2>4. Outcome(r)' = Outcome(r)
    BY <2>1, <2>3 DEF Outcome
  <2> QED
    BY <1>a, <1>b, <2>1, <2>3, <2>4
<1>5. ASSUME NEW r \in Requests, Create(r) PROVE Register!Next
  <2>1. /\ committedAt[r] = 0 /\ pc[r] = "create" /\ expected[r] \in {None, 0}
        /\ UNCHANGED expected
        /\ pc' = [pc EXCEPT ![r] = "done"]
        /\ \A q \in Requests \ {r} : reply'[q] = reply[q]
    BY <1>5, <1>f DEF Create, AnswerStored, PhaseInv
  <2>2. Outcome(r) = "pending"
    BY <2>1 DEF Outcome
  <2>3. CASE row.revision = 0
    <3>1. Store(r) /\ expected[r] \in {None, row.revision}
      BY <1>5, <2>1, <2>3 DEF Create
    <3> QED
      BY <1>d, <2>1, <2>2, <3>1
  <2>4. CASE row.revision # 0
    <3>1. UNCHANGED <<row, committedAt>> /\ reply'[r].status = "error"
      BY <1>5, <1>f, <2>4 DEF Create
    <3>2. Outcome(r)' = "failed"
      BY <2>1, <3>1 DEF Outcome
    <3> QED
      BY <1>a, <1>e, <2>1, <2>2, <3>1, <3>2
  <2> QED
    BY <2>3, <2>4
<1>6. ASSUME NEW r \in Requests, Cas(r) PROVE [Register!Next]_(Register!vars)
  <2>1. committedAt[r] = 0 /\ pc[r] = "cas" /\ UNCHANGED <<expected, reply>>
    BY <1>6 DEF Cas, PhaseInv
  <2>2. Outcome(r) = "pending"
    BY <2>1 DEF Outcome
  <2>3. CASE row.revision = expected[r]
    <3>1. Store(r) /\ pc' = [pc EXCEPT ![r] = "reread"]
      BY <1>6, <2>3 DEF Cas, Goto
    <3> QED
      BY <1>d, <2>1, <2>2, <2>3, <3>1
  <2>4. CASE row.revision # expected[r]
    <3>1. UNCHANGED <<row, committedAt>> /\ pc' = [pc EXCEPT ![r] = "latest"]
      BY <1>6, <2>4 DEF Cas, Goto
    <3>2. Outcome(r)' = Outcome(r)
      BY <2>1, <3>1 DEF Outcome
    <3> QED
      BY <1>a, <1>b, <2>1, <3>1, <3>2
  <2> QED
    BY <2>3, <2>4
<1>7. ASSUME NEW r \in Requests, Reread(r) PROVE UNCHANGED Register!vars
  <2>1. /\ pc' = [pc EXCEPT ![r] = "done"]
        /\ UNCHANGED <<row, expected, committedAt>>
        /\ \A q \in Requests \ {r} : reply'[q] = reply[q]
        /\ committedAt[r] # 0
    BY <1>7, <1>f DEF Reread, PhaseInv
  <2>2. Outcome(r)' = Outcome(r)
    BY <2>1 DEF Outcome
  <2> QED
    BY <1>a, <1>b, <2>1, <2>2
<1>7a. ASSUME NEW r \in Requests, Latest(r) PROVE Register!Next
  <2>1. /\ pc' = [pc EXCEPT ![r] = "done"] /\ reply'[r].status = "conflict"
        /\ UNCHANGED <<row, expected, committedAt>>
        /\ \A q \in Requests \ {r} : reply'[q] = reply[q]
        /\ pc[r] = "latest" /\ committedAt[r] = 0
    BY <1>7a, <1>f DEF Latest, PhaseInv
  <2>2. Outcome(r) = "pending" /\ Outcome(r)' = "refused"
    BY <2>1 DEF Outcome
  <2>3. expected[r] # row.revision
    <3>1. expected[r] # None /\ expected[r] < row.revision
      BY <2>1 DEF PhaseInv
    <3>2. expected[r] \in Nat /\ row.revision \in Nat
      BY <3>1 DEF Rows
    <3> QED
      BY <3>1, <3>2
  <2> QED
    BY <1>a, <1>c, <2>1, <2>2, <2>3
<1>7b. ASSUME NEW r \in Requests, CallFails(r) PROVE [Register!Next]_(Register!vars)
  <2>1. /\ pc' = [pc EXCEPT ![r] = "done"] /\ reply'[r].status = "error"
        /\ UNCHANGED <<row, expected, committedAt>>
        /\ \A q \in Requests \ {r} : reply'[q] = reply[q]
        /\ pc[r] \notin {"new", "compose", "done"}
    BY <1>7b, <1>f DEF CallFails
  <2>2. Outcomes' = [Outcomes EXCEPT ![r] = Outcome(r)']
    BY <1>a, <2>1
  <2>3. CASE committedAt[r] # 0
    <3>1. Outcome(r)' = Outcome(r)
      BY <2>1, <2>3 DEF Outcome
    <3> QED
      BY <1>b, <2>1, <2>2, <3>1
  <2>4. CASE committedAt[r] = 0
    <3>1. Outcome(r) = "pending" /\ Outcome(r)' = "failed"
      BY <2>1, <2>4 DEF Outcome
    <3> QED
      BY <1>e, <2>1, <2>2, <3>1
  <2> QED
    BY <2>3, <2>4
<1>8. ASSUME NEW r \in Requests, Update(r) PROVE Register!Next
  <2>1. /\ committedAt[r] = 0 /\ pc[r] = "update" /\ expected[r] = None
        /\ Store(r) /\ UNCHANGED expected
        /\ pc' = [pc EXCEPT ![r] = "done"]
        /\ \A q \in Requests \ {r} : reply'[q] = reply[q]
    BY <1>8, <1>f DEF Update, AnswerStored, PhaseInv
  <2>2. Outcome(r) = "pending"
    BY <2>1 DEF Outcome
  <2> QED
    BY <1>d, <2>1, <2>2
<1>9. CASE UNCHANGED vars
  BY <1>9 DEF vars, Register!vars, Outcomes, Outcome
<1> HIDE DEF IInv, TypeOK
<1> QED
  BY <1>1, <1>2, <1>3, <1>4, <1>5, <1>6, <1>7, <1>7a, <1>7b, <1>8, <1>9
     DEF Next, ClientStep, ServerStep

\* The repository implements the versioned register, for any set of requests.
THEOREM Refinement == Spec => ImplementsRegister
<1>1. Init => Register!Init
  BY NoneAssumption DEF Init, Absent, Register!Init, Outcomes, Outcome
<1>2. IInv /\ [Next]_vars => [Register!Next]_(Register!vars)
  BY RefinementStep
<1> QED
  BY <1>1, <1>2, Invariant, PTL DEF Spec, ImplementsRegister, Register!Spec

=============================================================================
