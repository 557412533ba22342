----------------------- MODULE SemanticPolicy_proofs -----------------------
(* Proofs about SemanticPolicy, for any requests, graphs, types of diagram,  *)
(* rules and number of failures.                                             *)
EXTENDS SemanticPolicy, TLAPS

\* The policy in force is the last of the past ones; a policy that was read is one of
\* them, and no request judges or patches before it has one.
PolicyFacts ==
    /\ past[Len(past)] = policy
    /\ \A r \in Requests : used[r] # None =>
         policy # None /\ \E i \in DOMAIN past : past[i] = used[r]
    /\ \A r \in Requests : pc[r] \in {"update", "judge"} => used[r] # None

\* What a request asks for has the types the constants give it.
LEMMA CommandsTyped ==
    ASSUME TypeOK, NEW r \in Requests
    PROVE  /\ ask[r] \in AskType
           /\ ask[r].commands \in Seq(Commands)
           /\ ask[r].patch \in Patches
           /\ CommandsOf(ask[r]) \in Seq(Commands)
  <1>1. ask[r] \in AskType
    BY MixesAssumption DEF TypeOK
  <1>2. ask[r].commands \in Seq(Commands) /\ ask[r].patch \in Patches
        /\ ask[r].content \in SUBSET Marks
    BY <1>1 DEF AskType
  <1>3. ASSUME NEW c \in SUBSET Marks PROVE Replacement(c) \in Commands
    BY DEF Replacement, NoChange, Commands, Changes
  <1>4. ASSUME NEW c \in Commands PROVE <<c>> \in Seq(Commands)
    OBVIOUS
  <1> QED BY <1>1, <1>2, <1>3, <1>4 DEF CommandsOf

\* The policy a project starts with is one, whatever type it takes.
LEMMA DefaultPolicyTyped ==
    ASSUME NEW type \in Types
    PROVE  DefaultPolicy(type) \in Policies
  <1> DEFINE s == [f \in Fields |-> IF f = "diagramType" THEN type
                                                        ELSE f # "allowTechOverride"]
  <1>1. \A f \in Fields : s[f] \in Values(f)
    BY DEF Values
  <1>2. \A f \in Fields : s[f] \in Types \cup BOOLEAN
    BY <1>1 DEF Values
  <1>3. s \in [Fields -> Types \cup BOOLEAN]
    BY <1>2
  <1>4. s \in Settings
    BY <1>1, <1>3 DEF Settings
  <1> QED BY <1>4 DEF DefaultPolicy, Policies

\* A new policy takes a type of diagram.
LEMMA NewPolicyTyped ==
    ASSUME TypeOK, NEW r \in Requests
    PROVE  DefaultPolicy(NewType(r)) \in Policies
  <1>1. ask[r].content \in SUBSET Marks /\ seen[r] \in SUBSET Marks
        /\ row.content \in SUBSET Marks
    BY CommandsTyped DEF TypeOK, AskType
  <1>2. NewType(r) \in Types
    BY <1>1, DrawnAssumption DEF NewType
  <1> QED BY <1>2, DefaultPolicyTyped

\* Patching settings gives settings.
LEMMA PatchedTyped ==
    ASSUME NEW s \in Settings, NEW p \in Patches
    PROVE  Patched(s, p) \in Settings
  <1>1. PICK S \in SUBSET Fields : /\ p \in [S -> Types \cup BOOLEAN]
                                   /\ \A f \in S : p[f] \in Values(f)
    BY DEF Patches
  <1>2. ASSUME NEW f \in Fields
        PROVE  (IF f \in DOMAIN p THEN p[f] ELSE s[f]) \in Values(f)
    BY <1>1 DEF Settings
  <1>3. \A f \in Fields : Values(f) \subseteq Types \cup BOOLEAN
    BY DEF Values
  <1>4. Patched(s, p) \in [Fields -> Types \cup BOOLEAN]
    BY <1>2, <1>3 DEF Patched
  <1> QED BY <1>2, <1>4 DEF Patched, Settings

\* A command is judged for rules.
LEMMA JudgedTyped ==
    ASSUME TypeOK, NEW r \in Requests, left[r] # <<>>
    PROVE  Judged(r) \subseteq Rules
  <1>1. \A s, c : Enforced(s, c) \subseteq Rules
    BY DEF Enforced
  <1>2. ASSUME NEW rules, rules \subseteq Rules, NEW c, NEW d
        PROVE  /\ KindViolations(rules, c, d) \subseteq Rules
               /\ DataViolations(rules, c, d) \subseteq Rules
    BY <1>2 DEF KindViolations, DataViolations, Touched
  <1>3. ASSUME NEW rules, rules \subseteq Rules, NEW c, NEW d,
               d.does \in {"addNode", "addEdge", "updateNode", "updateEdge", "remove",
                           "replace"}
        PROVE  Violated(rules, c, d) \subseteq Rules
    BY <1>2, <1>3 DEF Violated
  <1>4. Head(left[r]) \in Commands
    <2>1. left[r] \in Seq(Commands)
      BY DEF TypeOK
    <2> QED BY <2>1
  <1>5. Head(left[r]).does \in {"addNode", "addEdge", "updateNode", "updateEdge",
                                "remove", "replace"}
    BY <1>4 DEF Commands
  <1> QED BY <1>1, <1>3, <1>5 DEF Judged

LEMMA TypeInit == Init => TypeOK
  <1> SUFFICES ASSUME Init PROVE TypeOK
    OBVIOUS
  <1>1. PICK s \in Starts : row = s.row /\ policy = s.policy /\ past = <<s.policy>>
                            /\ first = s.row.content
    BY DEF Init
  <1>2. /\ row \in [revision : Nat, content : SUBSET Marks]
        /\ policy \in {None} \cup Policies
        /\ past \in Seq({None} \cup Policies) /\ past # <<>>
        /\ first \subseteq Marks
    BY <1>1, StartsAssumption
  <1> QED BY <1>2, MaxFailuresAssumption
          DEF Init, TypeOK, Entries, Steps, Answers, Policies

\* A request that has its policy goes on to one of the steps.
LEMMA AfterPolicyStep ==
    ASSUME NEW a \in AskType
    PROVE  AfterPolicy(a) \in Steps
  BY DEF AfterPolicy, Steps

\* Reading a policy keeps the types of what the reader holds.
LEMMA GotTyped ==
    ASSUME TypeOK, NEW r \in Requests, NEW p \in Policies, Got(r, p)
    PROVE  /\ used' \in [Requests -> {None} \cup Policies]
           /\ pc' \in [Requests -> Steps]
           /\ answer' \in [Requests -> Answers]
  <1>1. AfterPolicy(ask[r]) \in Steps
    BY AfterPolicyStep, CommandsTyped
  <1>2. used' \in [Requests -> {None} \cup Policies] /\ pc' \in [Requests -> Steps]
    BY <1>1 DEF TypeOK, Got, Goto
  <1>3. answer' \in [Requests -> Answers]
    <2>1. "ok" \in Answers /\ answer[r] \in Answers
      BY DEF TypeOK, Answers
    <2> QED BY <2>1 DEF TypeOK, Got
  <1> QED BY <1>2, <1>3

\* The history of policies, and one more policy, is a history of policies.
LEMMA PastTyped ==
    ASSUME TypeOK, NEW p \in Policies
    PROVE  Append(past, p) \in Seq({None} \cup Policies) /\ Append(past, p) # <<>>
  <1> DEFINE S == {None} \cup Policies
  <1>1. past \in Seq(S) /\ p \in S
    BY DEF TypeOK
  <1> HIDE DEF S
  <1>2. Append(past, p) \in Seq(S)
    BY <1>1
  <1>3. Len(Append(past, p)) = Len(past) + 1 /\ Len(past) \in Nat /\ Len(<<>>) = 0
    BY <1>1
  <1>4. Append(past, p) # <<>>
    BY <1>3
  <1> QED BY <1>2, <1>4 DEF S

\* What a patch writes is a policy.
LEMMA UpdateTyped ==
    ASSUME TypeOK, NEW r \in Requests, used[r] # None, policy # None
    PROVE  [settings |-> Patched(used[r].settings, ask[r].patch),
            version |-> policy.version + 1] \in Policies
  <1>1. used[r] \in Policies /\ policy \in Policies
    BY DEF TypeOK
  <1>2. used[r].settings \in Settings /\ policy.version \in Nat
    BY <1>1 DEF Policies
  <1>3. Patched(used[r].settings, ask[r].patch) \in Settings
    BY <1>2, CommandsTyped, PatchedTyped
  <1> QED BY <1>2, <1>3 DEF Policies

\* Accepting a command keeps the types of the graph and of the commands left.
LEMMA AcceptTyped ==
    ASSUME TypeOK, NEW r \in Requests, left[r] # <<>>
    PROVE  Accept(r) => /\ graph' \in [Requests -> SUBSET Marks]
                        /\ left' \in [Requests -> Seq(Commands)]
  <1> SUFFICES ASSUME Accept(r)
               PROVE  /\ graph' \in [Requests -> SUBSET Marks]
                      /\ left' \in [Requests -> Seq(Commands)]
    OBVIOUS
  <1>1. /\ left[r] \in Seq(Commands) /\ graph[r] \in SUBSET Marks
        /\ left \in [Requests -> Seq(Commands)] /\ graph \in [Requests -> SUBSET Marks]
    BY DEF TypeOK
  <1>2. Head(left[r]) \in Commands /\ Tail(left[r]) \in Seq(Commands)
    BY <1>1
  <1>3. Applied(graph[r], Head(left[r])) \in SUBSET Marks
    BY <1>1, <1>2 DEF Applied, Changed, Commands, Changes
  <1> QED BY <1>1, <1>2, <1>3 DEF Accept

\* The log, and one more event, is a log.
LEMMA EntryTyped ==
    ASSUME TypeOK, NEW event \in Events, NEW r \in Requests,
           NEW rs \in SUBSET Rules, NEW n \in Nat
    PROVE  log \cup {Entry(event, r, rs, n)} \subseteq Entries
  BY DEF TypeOK, Entry, Entries

LEMMA TypeNext == TypeOK /\ PolicyFacts /\ [Next]_vars => TypeOK'
  <1> SUFFICES ASSUME TypeOK, PolicyFacts, [Next]_vars PROVE TypeOK'
    OBVIOUS
  <1>1. ASSUME NEW r \in Requests, Receive(r) PROVE TypeOK'
    <2>1. CommandsOf(ask[r]) \in Seq(Commands) /\ Len(past) \in Nat
      BY CommandsTyped DEF TypeOK
    <2> QED BY <1>1, <2>1 DEF TypeOK, Receive, Goto, Steps
  <1>2. ASSUME NEW r \in Requests, Load(r) PROVE TypeOK'
    BY <1>2 DEF TypeOK, Load, Goto, Steps
  <1>3. ASSUME NEW r \in Requests, ReadPolicy(r) PROVE TypeOK'
    <2>1. CASE policy = None
      BY <1>3, <2>1 DEF TypeOK, ReadPolicy, Goto, Steps
    <2>2. CASE policy # None
      <3>1. policy \in Policies /\ Got(r, policy)
        BY <1>3, <2>2 DEF TypeOK, ReadPolicy
      <3> QED BY <1>3, <3>1, GotTyped DEF TypeOK, ReadPolicy
    <2> QED BY <2>1, <2>2
  <1>4. ASSUME NEW r \in Requests, CreatePolicy(r) PROVE TypeOK'
    <2>1. CASE policy = None
      <3>1. past' \in Seq({None} \cup Policies) /\ past' # <<>>
        BY <1>4, <2>1, NewPolicyTyped, PastTyped DEF CreatePolicy
      <3>2. Got(r, DefaultPolicy(NewType(r)))
        BY <1>4, <2>1 DEF CreatePolicy
      <3> QED BY <1>4, <2>1, <3>1, <3>2, NewPolicyTyped, GotTyped DEF TypeOK, CreatePolicy
    <2>2. CASE policy # None
      BY <1>4, <2>2 DEF TypeOK, CreatePolicy, Answer, Goto, Steps, Answers
    <2> QED BY <2>1, <2>2
  <1>5. ASSUME NEW r \in Requests, UpdatePolicy(r) PROVE TypeOK'
    <2>0. used[r] # None /\ policy # None
      BY <1>5 DEF UpdatePolicy, PolicyFacts
    <2>1. policy' \in Policies
      BY <1>5, <2>0, UpdateTyped DEF UpdatePolicy
    <2>2. past' \in Seq({None} \cup Policies) /\ past' # <<>>
      BY <1>5, <2>1, PastTyped DEF UpdatePolicy
    <2> QED BY <1>5, <2>1, <2>2 DEF TypeOK, UpdatePolicy, Answer, Goto, Steps, Answers
  <1>6. ASSUME NEW r \in Requests, Pass(r) PROVE TypeOK'
    BY <1>6, AcceptTyped DEF TypeOK, Pass
  <1>7. ASSUME NEW r \in Requests, Override(r) PROVE TypeOK'
    <2>1. Judged(r) \in SUBSET Rules
      BY <1>7, JudgedTyped DEF Override
    <2> QED BY <1>7, <2>1, AcceptTyped, EntryTyped DEF TypeOK, Override, Events
  <1>8. ASSUME NEW r \in Requests, Block(r) PROVE TypeOK'
    <2>1. Judged(r) \in SUBSET Rules
      BY <1>8, JudgedTyped DEF Block
    <2> QED BY <1>8, <2>1, EntryTyped
            DEF TypeOK, Block, Events, Answer, Goto, Steps, Answers
  <1>9. ASSUME NEW r \in Requests, AllJudged(r) PROVE TypeOK'
    BY <1>9 DEF TypeOK, AllJudged, Goto, Steps
  <1>10. ASSUME NEW r \in Requests, Save(r) PROVE TypeOK'
    <2>1. row.revision \in Nat /\ graph[r] \in SUBSET Marks
      BY DEF TypeOK
    <2>2. row' \in [revision : Nat, content : SUBSET Marks]
      BY <1>10, <2>1 DEF TypeOK, Save
    <2>3. stored' \subseteq [by : Requests, revision : Nat]
      BY <1>10, <2>1 DEF TypeOK, Save
    <2>4. /\ pc' \in [Requests -> Steps] /\ answer' \in [Requests -> Answers]
          /\ told' \in [Requests -> Nat]
      <3>1. CASE Answer(r, "conflict") /\ UNCHANGED told
        BY <3>1 DEF TypeOK, Goto, Answer, Steps, Answers
      <3>2. CASE Goto(r, "reread") /\ UNCHANGED <<told, answer>>
        BY <3>2 DEF TypeOK, Goto, Steps
      <3>3. CASE told' = [told EXCEPT ![r] = row.revision + 1] /\ Finish(r)
        <4>1. told' \in [Requests -> Nat]
          BY <2>1, <3>3 DEF TypeOK
        <4> QED BY <3>3, <4>1 DEF TypeOK, Finish, Goto, Answer, Steps, Answers
      <3> QED BY <1>10, <3>1, <3>2, <3>3 DEF Save
    <2> QED BY <1>10, <2>2, <2>3, <2>4 DEF TypeOK, Save
  <1>11. ASSUME NEW r \in Requests, Reread(r) PROVE TypeOK'
    BY <1>11 DEF TypeOK, Reread, Finish, Goto, Answer, Steps, Answers
  <1>12. ASSUME NEW r \in Requests, LogRepair(r) PROVE TypeOK'
    <2>1. told[r] \in Nat
      BY DEF TypeOK
    <2> QED BY <1>12, <2>1, EntryTyped
            DEF TypeOK, LogRepair, Events, Goto, Answer, Steps, Answers
  <1>13. ASSUME NEW r \in Requests, Report(r) PROVE TypeOK'
    <2>1. BrokenIn(graph[r]) \in SUBSET Rules
      BY DEF BrokenIn
    <2> QED BY <1>13, <2>1, EntryTyped
            DEF TypeOK, Report, Events, Goto, Answer, Steps, Answers
  <1>14. ASSUME NEW r \in Requests, CallFails(r) PROVE TypeOK'
    BY <1>14, MaxFailuresAssumption DEF TypeOK, CallFails, Goto, Answer, Steps, Answers
  <1>15. CASE UNCHANGED vars
    BY <1>15 DEF TypeOK, vars, request
  <1> QED BY <1>1, <1>2, <1>3, <1>4, <1>5, <1>6, <1>7, <1>8, <1>9, <1>10, <1>11, <1>12,
             <1>13, <1>14, <1>15 DEF Next, Step

LEMMA PolicyFactsInit == Init => PolicyFacts
  BY DEF Init, PolicyFacts

LEMMA PolicyFactsNext == TypeOK /\ PolicyFacts /\ [Next]_vars => PolicyFacts'
  <1> SUFFICES ASSUME TypeOK, PolicyFacts, [Next]_vars PROVE PolicyFacts'
    OBVIOUS
  <1>0. Len(past) \in DOMAIN past
    BY DEF TypeOK
  <1>1. ASSUME NEW r \in Requests, ReadPolicy(r) PROVE PolicyFacts'
    BY <1>0, <1>1 DEF TypeOK, PolicyFacts, ReadPolicy, Got, Goto, AfterPolicy
  <1>2. ASSUME NEW p \in Policies, policy' = p, past' = Append(past, p)
        PROVE  /\ past'[Len(past')] = p
               /\ \A i \in DOMAIN past : i \in DOMAIN past' /\ past'[i] = past[i]
               /\ Len(past') \in DOMAIN past'
               /\ p # None
    BY <1>2, NoneAssumption DEF TypeOK
  <1>3. ASSUME NEW r \in Requests, CreatePolicy(r), policy = None PROVE PolicyFacts'
    <2>1. /\ past'[Len(past')] = policy' /\ policy' # None
          /\ \A i \in DOMAIN past : i \in DOMAIN past' /\ past'[i] = past[i]
          /\ Len(past') \in DOMAIN past'
      BY <1>2, <1>3, NewPolicyTyped DEF CreatePolicy
    <2>2. used' = [used EXCEPT ![r] = policy'] /\ pc' = [pc EXCEPT ![r] = AfterPolicy(ask[r])]
      BY <1>3 DEF CreatePolicy, Got, Goto
    <2> QED BY <2>1, <2>2 DEF TypeOK, PolicyFacts
  <1>4. ASSUME NEW r \in Requests, CreatePolicy(r), policy # None PROVE PolicyFacts'
    BY <1>4 DEF TypeOK, PolicyFacts, CreatePolicy, Answer, Goto
  <1>5. ASSUME NEW r \in Requests, UpdatePolicy(r) PROVE PolicyFacts'
    <2>1. policy' \in Policies
      <3>1. used[r] # None /\ policy # None
        BY <1>5 DEF UpdatePolicy, PolicyFacts
      <3> QED BY <1>5, <3>1, UpdateTyped DEF UpdatePolicy
    <2>2. /\ past'[Len(past')] = policy' /\ policy' # None
          /\ \A i \in DOMAIN past : i \in DOMAIN past' /\ past'[i] = past[i]
      BY <1>2, <1>5, <2>1 DEF UpdatePolicy
    <2>3. used' = used /\ pc' = [pc EXCEPT ![r] = "done"]
      BY <1>5 DEF UpdatePolicy, Answer, Goto
    <2> QED BY <2>2, <2>3 DEF TypeOK, PolicyFacts
  <1>6. ASSUME UNCHANGED <<policy, past, used>>,
               \A r \in Requests : pc'[r] \in {"update", "judge"} => pc[r] = pc'[r]
        PROVE  PolicyFacts'
    BY <1>6 DEF PolicyFacts
  <1>7. ASSUME NEW r \in Requests,
               \/ Receive(r) \/ Load(r) \/ Pass(r) \/ Override(r) \/ Block(r)
               \/ AllJudged(r) \/ Save(r) \/ Reread(r) \/ LogRepair(r) \/ Report(r)
               \/ CallFails(r)
        PROVE  PolicyFacts'
    <2>1. UNCHANGED <<policy, past, used>>
      BY <1>7 DEF Receive, Load, Pass, Override, Block, AllJudged, Save, Reread, LogRepair,
                  Report, CallFails
    <2>2. \A q \in Requests : pc'[q] \in {"update", "judge"} => pc[q] = pc'[q]
      BY <1>7 DEF TypeOK, Receive, Load, Pass, Override, Block, AllJudged, Save, Reread,
                  LogRepair, Report, CallFails, Finish, Goto, Answer
    <2> QED BY <1>6, <2>1, <2>2
  <1>8. CASE UNCHANGED vars
    BY <1>6, <1>8 DEF vars, request
  <1> QED BY <1>1, <1>3, <1>4, <1>5, <1>7, <1>8 DEF Next, Step

\* Rows, policies, events and the requests' local state keep their types, for any
\* requests, whatever the interleaving of the handlers.
THEOREM TypeCorrect == Spec => [](TypeOK /\ PolicyFacts)
  <1>1. Init => TypeOK /\ PolicyFacts
    BY TypeInit, PolicyFactsInit
  <1>2. (TypeOK /\ PolicyFacts) /\ [Next]_vars => (TypeOK /\ PolicyFacts)'
    BY TypeNext, PolicyFactsNext
  <1> QED BY <1>1, <1>2, PTL DEF Spec

-----------------------------------------------------------------------------
(* Violations are accounted for.                                           *)

\* What is left to judge are commands the request asks for.
LeftAreAsked ==
    \A r \in Requests : \A i \in DOMAIN left[r] :
      \E j \in DOMAIN CommandsOf(ask[r]) : left[r][i] = CommandsOf(ask[r])[j]

LEMMA LeftInit == Init => LeftAreAsked
  BY DEF Init, LeftAreAsked

LEMMA AskStays == [Next]_vars => ask' = ask
  BY DEF Next, Step, Receive, Load, ReadPolicy, CreatePolicy, UpdatePolicy, Pass, Override,
         Block, AllJudged, Save, Reread, LogRepair, Report, CallFails, vars, request

LEMMA LeftNext == TypeOK /\ LeftAreAsked /\ [Next]_vars => LeftAreAsked'
  <1> SUFFICES ASSUME TypeOK, LeftAreAsked, [Next]_vars,
                      NEW q \in Requests, NEW i \in DOMAIN left'[q]
               PROVE  \E j \in DOMAIN CommandsOf(ask[q]) :
                        left'[q][i] = CommandsOf(ask[q])[j]
    BY AskStays DEF LeftAreAsked, CommandsOf
  <1>1. \A k \in DOMAIN left[q] :
          \E j \in DOMAIN CommandsOf(ask[q]) : left[q][k] = CommandsOf(ask[q])[j]
    BY DEF LeftAreAsked
  <1>2. CASE left'[q] = left[q]
    BY <1>1, <1>2
  <1>3. CASE left'[q] = CommandsOf(ask[q])
    BY <1>3
  <1>4. CASE left[q] # <<>> /\ left'[q] = Tail(left[q])
    <2>1. left[q] \in Seq(Commands)
      BY DEF TypeOK
    <2>2. i + 1 \in DOMAIN left[q] /\ left'[q][i] = left[q][i + 1]
      BY <1>4, <2>1
    <2> QED BY <1>1, <2>2
  <1>5. left'[q] = left[q] \/ left'[q] = CommandsOf(ask[q])
          \/ (left[q] # <<>> /\ left'[q] = Tail(left[q]))
    <2>1. ASSUME NEW r \in Requests, Receive(r)
          PROVE  left'[q] = left[q] \/ left'[q] = CommandsOf(ask[q])
      BY <2>1 DEF TypeOK, Receive
    <2>2. ASSUME NEW r \in Requests, Pass(r) \/ Override(r)
          PROVE  left'[q] = left[q] \/ (left[q] # <<>> /\ left'[q] = Tail(left[q]))
      BY <2>2 DEF TypeOK, Pass, Override, Accept
    <2>3. CASE ~\E r \in Requests : Receive(r) \/ Pass(r) \/ Override(r)
      BY <2>3 DEF Next, Step, Load, ReadPolicy, CreatePolicy, UpdatePolicy, Block,
                  AllJudged, Save, Reread, LogRepair, Report, CallFails, vars, request
    <2> QED BY <2>1, <2>2, <2>3
  <1> QED BY <1>2, <1>3, <1>4, <1>5

\* The next command to judge is one the request asks for.
LEMMA HeadIsAsked ==
    ASSUME TypeOK, LeftAreAsked, NEW r \in Requests, left[r] # <<>>
    PROVE  /\ Head(left[r]) \in Commands
           /\ \E j \in DOMAIN CommandsOf(ask[r]) : Head(left[r]) = CommandsOf(ask[r])[j]
  <1>1. left[r] \in Seq(Commands)
    BY DEF TypeOK
  <1>2. 1 \in DOMAIN left[r] /\ Head(left[r]) = left[r][1] /\ Head(left[r]) \in Commands
    BY <1>1
  <1> QED BY <1>2 DEF LeftAreAsked

\* A rule that a command leaves broken and did not find broken is one it brings.
LEMMA BrokenIsBrought ==
    ASSUME NEW content, NEW command, NEW rule,
           IsBroken(rule, Applied(content, command)), ~IsBroken(rule, content)
    PROVE  Brings(command, rule)
  BY DEF IsBroken, Applied, Changed, Brings

\* A firm policy enforces its rule on every graph.
LEMMA FirmEnforces ==
    ASSUME NEW settings, NEW rule \in Rules, Firm(settings, rule), NEW content
    PROVE  rule \in Enforced(settings, content)
  BY DEF Firm, Enforced, TypeFor

\* What an accepted command is covered for, it was judged for.
LEMMA CoveredIsJudged ==
    ASSUME NEW rules, NEW content, NEW command \in Commands, NEW a, NEW rule \in rules,
           IsBroken(rule, Applied(content, command)), Brings(command, rule),
           Covers(a, command, rule),
           Violated(rules, content, command) = {} \/ a.override
    PROVE  rule \in Violated(rules, content, command)
  <1> DEFINE kind == KindViolations(rules, content, command)
             data == DataViolations(rules, content, command)
  <1>1. CASE command.does = "replace"
    BY <1>1 DEF Violated
  <1>2. CASE /\ command.does \in {"addEdge", "updateEdge", "updateNode"}
             /\ rule.lacks = {} /\ rule.shows \cap command.data.add = {}
    <2>1. rule.shows \subseteq Changed(content, command.main)
      BY <1>2 DEF IsBroken, Applied, Changed
    <2>2. rule.shows \cap command.main.add # {}
      BY <1>2 DEF Brings
    <2>3. rule \in kind
      BY <1>2, <2>1, <2>2 DEF KindViolations, Touched, IsBroken
    <2> HIDE DEF kind, data
    <2>4. \/ Violated(rules, content, command) = kind
          \/ kind = {}
      BY <1>2 DEF Violated, kind, data
    <2> QED BY <2>3, <2>4
  <1>3. CASE /\ command.does = "updateNode" /\ rule.lacks = {}
             /\ rule.type = flow /\ rule.shows \cap Edges # {}
             /\ command.main.add = {} \/ ~a.override
    <2>1. rule.shows \cap (command.main.add \cup command.data.add) # {}
      BY <1>3 DEF Brings
    <2>2. rule \in data
      BY <1>3, <2>1 DEF DataViolations, Touched
    <2>3. Violated(rules, content, command) = IF kind # {} THEN kind ELSE data
      BY <1>3 DEF Violated
    <2>4. kind = {}
      <3>1. CASE command.main.add = {}
        BY <3>1 DEF KindViolations, Touched
      <3>2. CASE ~a.override
        <4> HIDE DEF kind, data
        <4> QED BY <2>3, <3>2
      <3> QED BY <1>3, <3>1, <3>2
    <2> HIDE DEF kind, data
    <2> QED BY <2>2, <2>3, <2>4
  <1> QED BY <1>1, <1>2, <1>3 DEF Covers

\* A rule that an accepted command newly breaks was judged, is not enforced by the policy
\* that was read, or is none the request is judged for.
LEMMA NewlyBroken ==
    ASSUME TypeOK, LeftAreAsked, NEW r \in Requests, left[r] # <<>>,
           Judged(r) = {} \/ CanOverride(ask[r], used[r].settings),
           NEW rule \in BrokenIn(Applied(graph[r], Head(left[r]))),
           rule \notin BrokenIn(graph[r])
    PROVE  \/ rule \in Judged(r)
           \/ ~Firm(used[r].settings, rule)
           \/ Unjudged(ask[r], rule)
  <1>1. PICK command \in Commands : command = Head(left[r])
    BY HeadIsAsked
  <1>2. /\ rule \in Rules /\ IsBroken(rule, Applied(graph[r], command))
        /\ ~IsBroken(rule, graph[r])
    BY <1>1 DEF BrokenIn
  <1>3. Brings(command, rule)
    BY <1>2, BrokenIsBrought
  <1>4. CASE ~Covers(ask[r], command, rule)
    BY <1>1, <1>3, <1>4, HeadIsAsked DEF Unjudged
  <1>5. CASE Covers(ask[r], command, rule) /\ Firm(used[r].settings, rule)
    <2> DEFINE rules == Enforced(used[r].settings, Applied(graph[r], command))
    <2>1. rule \in rules
      BY <1>2, <1>5, FirmEnforces
    <2>2. Judged(r) = Violated(rules, graph[r], command)
      BY <1>1 DEF Judged
    <2> HIDE DEF rules
    <2>3. Violated(rules, graph[r], command) = {} \/ ask[r].override
      BY <2>2 DEF CanOverride
    <2> QED BY <1>2, <1>3, <1>5, <2>1, <2>2, <2>3, CoveredIsJudged
  <1> QED BY <1>4, <1>5

StoredUnjudged(rule) == \E s \in stored : Unjudged(ask[s.by], rule)

Accounted(rule) ==
    rule \in BrokenIn(first) \/ Overridden(rule) \/ Lax(rule) \/ StoredUnjudged(rule)

\* What is about to be stored is accounted for, or will be once it is stored.
GraphsAccounted ==
    /\ \A rule \in BrokenIn(row.content) : Accounted(rule)
    /\ \A r \in Requests : \A rule \in BrokenIn(graph[r]) :
         Accounted(rule) \/ Unjudged(ask[r], rule)

\* The log, the history and what is stored only grow: what was accounted for stays so.
LEMMA AccountedStays ==
    ASSUME TypeOK, first' = first, ask' = ask, log \subseteq log', stored \subseteq stored',
           past' = past \/ \E p \in Policies : past' = Append(past, p)
    PROVE  \A rule : Accounted(rule) => Accounted(rule)'
  <1>1. \A i \in DOMAIN past : i \in DOMAIN past' /\ past'[i] = past[i]
    <2>1. ASSUME NEW S, past \in Seq(S), NEW p \in S
          PROVE  \A i \in DOMAIN past :
                   i \in DOMAIN Append(past, p) /\ Append(past, p)[i] = past[i]
      BY <2>1
    <2>2. past \in Seq({None} \cup Policies)
      BY DEF TypeOK
    <2>3. ASSUME NEW p \in Policies
          PROVE  \A i \in DOMAIN past :
                   i \in DOMAIN Append(past, p) /\ Append(past, p)[i] = past[i]
      BY <2>1, <2>2
    <2> QED BY <2>3
  <1>2. ASSUME NEW rule, Lax(rule) PROVE Lax(rule)'
    BY <1>1, <1>2 DEF Lax, Firm
  <1>3. ASSUME NEW rule, Overridden(rule) PROVE Overridden(rule)'
    BY <1>3 DEF Overridden
  <1>4. ASSUME NEW rule, StoredUnjudged(rule) PROVE StoredUnjudged(rule)'
    BY <1>4 DEF StoredUnjudged, Unjudged, CommandsOf
  <1>5. ASSUME NEW rule, rule \in BrokenIn(first) PROVE rule \in BrokenIn(first')
    BY <1>5
  <1> QED BY <1>2, <1>3, <1>4, <1>5 DEF Accounted, BrokenIn

\* A policy that was read and does not enforce a rule is a lax one of the past.
LEMMA LaxPolicySeen ==
    ASSUME TypeOK, PolicyFacts, NEW r \in Requests, used[r] # None, NEW rule,
           ~Firm(used[r].settings, rule)
    PROVE  Lax(rule)
  BY DEF PolicyFacts, Lax

LEMMA AccountedInit == Init => GraphsAccounted
  <1> SUFFICES ASSUME Init PROVE GraphsAccounted
    OBVIOUS
  <1>1. row.content = first
    BY DEF Init
  <1>2. BrokenIn({}) = {}
    BY RulesAssumption DEF BrokenIn, IsBroken
  <1>3. \A r \in Requests : graph[r] = {}
    BY DEF Init
  <1> QED BY <1>1, <1>2, <1>3 DEF GraphsAccounted, Accounted

LEMMA AccountedNext ==
    TypeOK /\ PolicyFacts /\ LeftAreAsked /\ GraphsAccounted /\ [Next]_vars
      => GraphsAccounted'
  <1> SUFFICES ASSUME TypeOK, PolicyFacts, LeftAreAsked, GraphsAccounted, [Next]_vars
               PROVE  GraphsAccounted'
    OBVIOUS
  <1>0. \A rule : Accounted(rule) => Accounted(rule)'
    <2>1. first' = first /\ log \subseteq log' /\ stored \subseteq stored'
      BY DEF Next, Step, Receive, Load, ReadPolicy, CreatePolicy, UpdatePolicy, Pass,
             Override, Block, AllJudged, Save, Reread, LogRepair, Report, CallFails, vars
    <2>2. past' = past \/ \E p \in Policies : past' = Append(past, p)
      <3>1. CASE \E r \in Requests : CreatePolicy(r)
        BY <3>1, NewPolicyTyped DEF CreatePolicy
      <3>2. CASE \E r \in Requests : UpdatePolicy(r)
        <4>1. PICK r \in Requests : UpdatePolicy(r)
          BY <3>2
        <4>2. used[r] # None /\ policy # None
          BY <4>1 DEF UpdatePolicy, PolicyFacts
        <4> QED BY <4>1, <4>2, UpdateTyped DEF UpdatePolicy
      <3>3. CASE ~(\E r \in Requests : CreatePolicy(r) \/ UpdatePolicy(r))
        BY <3>3 DEF Next, Step, Receive, Load, ReadPolicy, Pass, Override, Block,
                    AllJudged, Save, Reread, LogRepair, Report, CallFails, vars
      <3> QED BY <3>1, <3>2, <3>3
    <2> QED BY <2>1, <2>2, AccountedStays, AskStays
  <1>a. \A q \in Requests : \A rule : Unjudged(ask[q], rule) => Unjudged(ask'[q], rule)
    BY AskStays
  <1>b. /\ \A rule \in BrokenIn(row.content) : Accounted(rule)
        /\ \A q \in Requests : \A rule \in BrokenIn(graph[q]) :
             Accounted(rule) \/ Unjudged(ask[q], rule)
    BY DEF GraphsAccounted
  <1> SUFFICES /\ \A rule \in BrokenIn(row'.content) : Accounted(rule)'
               /\ \A q \in Requests : \A rule \in BrokenIn(graph'[q]) :
                    Accounted(rule)' \/ Unjudged(ask'[q], rule)
    BY DEF GraphsAccounted, BrokenIn
  <1> HIDE DEF Accounted, Unjudged
  <1>1. CASE row' = row /\ graph' = graph
    BY <1>0, <1>1, <1>a, <1>b
  <1>2. ASSUME NEW r \in Requests, Load(r)
        PROVE  /\ row' = row
               /\ \A q \in Requests : graph'[q] = graph[q] \/ graph'[q] = row.content
    BY <1>2 DEF TypeOK, Load
  <1>3. ASSUME NEW r \in Requests, Save(r)
        PROVE  /\ graph' = graph
               /\ \A rule \in BrokenIn(row'.content) : Accounted(rule)'
    <2>1. CASE row' = row
      BY <1>0, <1>3, <1>b, <2>1 DEF Save
    <2>2. CASE row' # row
      <3>1. /\ graph' = graph /\ row'.content = graph[r]
            /\ [by |-> r, revision |-> row.revision + 1] \in stored'
        BY <1>3, <2>2 DEF Save
      <3>2. PICK s \in stored' : s.by = r
        BY <3>1
      <3>3. ASSUME NEW rule, Unjudged(ask[r], rule)
            PROVE  Accounted(rule)'
        <4>1. Unjudged(ask'[s.by], rule)
          BY <1>a, <3>2, <3>3
        <4>2. StoredUnjudged(rule)'
          BY <3>2, <4>1 DEF StoredUnjudged
        <4> QED BY <4>2 DEF Accounted
      <3> QED BY <1>0, <1>b, <3>1, <3>3
    <2> QED BY <2>1, <2>2
  <1>4. ASSUME NEW r \in Requests, Pass(r) \/ Override(r)
        PROVE  /\ row' = row
               /\ \A q \in Requests \ {r} : graph'[q] = graph[q]
               /\ \A rule \in BrokenIn(graph'[r]) : Accounted(rule)' \/ Unjudged(ask[r], rule)
    <2>1. /\ row' = row /\ left[r] # <<>> /\ pc[r] = "judge"
          /\ \A q \in Requests \ {r} : graph'[q] = graph[q]
          /\ graph'[r] = Applied(graph[r], Head(left[r]))
          /\ Judged(r) = {} \/ CanOverride(ask[r], used[r].settings)
      BY <1>4 DEF TypeOK, Pass, Override, Accept
    <2>2. ASSUME NEW rule, ~Firm(used[r].settings, rule)
          PROVE  Accounted(rule)
      <3>1. used[r] # None
        BY <2>1 DEF PolicyFacts
      <3> QED BY <2>2, <3>1, LaxPolicySeen DEF Accounted
    <2>3. ASSUME NEW rule \in Judged(r) PROVE Accounted(rule)'
      <3>1. CASE Pass(r)
        BY <3>1, <2>3 DEF Pass
      <3>2. CASE Override(r)
        <4>1. PICK e : e = Entry("semantic_override_applied", r, Judged(r), 0)
          OBVIOUS
        <4>2. e \in log' /\ e.event = "semantic_override_applied" /\ rule \in e.broken
          BY <2>3, <3>2, <4>1 DEF Override, Entry
        <4>3. Overridden(rule)'
          BY <4>2 DEF Overridden
        <4> QED BY <4>3 DEF Accounted
      <3> QED BY <1>4, <3>1, <3>2
    <2>4. ASSUME NEW rule \in BrokenIn(graph'[r])
          PROVE  Accounted(rule)' \/ Unjudged(ask[r], rule)
      <3>1. CASE rule \in BrokenIn(graph[r])
        BY <1>0, <1>b, <3>1
      <3>2. CASE rule \notin BrokenIn(graph[r])
        <4>1. rule \in BrokenIn(Applied(graph[r], Head(left[r])))
          BY <2>1, <2>4
        <4>2. \/ rule \in Judged(r)
              \/ ~Firm(used[r].settings, rule)
              \/ Unjudged(ask[r], rule)
          BY <2>1, <3>2, <4>1, NewlyBroken
        <4> QED BY <1>0, <2>2, <2>3, <4>2
      <3> QED BY <3>1, <3>2
    <2> QED BY <2>1, <2>4
  <1>5. ASSUME NEW r \in Requests,
               \/ Receive(r) \/ ReadPolicy(r) \/ CreatePolicy(r) \/ UpdatePolicy(r)
               \/ Block(r) \/ AllJudged(r) \/ Reread(r) \/ LogRepair(r) \/ Report(r)
               \/ CallFails(r)
        PROVE  row' = row /\ graph' = graph
    BY <1>5 DEF Receive, ReadPolicy, CreatePolicy, UpdatePolicy, Block, AllJudged, Reread,
                LogRepair, Report, CallFails
  <1>6. CASE UNCHANGED vars
    BY <1>1, <1>6 DEF vars, request
  <1>7. CASE \E r \in Requests : Load(r)
    BY <1>0, <1>2, <1>7, <1>a, <1>b
  <1>8. CASE \E r \in Requests : Save(r)
    BY <1>0, <1>3, <1>8, <1>a, <1>b
  <1>9. CASE \E r \in Requests : Pass(r) \/ Override(r)
    BY <1>0, <1>4, <1>9, <1>a, <1>b
  <1> QED BY <1>1, <1>5, <1>6, <1>7, <1>8, <1>9 DEF Next, Step

\* A stored violation was in the first graph, was overridden in the log, is of a rule some
\* policy did not enforce, or was brought by a command of a stored request that is not
\* judged for it: for any number of requests, whatever interleaves or fails.
THEOREM ViolationsAccounted == Spec => []ViolationsAreAccounted
  <1>1. Init => GraphsAccounted
    BY AccountedInit
  <1>2. Spec => []LeftAreAsked
    BY LeftInit, LeftNext, TypeCorrect, PTL DEF Spec
  <1>3. GraphsAccounted => ViolationsAreAccounted
    BY DEF GraphsAccounted, ViolationsAreAccounted, Accounted, StoredUnjudged
  <1> QED BY <1>1, <1>2, <1>3, AccountedNext, TypeCorrect, PTL DEF Spec

-----------------------------------------------------------------------------
(* What was refused is not stored; what the log calls repaired is.         *)

Ended == {"violation", "conflict"}

\* Where a request stands, against what it logged and stored.
StoredFacts ==
    /\ \A r \in Requests : pc[r] # "done" => answer[r] = "none"
    /\ \A s \in stored : /\ pc[s.by] \in {"reread", "repair", "done"}
                        /\ s.revision <= row.revision
    /\ \A e \in log : e.event = "semantic_violation_blocked" => pc[e.by] = "done"
    /\ \A r \in Requests : pc[r] \in {"reread", "repair"} => \E s \in stored : s.by = r
    /\ \A r \in Requests : pc[r] = "repair" =>
         \E s \in stored : s.by = r /\ s.revision <= told[r]

LogFacts == StoredFacts /\ RefusedStoresNothing /\ RepairsWereStored

LEMMA LogFactsInit == Init => LogFacts
  BY DEF Init, LogFacts, StoredFacts, RefusedStoresNothing, RepairsWereStored

LEMMA LogFactsNext == TypeOK /\ LogFacts /\ [Next]_vars => LogFacts'
  <1> SUFFICES ASSUME TypeOK, LogFacts, [Next]_vars PROVE LogFacts'
    OBVIOUS
  <1> USE DEF LogFacts, StoredFacts, RefusedStoresNothing, RepairsWereStored
  <1>0. /\ \A s \in stored : s.by \in Requests /\ s.revision \in Nat
        /\ \A e \in log : e.by \in Requests /\ e.revision \in Nat
        /\ row.revision \in Nat
        /\ pc \in [Requests -> Steps] /\ answer \in [Requests -> Answers]
        /\ told \in [Requests -> Nat]
    BY DEF TypeOK, Entries
  <1>1. ASSUME NEW r \in Requests, Receive(r) \/ Load(r) \/ Pass(r) \/ AllJudged(r)
        PROVE  LogFacts'
    <2>1. /\ UNCHANGED <<row, log, stored, told, answer>>
          /\ pc[r] \in {"idle", "load", "judge"}
          /\ pc' = pc \/ pc' = [pc EXCEPT ![r] = pc'[r]]
          /\ pc'[r] \in {"load", "policy", "judge", "save"}
      BY <1>0, <1>1 DEF Receive, Load, Pass, AllJudged, Goto
    <2> QED BY <1>0, <2>1
  <1>2. ASSUME NEW r \in Requests, Override(r) PROVE LogFacts'
    BY <1>0, <1>2 DEF Override, Entry
  <1>3. ASSUME NEW r \in Requests, ReadPolicy(r) \/ CreatePolicy(r) \/ UpdatePolicy(r)
        PROVE  LogFacts'
    <2>1. UNCHANGED <<row, log, stored, told>>
      BY <1>3 DEF ReadPolicy, CreatePolicy, UpdatePolicy
    <2>2. /\ pc[r] \in {"policy", "create", "update"}
          /\ pc' = [pc EXCEPT ![r] = pc'[r]]
          /\ pc'[r] \in {"create", "judge", "report", "update", "done"}
          /\ answer' = [answer EXCEPT ![r] = answer'[r]]
          /\ answer'[r] \notin Ended
          /\ pc'[r] # "done" => answer'[r] = answer[r]
      BY <1>0, <1>3 DEF ReadPolicy, CreatePolicy, UpdatePolicy, Got, Goto, Answer, AfterPolicy,
                        Ended
    <2> QED BY <1>0, <2>1, <2>2 DEF Ended
  <1>4. ASSUME NEW r \in Requests, Block(r) PROVE LogFacts'
    BY <1>0, <1>4 DEF Block, Entry, Answer, Goto
  <1>5. ASSUME NEW r \in Requests, Save(r) PROVE LogFacts'
    <2>1. CASE Answer(r, "conflict") /\ UNCHANGED <<row, stored>>
      BY <1>0, <1>5, <2>1 DEF Save, Answer, Goto
    <2>2. CASE row' = [revision |-> row.revision + 1, content |-> graph[r]]
               /\ stored' = stored \cup {[by |-> r, revision |-> row.revision + 1]}
      <3>1. /\ row'.revision = row.revision + 1
            /\ stored' = stored \cup {[by |-> r, revision |-> row.revision + 1]}
            /\ pc[r] = "save" /\ pc' = [pc EXCEPT ![r] = pc'[r]]
            /\ pc'[r] \in {"reread", "repair", "done"}
            /\ pc'[r] = "repair" => told' = [told EXCEPT ![r] = row.revision + 1]
            /\ told' = [told EXCEPT ![r] = told'[r]]
            /\ answer' = [answer EXCEPT ![r] = answer'[r]]
            /\ answer'[r] \in {"none", "ok"}
            /\ pc'[r] # "done" => answer'[r] = "none"
            /\ log' = log
        <4>1. pc[r] = "save" /\ log' = log /\ answer[r] = "none"
          BY <1>5 DEF Save
        <4>2. CASE Goto(r, "reread") /\ UNCHANGED <<told, answer>>
          BY <1>0, <2>2, <4>1, <4>2 DEF Goto
        <4>3. CASE told' = [told EXCEPT ![r] = row.revision + 1] /\ Finish(r)
          BY <1>0, <2>2, <4>1, <4>3 DEF Finish, Answer, Goto
        <4>4. \/ Goto(r, "reread") /\ UNCHANGED <<told, answer>>
              \/ told' = [told EXCEPT ![r] = row.revision + 1] /\ Finish(r)
              \/ row' = row
          BY <1>5 DEF Save
        <4>5. row' # row
          BY <1>0, <2>2
        <4> QED BY <4>2, <4>3, <4>4, <4>5
      <3>2. answer[r] = "none"
        BY <3>1
      <3>3. \A e \in log : e.by = r => e.event # "semantic_violation_blocked"
        BY <3>1
      <3>4. \E s \in stored' : s.by = r /\ s.revision = row.revision + 1
        <4> DEFINE mine == [by |-> r, revision |-> row.revision + 1]
        <4>1. mine \in stored' /\ mine.by = r /\ mine.revision = row.revision + 1
          BY <1>0, <3>1
        <4> QED BY <4>1
      <3>5. \A s \in stored' : /\ pc'[s.by] \in {"reread", "repair", "done"}
                              /\ s.revision <= row'.revision
                              /\ answer'[s.by] \notin {"violation", "conflict"}
        BY <1>0, <3>1, <3>2
      <3>6. RefusedStoresNothing'
        BY <1>0, <3>1, <3>3, <3>5
      <3>7. RepairsWereStored'
        BY <1>0, <3>1
      <3>8. StoredFacts'
        <4>1. \A q \in Requests : pc'[q] = "repair" =>
                \E s \in stored' : s.by = q /\ s.revision <= told'[q]
          BY <1>0, <3>1, <3>4
        <4>2. \A q \in Requests : pc'[q] \in {"reread", "repair"} =>
                \E s \in stored' : s.by = q
          BY <1>0, <3>1, <3>4
        <4>3. \A q \in Requests : pc'[q] # "done" => answer'[q] = "none"
          BY <1>0, <3>1
        <4>4. \A e \in log' : e.event = "semantic_violation_blocked" => pc'[e.by] = "done"
          BY <1>0, <3>1
        <4> QED BY <3>5, <4>1, <4>2, <4>3, <4>4
      <3> QED BY <3>6, <3>7, <3>8
    <2> QED BY <1>5, <2>1, <2>2 DEF Save
  <1>6. ASSUME NEW r \in Requests, Reread(r) PROVE LogFacts'
    BY <1>0, <1>6 DEF Reread, Finish, Answer, Goto
  <1>7. ASSUME NEW r \in Requests, LogRepair(r) PROVE LogFacts'
    BY <1>0, <1>7 DEF LogRepair, Entry, Answer, Goto
  <1>8. ASSUME NEW r \in Requests, Report(r) PROVE LogFacts'
    BY <1>0, <1>8 DEF Report, Entry, Answer, Goto
  <1>9. ASSUME NEW r \in Requests, CallFails(r) PROVE LogFacts'
    BY <1>0, <1>9 DEF CallFails, Answer, Goto
  <1>10. CASE UNCHANGED vars
    BY <1>10 DEF vars, request
  <1> QED BY <1>1, <1>2, <1>3, <1>4, <1>5, <1>6, <1>7, <1>8, <1>9, <1>10 DEF Next, Step

\* What was refused stored nothing, and a logged repair was stored.
THEOREM TrueEvents == Spec => []EventsTellTheTruth
  <1>1. LogFacts => EventsTellTheTruth
    BY DEF LogFacts, EventsTellTheTruth
  <1> QED BY <1>1, LogFactsInit, LogFactsNext, TypeCorrect, PTL DEF Spec

-----------------------------------------------------------------------------
(* How each step changes the history of policies and what a request holds. *)

\* A step leaves the policy alone, creates the first one or updates it; either way the
\* policies there have been stay where they were.
PolicyKept == policy' = policy /\ past' = past

PolicyCreated ==
    /\ policy = None
    /\ policy' \in Policies
    /\ past' = Append(past, policy')

PolicyUpdated ==
    /\ policy # None
    /\ policy' \in Policies
    /\ policy'.version = policy.version + 1
    /\ past' = Append(past, policy')

LEMMA PolicyEffect ==
    ASSUME TypeOK, PolicyFacts, [Next]_vars
    PROVE  PolicyKept \/ PolicyCreated \/ PolicyUpdated
<1>1. ASSUME NEW r \in Requests, CreatePolicy(r)
      PROVE  PolicyKept \/ PolicyCreated
  BY <1>1, NewPolicyTyped DEF CreatePolicy, PolicyKept, PolicyCreated
<1>2. ASSUME NEW r \in Requests, UpdatePolicy(r)
      PROVE  PolicyUpdated
  <2>1. used[r] # None /\ policy # None
    BY <1>2 DEF UpdatePolicy, PolicyFacts
  <2>2. policy' \in Policies
    BY <1>2, <2>1, UpdateTyped DEF UpdatePolicy
  <2>3. policy'.version = policy.version + 1 /\ past' = Append(past, policy')
    BY <1>2 DEF UpdatePolicy
  <2> QED
    BY <2>1, <2>2, <2>3 DEF PolicyUpdated
<1>3. CASE ~\E r \in Requests : CreatePolicy(r) \/ UpdatePolicy(r)
  BY <1>3 DEF PolicyKept, Next, Step, Receive, Load, ReadPolicy, Pass, Override, Block,
              AllJudged, Save, Reread, LogRepair, Report, CallFails, vars
<1> QED
  BY <1>1, <1>2, <1>3

\* A step that changes what a request holds of the policy gives it the policy in force
\* once the step is done.
LEMMA UsedEffect ==
    ASSUME TypeOK, [Next]_vars, NEW q \in Requests, used'[q] # used[q]
    PROVE  used'[q] = policy' /\ policy' # None
<1>1. ASSUME NEW r \in Requests, ReadPolicy(r)
      PROVE  used'[q] = policy' /\ policy' # None
  BY <1>1 DEF TypeOK, ReadPolicy, Got
<1>2. ASSUME NEW r \in Requests, CreatePolicy(r)
      PROVE  used'[q] = policy' /\ policy' # None
  BY <1>2, NewPolicyTyped, NoneAssumption DEF TypeOK, CreatePolicy, Got
<1>3. CASE ~\E r \in Requests : ReadPolicy(r) \/ CreatePolicy(r)
  BY <1>3 DEF Next, Step, Receive, Load, UpdatePolicy, Pass, Override, Block, AllJudged,
              Save, Reread, LogRepair, Report, CallFails, vars, request
<1> QED
  BY <1>1, <1>2, <1>3

-----------------------------------------------------------------------------
(* Patches are lost only in races.                                         *)

\* Versions only grow: what a request read is no newer than the policy in force, and is
\* the policy in force as long as the version is the same.
VersionFacts ==
    \A r \in Requests : used[r] # None =>
      /\ used[r].version <= policy.version
      /\ used[r].version = policy.version => used[r] = policy

LEMMA VersionInit == Init => VersionFacts
  BY DEF Init, VersionFacts

LEMMA VersionNext ==
    ASSUME TypeOK, PolicyFacts, VersionFacts, [Next]_vars
    PROVE  VersionFacts'
<1> SUFFICES ASSUME NEW r \in Requests, used'[r] # None
             PROVE  /\ used'[r].version <= policy'.version
                    /\ used'[r].version = policy'.version => used'[r] = policy'
  BY DEF VersionFacts
<1>1. TypeOK'
  BY TypeNext
<1>2. used'[r] \in Policies
  BY <1>1 DEF TypeOK
<1>3. used'[r].version \in Nat
  BY <1>2 DEF Policies
<1>4. CASE used'[r] # used[r]
  BY <1>3, <1>4, UsedEffect
<1>5. CASE used'[r] = used[r]
  <2>1. /\ policy # None
        /\ used[r].version <= policy.version
        /\ used[r].version = policy.version => used[r] = policy
    BY <1>5 DEF PolicyFacts, VersionFacts
  <2>2. policy.version \in Nat
    BY <2>1 DEF TypeOK, Policies
  <2>3. CASE PolicyKept
    BY <1>5, <2>1, <2>3 DEF PolicyKept
  <2>4. CASE PolicyUpdated
    <3>1. policy'.version = policy.version + 1
      BY <2>4 DEF PolicyUpdated
    <3> QED
      BY <1>3, <1>5, <2>1, <2>2, <3>1
  <2>5. ~PolicyCreated
    BY <2>1 DEF PolicyCreated
  <2> QED
    BY <2>3, <2>4, <2>5, PolicyEffect
<1> QED
  BY <1>4, <1>5

\* A request that is at its patch and is then told it went well has just made it.
LEMMA PatchIsMade ==
    ASSUME TypeOK, LogFacts, [Next]_vars, NEW r \in Requests,
           pc[r] = "update", answer'[r] = "ok"
    PROVE  UpdatePolicy(r)
<1>1. answer[r] = "none"
  BY DEF LogFacts, StoredFacts
<1>2. ASSUME NEW q \in Requests, Step(q) \/ CallFails(q), q # r
      PROVE  answer'[r] = answer[r]
  BY <1>2 DEF TypeOK, Step, Receive, Load, ReadPolicy, CreatePolicy, UpdatePolicy, Pass,
              Override, Block, AllJudged, Save, Reread, LogRepair, Report, CallFails, Got,
              Finish, Answer
<1>3. CASE CallFails(r)
  BY <1>3 DEF TypeOK, CallFails, Answer
<1>4. CASE UNCHANGED vars
  BY <1>1, <1>4 DEF vars, request
<1>5. CASE Step(r)
  BY <1>5 DEF Step, Receive, Load, ReadPolicy, CreatePolicy, Pass, Override, Block,
              AllJudged, Save, Reread, LogRepair, Report
<1> QED
  BY <1>1, <1>2, <1>3, <1>4, <1>5 DEF Next

LEMMA PatchedElsewhere ==
    ASSUME NEW s, NEW p, NEW f \in Fields \ DOMAIN p
    PROVE  Patched(s, p)[f] = s[f]
  BY DEF Patched

\* What PatchesAreLostOnlyInRaces says of one step.
PatchKeepsTheRest ==
    \A r \in Requests : pc[r] = "update" /\ answer'[r] = "ok" =>
      \/ used[r].version # policy.version
      \/ \A f \in Fields \ DOMAIN ask[r].patch :
           policy'.settings[f] = policy.settings[f]

LEMMA PatchStep ==
    ASSUME TypeOK, PolicyFacts, LogFacts, VersionFacts, [Next]_vars
    PROVE  PatchKeepsTheRest
<1> SUFFICES ASSUME NEW r \in Requests, pc[r] = "update", answer'[r] = "ok",
                    used[r].version = policy.version,
                    NEW f \in Fields \ DOMAIN ask[r].patch
             PROVE  policy'.settings[f] = policy.settings[f]
  BY DEF PatchKeepsTheRest
<1>1. UpdatePolicy(r)
  BY PatchIsMade
<1>2. used[r] = policy
  BY DEF PolicyFacts, VersionFacts
<1>3. policy'.settings = Patched(policy.settings, ask[r].patch)
  BY <1>1, <1>2 DEF UpdatePolicy
<1> QED
  BY <1>3, PatchedElsewhere

\* A patch of the policy keeps every field it does not name, unless another patch came
\* between its reading and its writing, whatever else fails or interleaves.
THEOREM PatchesLostInRaces == Spec => PatchesAreLostOnlyInRaces
<1>1. Spec => [](TypeOK /\ PolicyFacts)
  BY TypeCorrect
<1>2. Spec => []LogFacts
  BY LogFactsInit, LogFactsNext, TypeCorrect, PTL DEF Spec
<1>3. Spec => []VersionFacts
  BY VersionInit, VersionNext, TypeCorrect, PTL DEF Spec
<1>4. TypeOK /\ PolicyFacts /\ LogFacts /\ VersionFacts /\ [Next]_vars
        => [PatchKeepsTheRest]_vars
  BY PatchStep
<1>5. Spec => [][PatchKeepsTheRest]_vars
  BY <1>1, <1>2, <1>3, <1>4, PTL DEF Spec
<1> QED
  BY <1>5, PTL DEF PatchesAreLostOnlyInRaces, PatchKeepsTheRest

-----------------------------------------------------------------------------
(* A violation is stored under a policy of the time of its request.        *)

\* The policies in force while r has been running.
Times(r) == since[r] .. Len(past)

LaxSince(r, rule) ==
    \E i \in Times(r) : past[i] # None /\ ~Firm(past[i].settings, rule)

OverriddenBy(r, rule) ==
    \E e \in log : /\ e.event = "semantic_override_applied"
                   /\ e.by = r /\ rule \in e.broken

Excused(r, rule) ==
    OverriddenBy(r, rule) \/ LaxSince(r, rule) \/ Unjudged(ask[r], rule)

\* What a request holds of the policy was in force while it ran, and what it added to the
\* graph it loaded is excused; before it was received it holds nothing.
HeldFacts ==
    \A r \in Requests :
      /\ since[r] \in 1 .. Len(past)
      /\ pc[r] = "idle" => used[r] = None /\ graph[r] = {}
      /\ used[r] # None => \E i \in Times(r) : past[i] = used[r]
      /\ \A rule \in BrokenIn(graph[r]) \ BrokenIn(seen[r]) : Excused(r, rule)

\* A rule shows something, so an empty graph breaks none.
LEMMA NothingIsBroken == BrokenIn({}) = {}
  BY RulesAssumption DEF BrokenIn, IsBroken

LEMMA HeldInit == Init => HeldFacts
<1> SUFFICES ASSUME Init, NEW r \in Requests
             PROVE  /\ since[r] \in 1 .. Len(past)
                    /\ used[r] = None /\ graph[r] = {}
  BY NothingIsBroken DEF HeldFacts
<1>1. PICK p : past = <<p>>
  BY DEF Init
<1> QED
  BY <1>1 DEF Init

\* The policies there have been stay where they were.
LEMMA PastGrows ==
    ASSUME TypeOK, PolicyFacts, [Next]_vars
    PROVE  /\ Len(past) \in Nat \ {0} /\ Len(past') \in Nat
           /\ Len(past) <= Len(past')
           /\ \A i \in 1 .. Len(past) : past'[i] = past[i]
           /\ past'[Len(past')] = policy'
<1>1. past \in Seq({None} \cup Policies) /\ past # <<>>
  BY DEF TypeOK
<1>2. Len(past) \in Nat \ {0}
  BY <1>1
<1>3. CASE past' = past
  BY <1>2, <1>3, PolicyFactsNext DEF PolicyFacts
<1>4. CASE past' = Append(past, policy') /\ policy' \in Policies
  <2>1. PICK p \in {None} \cup Policies : p = policy'
    BY <1>4
  <2>2. past' = Append(past, p)
    BY <1>4, <2>1
  <2> QED
    BY <1>1, <1>2, <2>1, <2>2
<1> QED
  BY <1>3, <1>4, PolicyEffect
     DEF PolicyKept, PolicyCreated, PolicyUpdated

LEMMA LogGrows == [Next]_vars => log \subseteq log'
  BY DEF Next, Step, Receive, Load, ReadPolicy, CreatePolicy, UpdatePolicy, Pass, Override,
         Block, AllJudged, Save, Reread, LogRepair, Report, CallFails, vars

\* How a step changes what it concerns of a request q.
HoldsStill(q) ==
    /\ since'[q] = since[q] /\ seen'[q] = seen[q] /\ graph'[q] = graph[q]

Received(q) ==
    /\ pc[q] = "idle" /\ pc'[q] # "idle" /\ since'[q] = Len(past)
    /\ past' = past /\ seen'[q] = seen[q] /\ graph'[q] = graph[q] /\ used'[q] = used[q]

Loaded(q) ==
    /\ pc[q] # "idle" /\ since'[q] = since[q] /\ seen'[q] = graph'[q]

Judging(q) ==
    /\ pc[q] = "judge" /\ left[q] # <<>>
    /\ since'[q] = since[q] /\ seen'[q] = seen[q] /\ used'[q] = used[q]
    /\ graph'[q] = Applied(graph[q], Head(left[q]))
    /\ Judged(q) = {} \/ CanOverride(ask[q], used[q].settings)
    /\ \A rule \in Judged(q) : OverriddenBy(q, rule)'

\* A request is left alone, received, given a graph, or judged.
LEMMA RequestEffect ==
    ASSUME TypeOK, [Next]_vars, NEW q \in Requests
    PROVE  /\ \/ HoldsStill(q) \/ Received(q) \/ Loaded(q) \/ Judging(q)
           /\ pc'[q] = "idle" => pc[q] = "idle" /\ used'[q] = used[q]
<1>1. ASSUME NEW r \in Requests, Step(r) \/ CallFails(r), r # q
      PROVE  HoldsStill(q) /\ pc'[q] = pc[q] /\ used'[q] = used[q]
  BY <1>1 DEF TypeOK, HoldsStill, Step, Receive, Load, ReadPolicy, CreatePolicy,
              UpdatePolicy, Pass, Override, Block, AllJudged, Save, Reread, LogRepair,
              Report, CallFails, Got, Finish, Goto, Answer, Accept
<1>2. CASE Receive(q)
  BY <1>2 DEF TypeOK, Receive, Received, Goto
<1>3. CASE Load(q)
  BY <1>3 DEF TypeOK, Load, Loaded, Goto
<1>4. CASE Pass(q)
  BY <1>4 DEF TypeOK, Pass, Judging, Accept
<1>5. CASE Override(q)
  <2>1. /\ pc[q] = "judge" /\ left[q] # <<>> /\ pc' = pc
        /\ UNCHANGED <<since, seen, used>>
        /\ graph'[q] = Applied(graph[q], Head(left[q]))
        /\ CanOverride(ask[q], used[q].settings)
    BY <1>5 DEF TypeOK, Override, Accept
  <2>2. ASSUME NEW rule \in Judged(q)
        PROVE  OverriddenBy(q, rule)'
    <3>1. PICK e : e = Entry("semantic_override_applied", q, Judged(q), 0)
      OBVIOUS
    <3>2. e \in log'
      BY <1>5, <3>1 DEF Override
    <3>3. e.event = "semantic_override_applied" /\ e.by = q /\ rule \in e.broken
      BY <2>2, <3>1 DEF Entry
    <3> QED
      BY <3>2, <3>3 DEF OverriddenBy
  <2> QED
    BY <2>1, <2>2 DEF Judging
<1>6. CASE \/ ReadPolicy(q) \/ CreatePolicy(q) \/ UpdatePolicy(q) \/ Block(q)
           \/ AllJudged(q) \/ Save(q) \/ Reread(q) \/ LogRepair(q) \/ Report(q)
           \/ CallFails(q)
  BY <1>6 DEF TypeOK, HoldsStill, ReadPolicy, CreatePolicy, UpdatePolicy, Block, AllJudged,
              Save, Reread, LogRepair, Report, CallFails, Got, Finish, Goto, Answer,
              AfterPolicy
<1>7. CASE UNCHANGED vars
  BY <1>7 DEF vars, request, HoldsStill
<1> QED
  BY <1>1, <1>2, <1>3, <1>4, <1>5, <1>6, <1>7 DEF Next, Step

LEMMA ExcusedStays ==
    ASSUME TypeOK, PolicyFacts, HeldFacts, [Next]_vars, NEW q \in Requests,
           since'[q] = since[q], NEW rule, Excused(q, rule)
    PROVE  Excused(q, rule)'
<1>1. CASE OverriddenBy(q, rule)
  BY <1>1, LogGrows DEF OverriddenBy, Excused
<1>2. CASE LaxSince(q, rule)
  <2>1. PICK i \in Times(q) : past[i] # None /\ ~Firm(past[i].settings, rule)
    BY <1>2 DEF LaxSince
  <2>2. i \in since'[q] .. Len(past') /\ past'[i] = past[i]
    BY <2>1, PastGrows DEF HeldFacts, Times
  <2>3. past'[i] # None /\ ~Firm(past'[i].settings, rule)
    BY <2>1, <2>2
  <2> QED
    BY <2>2, <2>3 DEF Excused, LaxSince, Times, Firm
<1>3. CASE Unjudged(ask[q], rule)
  BY <1>3, AskStays DEF Excused
<1> QED
  BY <1>1, <1>2, <1>3 DEF Excused

\* A policy that was read and does not enforce a rule was lax while its reader ran.
LEMMA LaxWhileRunning ==
    ASSUME HeldFacts, NEW r \in Requests, used[r] # None, NEW rule,
           ~Firm(used[r].settings, rule)
    PROVE  LaxSince(r, rule)
  BY DEF HeldFacts, LaxSince

LEMMA HeldNext ==
    ASSUME TypeOK, PolicyFacts, LeftAreAsked, HeldFacts, [Next]_vars
    PROVE  HeldFacts'
<1> SUFFICES ASSUME NEW q \in Requests
             PROVE  /\ since'[q] \in 1 .. Len(past')
                    /\ pc'[q] = "idle" => used'[q] = None /\ graph'[q] = {}
                    /\ used'[q] # None => \E i \in Times(q)' : past'[i] = used'[q]
                    /\ \A rule \in BrokenIn(graph'[q]) \ BrokenIn(seen'[q]) :
                         Excused(q, rule)'
  BY DEF HeldFacts, BrokenIn
<1>1. /\ Len(past) \in Nat \ {0} /\ Len(past') \in Nat
      /\ Len(past) <= Len(past')
      /\ \A i \in 1 .. Len(past) : past'[i] = past[i]
      /\ past'[Len(past')] = policy'
  BY PastGrows
<1>2. /\ since[q] \in 1 .. Len(past)
      /\ pc[q] = "idle" => used[q] = None /\ graph[q] = {}
      /\ used[q] # None => \E i \in since[q] .. Len(past) : past[i] = used[q]
      /\ \A rule \in BrokenIn(graph[q]) \ BrokenIn(seen[q]) : Excused(q, rule)
  BY DEF HeldFacts, Times
<1>3. /\ \/ HoldsStill(q) \/ Received(q) \/ Loaded(q) \/ Judging(q)
      /\ pc'[q] = "idle" => pc[q] = "idle" /\ used'[q] = used[q]
  BY RequestEffect
<1>4. since'[q] = since[q] \/ Received(q)
  BY <1>3 DEF HoldsStill, Loaded, Judging
<1>5. since'[q] \in 1 .. Len(past')
  BY <1>1, <1>2, <1>4 DEF Received
<1>6. pc'[q] = "idle" => used'[q] = None /\ graph'[q] = {}
  BY <1>2, <1>3 DEF HoldsStill, Received, Loaded, Judging
<1>7. ASSUME used'[q] # None
      PROVE  \E i \in since'[q] .. Len(past') : past'[i] = used'[q]
  <2>1. CASE used'[q] # used[q]
    <3>1. past'[Len(past')] = used'[q]
      BY <1>1, <2>1, UsedEffect
    <3>2. Len(past') \in since'[q] .. Len(past')
      BY <1>1, <1>5
    <3> QED
      BY <3>1, <3>2
  <2>2. CASE used'[q] = used[q]
    <3>1. since'[q] = since[q]
      BY <1>2, <1>4, <1>7, <2>2 DEF Received
    <3>2. PICK i \in since[q] .. Len(past) : past[i] = used[q]
      BY <1>2, <1>7, <2>2
    <3>3. i \in since'[q] .. Len(past') /\ past'[i] = used'[q]
      BY <1>1, <1>2, <2>2, <3>1, <3>2
    <3> QED
      BY <3>3
  <2> QED
    BY <2>1, <2>2
<1>8. ASSUME NEW rule \in BrokenIn(graph'[q]) \ BrokenIn(seen'[q])
      PROVE  Excused(q, rule)'
  <2>1. CASE HoldsStill(q)
    <3>1. Excused(q, rule)
      BY <1>2, <1>8, <2>1 DEF HoldsStill
    <3> QED
      BY <2>1, <3>1, ExcusedStays DEF HoldsStill
  <2>2. CASE Received(q)
    BY <1>2, <1>8, <2>2, NothingIsBroken DEF Received
  <2>3. CASE Loaded(q)
    BY <1>8, <2>3 DEF Loaded
  <2>4. CASE Judging(q)
    <3>1. used[q] # None /\ since'[q] = since[q] /\ seen'[q] = seen[q]
      BY <2>4 DEF Judging, PolicyFacts
    <3>2. CASE rule \in BrokenIn(graph[q])
      <4>1. Excused(q, rule)
        BY <1>2, <1>8, <3>1, <3>2
      <4> QED
        BY <3>1, <4>1, ExcusedStays
    <3>3. CASE rule \notin BrokenIn(graph[q])
      <4>1. \/ rule \in Judged(q)
            \/ ~Firm(used[q].settings, rule)
            \/ Unjudged(ask[q], rule)
        BY <1>8, <2>4, <3>3, NewlyBroken DEF Judging
      <4>2. CASE rule \in Judged(q)
        BY <2>4, <4>2 DEF Judging, Excused
      <4>3. CASE ~Firm(used[q].settings, rule)
        <5>1. Excused(q, rule)
          BY <3>1, <4>3, LaxWhileRunning DEF Excused
        <5> QED
          BY <3>1, <5>1, ExcusedStays
      <4>4. CASE Unjudged(ask[q], rule)
        <5>1. Excused(q, rule)
          BY <4>4 DEF Excused
        <5> QED
          BY <3>1, <5>1, ExcusedStays
      <4> QED
        BY <4>1, <4>2, <4>3, <4>4
    <3> QED
      BY <3>2, <3>3
  <2> QED
    BY <1>3, <2>1, <2>2, <2>3, <2>4
<1> QED
  BY <1>5, <1>6, <1>7, <1>8 DEF Times

\* What a step adds to what is stored is the graph of a request.
LEMMA SaveIsMade ==
    ASSUME TypeOK, [Next]_vars, NEW s \in stored' \ stored
    PROVE  s.by \in Requests /\ row'.content = graph[s.by]
<1>1. ASSUME NEW q \in Requests, Save(q)
      PROVE  s.by \in Requests /\ row'.content = graph[s.by]
  BY <1>1 DEF Save
<1>2. CASE ~\E q \in Requests : Save(q)
  BY <1>2 DEF Next, Step, Receive, Load, ReadPolicy, CreatePolicy, UpdatePolicy, Pass,
              Override, Block, AllJudged, Reread, LogRepair, Report, CallFails, vars
<1> QED
  BY <1>1, <1>2

\* What StoredUnderAPolicyOfItsTime says of one step.
StoresWhatIsExcused ==
    \A s \in stored' \ stored :
      \A rule \in BrokenIn(row'.content) \ BrokenIn(seen[s.by]) :
        \/ \E e \in log : /\ e.event = "semantic_override_applied"
                          /\ e.by = s.by /\ rule \in e.broken
        \/ \E i \in since[s.by] .. Len(past) :
             past[i] # None /\ ~Firm(past[i].settings, rule)
        \/ Unjudged(ask[s.by], rule)

LEMMA StoreStep ==
    ASSUME TypeOK, HeldFacts, [Next]_vars
    PROVE  StoresWhatIsExcused
<1> SUFFICES ASSUME NEW s \in stored' \ stored,
                    NEW rule \in BrokenIn(row'.content) \ BrokenIn(seen[s.by])
             PROVE  Excused(s.by, rule)
  BY DEF StoresWhatIsExcused, Excused, OverriddenBy, LaxSince, Times
<1>1. s.by \in Requests /\ row'.content = graph[s.by]
  BY SaveIsMade
<1> QED
  BY <1>1 DEF HeldFacts

\* Whatever interleaves or fails, a request stores a violation it adds only by an override
\* of its own, under a policy that was lax at some time while it ran, or by a command of
\* its own that is not judged for it.
THEOREM StoredInItsTime == Spec => StoredUnderAPolicyOfItsTime
<1>1. Spec => [](TypeOK /\ PolicyFacts)
  BY TypeCorrect
<1>2. Spec => []HeldFacts
  <2>1. Spec => []LeftAreAsked
    BY LeftInit, LeftNext, TypeCorrect, PTL DEF Spec
  <2> QED
    BY <2>1, HeldInit, HeldNext, TypeCorrect, PTL DEF Spec
<1>3. TypeOK /\ HeldFacts /\ [Next]_vars => [StoresWhatIsExcused]_vars
  BY StoreStep
<1>4. Spec => [][StoresWhatIsExcused]_vars
  BY <1>1, <1>2, <1>3, PTL DEF Spec
<1> QED
  BY <1>4, PTL DEF StoredUnderAPolicyOfItsTime, StoresWhatIsExcused
=============================================================================
