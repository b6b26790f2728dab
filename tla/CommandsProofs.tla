--------------------------- MODULE CommandsProofs ---------------------------
(***************************************************************************)
(* The safety of the commands of Commands, for any number of names,        *)
(* workers, nodes, clients, files, rebuilds and signals.  Each component   *)
(* has an inductive invariant of its own, and a step of one leaves the     *)
(* variables of the others alone.                                          *)
(***************************************************************************)
EXTENDS Commands, FiniteSetTheorems, TLAPS

----------------------------------------------------------------------------
(* deploy *)

\* Every submitted name is queued, being deployed or done, and what was collected is
\* what the workers returned.
DeployInv ==
  /\ DOMAIN results \subseteq DOMAIN future
  /\ \A n \in DOMAIN results : results[n] = (future[n] = "ok")
  /\ IF phase = "load"
     THEN queue = {} /\ working = {} /\ DOMAIN future = {}
     ELSE queue \cup working \cup DOMAIN future = Submitted
  /\ queue \cap working = {} /\ (queue \cup working) \cap DOMAIN future = {}
  /\ phase = "ended" => queue = {} /\ working = {}
  /\ exit = 0 => phase = "ended" /\ DOMAIN results = Submitted
                 /\ \A n \in DOMAIN results : results[n]

LEMMA DeployInvInit == Init \/ NoDeploy => DeployInv
BY DEF Init, NoDeploy, DeployInv, Submitted, NotYet

LEMMA DeployInvNext == DeployInv /\ [Next]_vars => DeployInv'
<1> SUFFICES ASSUME DeployInv, [Next]_vars PROVE DeployInv'
  OBVIOUS
<1> USE DEF DeployInv, Submitted
<1>1. CASE Load
  BY <1>1 DEF Load
<1>2. ASSUME NEW n \in Name, Take(n) PROVE DeployInv'
  BY <1>2 DEF Take
<1>3. ASSUME NEW n \in Name, NEW r \in {"ok", "failed", "raised"}, Complete(n, r)
      PROVE  DeployInv'
  <2>1. n \in working /\ n \notin DOMAIN future /\ n \notin DOMAIN results
    BY <1>3 DEF Complete
  <2>2. /\ DOMAIN future' = DOMAIN future \cup {n}
        /\ \A k \in DOMAIN future : k # n => future'[k] = future[k]
    BY <1>3 DEF Complete
  <2>3. /\ phase' = phase /\ exit' = exit /\ results' = results /\ queue' = queue
        /\ working' = working \ {n} /\ targets' = targets /\ rendered' = rendered
    BY <1>3 DEF Complete
  <2>4. phase # "ended" /\ phase # "load"
    BY <2>1
  <2> QED
    BY <2>1, <2>2, <2>3, <2>4
<1>4. ASSUME NEW n \in Name, Collect(n) PROVE DeployInv'
  <2>1. exit # 0 /\ phase = "collect"
    BY <1>4 DEF Collect
  <2>2. CASE future[n] = "raised"
    BY <1>4, <2>1, <2>2 DEF Collect
  <2>3. CASE future[n] # "raised"
    <3>1. /\ DOMAIN results' = DOMAIN results \cup {n}
          /\ \A k \in DOMAIN results' : results'[k] = IF k = n THEN future[n] = "ok" ELSE results[k]
      BY <1>4, <2>3 DEF Collect
    <3>2. /\ n \in DOMAIN future
          /\ UNCHANGED <<targets, rendered, queue, working, future, phase, exit>>
      BY <1>4, <2>3 DEF Collect
    <3> QED
      BY <2>1, <3>1, <3>2
  <2> QED
    BY <2>2, <2>3
<1>5. CASE Abandon
  BY <1>5 DEF Abandon, PoolDrained
<1>6. CASE Report
  <2>1. /\ phase = "collect" /\ DOMAIN results = Submitted /\ phase' = "ended"
        /\ UNCHANGED <<targets, rendered, queue, working, future, results>>
        /\ exit' = 0 => \A n \in DOMAIN results : results[n]
    BY <1>6 DEF Report
  <2> QED
    BY <2>1
<1>7. CASE UNCHANGED vars
  BY <1>7 DEF vars
<1> QED
  BY <1>1, <1>2, <1>3, <1>4, <1>5, <1>6, <1>7 DEF Next, Work, Taking, Main

LEMMA DeployInvGives == DeployInv => ExitZeroMeansDeployed /\ NothingLeftBehind
<1> SUFFICES ASSUME DeployInv PROVE ExitZeroMeansDeployed /\ NothingLeftBehind
  OBVIOUS
<1>1. ExitZeroMeansDeployed
  BY DEF DeployInv, ExitZeroMeansDeployed
<1>2. NothingLeftBehind
  BY DEF DeployInv, NothingLeftBehind
<1> QED
  BY <1>1, <1>2
----------------------------------------------------------------------------
(* health, audit, monitor *)

CheckName ==
  TcpChecks \cup {"hy2", "tls", "wg"} \cup Critical \cup {"security", "hardening"}
    \cup {"row", "system", "network", "wireguard", "certs"}

Entry == [node : Node, check : CheckName, ok : BOOLEAN]
           \cup [node : Node, check : CheckName, ok : BOOLEAN, errors : BOOLEAN]

CheckTypes ==
  /\ command \in {"health", "audit", "monitor", "monitorOnce"}
  /\ live \subseteq Node
  /\ ~Monitoring => wanted = {}
  /\ active \in [Node -> BOOLEAN] /\ reachable \in [Node -> BOOLEAN]
  /\ todo \subseteq Node /\ \A n \in todo : Questions(n) # <<>>
  /\ visiting = {} \/ \E n \in todo : visiting = {n}
  /\ visiting = {} => asked = 1 /\ row = NoRow
  /\ asked \in 1 .. 6 /\ \A n \in visiting : asked <= Len(Questions(n))
  /\ row \in [up : BOOLEAN, errors : BOOLEAN]
  /\ report \in Seq(Entry)
  /\ state \in {"looking", "asleep", "ended"}
  /\ state # "looking" => todo = {}
  /\ state = "asleep" => Monitoring

\* What the verdict rests on while the command is under way: a node that was asked
\* the question that tells was up, or has made the verdict a failure.
VerdictInv ==
  /\ command = "health" =>
       \A n \in live \cap NearNode :
         n \in todo \ visiting \/ <<n, TRUE>> \in seen \/ Failing # {}
  /\ command = "audit" =>
       \A n \in live : n \in todo \/ <<n, TRUE>> \in seen \/ Failing # {}
  /\ state = "ended" /\ status = 0 /\ ~Monitoring => todo = {} /\ Failing = {}

RowInv ==
  Monitoring =>
    /\ \A n \in visiting : row.up => <<n, TRUE>> \in seen
    /\ \A n \in visiting :
         asked > 3 /\ ~row.up /\ ~row.errors => <<n, FALSE>> \in seen
    /\ \A i \in DOMAIN report :
         /\ report[i].ok => <<report[i].node, TRUE>> \in seen
         /\ ~report[i].ok /\ ~report[i].errors => <<report[i].node, FALSE>> \in seen

CheckInv == CheckTypes /\ VerdictInv /\ RowInv

LEMMA CheckInvInit == CheckInit \/ NoCheck => CheckInv
<1>1. ASSUME CheckInit PROVE CheckInv
  <2>1. CheckTypes
    BY <1>1 DEF CheckInit, CheckTypes, Monitoring, NoRow, ToVisit
  <2>2. VerdictInv
    <3>1. command = "health" => live \cap NearNode \subseteq todo
      <4>1. ASSUME command = "health", NEW n \in live \cap NearNode PROVE Questions(n) # <<>>
        <5>1. Questions(n) = <<"reality", "direct", "hy2", "cdn", "anytls", "tls">>
          BY <4>1 DEF Questions, Monitoring
        <5> QED
          BY <5>1
      <4> QED
        BY <1>1, <4>1 DEF CheckInit, ToVisit, Monitoring
    <3>2. command = "audit" => live \subseteq todo
      <4>1. ASSUME command = "audit", NEW n \in live PROVE Questions(n) # <<>>
        <5>1. Questions(n) = <<"connect", "security", "service">>
          BY <4>1 DEF Questions
        <5> QED
          BY <5>1
      <4> QED
        BY <1>1, <4>1 DEF CheckInit, ToVisit, Monitoring
    <3> QED
      BY <1>1, <3>1, <3>2 DEF CheckInit, VerdictInv
  <2>3. RowInv
    BY <1>1 DEF CheckInit, RowInv
  <2> QED
    BY <2>1, <2>2, <2>3 DEF CheckInv
<1>2. ASSUME NoCheck PROVE CheckInv
  <2>1. CheckTypes
    BY <1>2 DEF NoCheck, CheckTypes, Monitoring, NoRow
  <2>2. VerdictInv
    BY <1>2 DEF NoCheck, VerdictInv, Monitoring
  <2>3. RowInv
    BY <1>2 DEF NoCheck, RowInv
  <2> QED
    BY <2>1, <2>2, <2>3 DEF CheckInv
<1> QED
  BY <1>1, <1>2

\* What a question leaves alone, and what it adds to the history.
LEMMA AskingKeeps ==
  ASSUME NEW n, Asking(n)
  PROVE  /\ n \in todo /\ visiting \subseteq {n} /\ state = "looking"
         /\ UNCHANGED <<command, live, ported, wanted, active, reachable, state, status>>
         /\ seen' = seen \cup {<<n, active[n]>>}
BY DEF Asking, settings, network

\* A failure that is in the report stays in it.
LEMMA FailingGrows ==
  ASSUME CheckTypes, UNCHANGED command,
         \/ UNCHANGED report
         \/ \E e \in Entry : report' = Append(report, e)
  PROVE  Failing \subseteq Failing'
BY DEF CheckTypes, Failing

\* The question that tells: the first one of health for a near node, the last one
\* of audit, the third of monitor.
LEMMA QuestionFacts ==
  ASSUME CheckTypes, NEW n \in Node
  PROVE  /\ command = "health" /\ n \in NearNode => Questions(n)[1] = "reality"
         /\ command = "health" => Questions(n) = <<>> \/ Questions(n) = <<"wg">> \/
              Questions(n) = <<"reality", "direct", "hy2", "cdn", "anytls", "tls">>
         /\ command = "audit" => Questions(n) = <<"connect", "security", "service">>
         /\ Monitoring =>
              Questions(n) = <<"connect", "system", "service", "network", "wireguard", "certs">>
         /\ Len(Questions(n)) \in 0 .. 6
         /\ Questions(n) # <<>> => Len(Questions(n)) \in 1 .. 6
<1> USE DEF Monitoring
<1>1. CASE command = "health" /\ n \in NearNode
  <2>1. Questions(n) = <<"reality", "direct", "hy2", "cdn", "anytls", "tls">>
    BY <1>1 DEF Questions
  <2> QED
    BY <1>1, <2>1
<1>2. CASE command = "health" /\ n \notin NearNode
  <2>1. Questions(n) = <<"wg">> \/ Questions(n) = <<>>
    BY <1>2 DEF Questions
  <2> QED
    BY <1>2, <2>1
<1>3. CASE command = "audit"
  <2>1. Questions(n) = <<"connect", "security", "service">>
    BY <1>3 DEF Questions
  <2> QED
    BY <1>3, <2>1
<1>4. CASE Monitoring
  <2>1. Questions(n) = <<"connect", "system", "service", "network", "wireguard", "certs">>
    BY <1>4 DEF Questions
  <2> QED
    BY <1>4, <2>1
<1> QED
  BY <1>1, <1>2, <1>3, <1>4 DEF CheckTypes

\* The position of the next question is right, whether the node is left or not.
LEMMA PlaceKeeps ==
  ASSUME CheckTypes, NEW n \in Node, Asking(n), LeaveNode(n) \/ (~LastQuestion(n) /\ visiting' = {n}
           /\ asked' = asked + 1 /\ todo' = todo /\ row' \in [up : BOOLEAN, errors : BOOLEAN])
  PROVE  /\ todo' \subseteq Node /\ asked' \in 1 .. 6
         /\ visiting' = {} \/ \E k \in todo' : visiting' = {k}
         /\ visiting' = {} => asked' = 1 /\ row' = NoRow
         /\ \A k \in visiting' : asked' <= Len(Questions(k)')
         /\ row' \in [up : BOOLEAN, errors : BOOLEAN]
         /\ asked \in 1 .. Len(Questions(n))
         /\ \A k \in todo' : Questions(k)' # <<>>
<1>1. /\ n \in todo /\ visiting \subseteq {n} /\ UNCHANGED <<command, ported>>
  BY AskingKeeps
<1>2. Len(Questions(n)) \in 1 .. 6
  BY <1>1, QuestionFacts DEF CheckTypes
<1>3. asked \in 1 .. Len(Questions(n))
  <2>1. CASE visiting = {}
    <3>1. asked = 1
      BY <2>1 DEF CheckTypes
    <3> QED
      BY <1>2, <3>1
  <2>2. CASE visiting = {n}
    <3>1. asked \in 1 .. 6 /\ asked <= Len(Questions(n))
      BY <2>2 DEF CheckTypes
    <3> QED
      BY <1>2, <3>1
  <2> QED
    BY <1>1, <2>1, <2>2
<1>4. \A k : Questions(k)' = Questions(k)
  BY <1>1 DEF Questions, Monitoring
<1>t. \A k \in todo' : Questions(k)' # <<>>
  <2>1. todo' \subseteq todo
    BY DEF LeaveNode
  <2> QED
    BY <1>4, <2>1 DEF CheckTypes
<1>5. CASE LeaveNode(n)
  <2>1. todo' = todo \ {n} /\ visiting' = {} /\ asked' = 1 /\ row' = NoRow
    BY <1>5 DEF LeaveNode
  <2>2. NoRow \in [up : BOOLEAN, errors : BOOLEAN] /\ todo \subseteq Node
    BY DEF NoRow, CheckTypes
  <2> QED
    BY <1>3, <1>t, <2>1, <2>2
<1>6. CASE ~LastQuestion(n) /\ visiting' = {n} /\ asked' = asked + 1 /\ todo' = todo
             /\ row' \in [up : BOOLEAN, errors : BOOLEAN]
  <2>1. asked + 1 <= Len(Questions(n))
    BY <1>2, <1>3, <1>6 DEF LastQuestion
  <2>2. asked' = asked + 1 /\ visiting' = {n} /\ todo' = todo /\ asked + 1 \in 1 .. 6
    <3>1. ASSUME NEW l \in 1 .. 6, NEW a \in 1 .. l, a + 1 <= l PROVE a + 1 \in 1 .. 6
      BY <3>1
    <3>2. asked + 1 \in 1 .. 6
      BY <1>2, <1>3, <2>1, <3>1
    <3> QED
      BY <1>6, <3>2
  <2>3. \A k \in visiting' : asked' <= Len(Questions(k)')
    BY <1>4, <2>1, <2>2
  <2>4. todo \subseteq Node
    BY DEF CheckTypes
  <2> QED
    BY <1>1, <1>3, <1>6, <1>t, <2>2, <2>3, <2>4
<1> QED
  BY <1>5, <1>6, <1>t

LEMMA ProbeKeeps == ASSUME CheckInv, NEW n \in Node, Probe(n) PROVE CheckInv'
<1> DEFINE q == Questions(n)[asked]
<1> USE DEF CheckInv
<1>1. PICK ok \in Answers(n, q) : report' = Append(report, Result(n, q, ok))
  BY DEF Probe
<1>2. command = "health" /\ Asking(n) /\ Onward(n)
  BY DEF Probe
<1>3. /\ n \in todo /\ visiting \subseteq {n} /\ state = "looking"
      /\ UNCHANGED <<command, live, ported, wanted, active, reachable, state, status>>
      /\ seen' = seen \cup {<<n, active[n]>>}
  BY <1>2, AskingKeeps
<1>4. LeaveNode(n) \/ (~LastQuestion(n) /\ visiting' = {n} /\ asked' = asked + 1
                        /\ todo' = todo /\ row' \in [up : BOOLEAN, errors : BOOLEAN])
  BY <1>2 DEF Onward, CheckTypes
<1>5. /\ todo' \subseteq Node /\ asked' \in 1 .. 6
      /\ visiting' = {} \/ \E k \in todo' : visiting' = {k}
      /\ visiting' = {} => asked' = 1 /\ row' = NoRow
      /\ \A k \in visiting' : asked' <= Len(Questions(k)')
      /\ row' \in [up : BOOLEAN, errors : BOOLEAN]
      /\ asked \in 1 .. Len(Questions(n))
      /\ \A k \in todo' : Questions(k)' # <<>>
  BY <1>2, <1>4, PlaceKeeps
<1>6. q \in CheckName
  <2>1. CASE Questions(n) = <<"wg">>
    BY <1>5, <2>1 DEF CheckName
  <2>2. CASE Questions(n) = <<"reality", "direct", "hy2", "cdn", "anytls", "tls">>
    <3>1. asked \in 1 .. 6
      BY <1>5, <2>2
    <3> QED
      BY <2>2, <3>1 DEF CheckName, TcpChecks
  <2>3. Questions(n) # <<>>
    BY <1>3 DEF CheckTypes
  <2> QED
    BY <1>2, <2>1, <2>2, <2>3, QuestionFacts
<1>7. ok \in BOOLEAN
  BY <1>1 DEF Answers
<1>8. Result(n, q, ok) \in Entry
  BY <1>6, <1>7 DEF Result, Entry
<1>9. CheckTypes'
  BY <1>1, <1>3, <1>5, <1>8 DEF CheckTypes, Monitoring
<1>10. Failing \subseteq Failing'
  BY <1>1, <1>3, <1>8, FailingGrows
<1>11. n \in NearNode /\ visiting = {} => <<n, TRUE>> \in seen' \/ Failing' # {}
  <2> SUFFICES ASSUME n \in NearNode, visiting = {}, ~active[n] PROVE Failing' # {}
    BY <1>3 DEF CheckTypes
  <2>1. q = "reality"
    BY <1>2, QuestionFacts DEF CheckTypes
  <2>2. ok = FALSE
    BY <1>1, <2>1 DEF Answers, TcpChecks
  <2>3. Len(report) + 1 \in DOMAIN report' /\ ~report'[Len(report) + 1].ok
    BY <1>1, <1>8, <2>2 DEF Result, CheckTypes
  <2> QED
    BY <1>2, <1>3, <2>3 DEF Failing
<1>12. todo \ {n} \subseteq todo' \ visiting'
  BY <1>3, <1>4 DEF LeaveNode
<1>13. VerdictInv'
  BY <1>2, <1>3, <1>10, <1>11, <1>12 DEF VerdictInv, CheckTypes
<1>14. RowInv'
  BY <1>2, <1>3 DEF RowInv, Monitoring
<1> QED
  BY <1>9, <1>13, <1>14

LEMMA InspectKeeps == ASSUME CheckInv, NEW n \in Node, Inspect(n) PROVE CheckInv'
<1> DEFINE q == Questions(n)[asked]
<1> USE DEF CheckInv
<1>1. PICK found \in Findings(n, q) :
        report' = IF found = "none" THEN report ELSE Append(report, Result(n, found, FALSE))
  BY DEF Inspect
<1>2. command = "audit" /\ Asking(n) /\ Onward(n)
  BY DEF Inspect
<1>3. /\ n \in todo /\ visiting \subseteq {n} /\ state = "looking"
      /\ UNCHANGED <<command, live, ported, wanted, active, reachable, state, status>>
      /\ seen' = seen \cup {<<n, active[n]>>}
  BY <1>2, AskingKeeps
<1>4. LeaveNode(n) \/ (~LastQuestion(n) /\ visiting' = {n} /\ asked' = asked + 1
                        /\ todo' = todo /\ row' \in [up : BOOLEAN, errors : BOOLEAN])
  BY <1>2 DEF Onward, CheckTypes
<1>5. /\ todo' \subseteq Node /\ asked' \in 1 .. 6
      /\ visiting' = {} \/ \E k \in todo' : visiting' = {k}
      /\ visiting' = {} => asked' = 1 /\ row' = NoRow
      /\ \A k \in visiting' : asked' <= Len(Questions(k)')
      /\ row' \in [up : BOOLEAN, errors : BOOLEAN]
      /\ asked \in 1 .. Len(Questions(n))
      /\ \A k \in todo' : Questions(k)' # <<>>
  BY <1>2, <1>4, PlaceKeeps
<1>6. found # "none" => Result(n, found, FALSE) \in Entry
  <2>1. found # "none" => found \in CheckName
    BY <1>1 DEF Findings, CheckName, Critical
  <2> QED
    BY <2>1 DEF Result, Entry
<1>r. report' = report \/ \E e \in Entry : report' = Append(report, e)
  BY <1>1, <1>6
<1>7. CheckTypes'
  <2>1. report' \in Seq(Entry)
    BY <1>r DEF CheckTypes
  <2> QED
    BY <1>3, <1>5, <2>1 DEF CheckTypes, Monitoring
<1>8. Failing \subseteq Failing'
  BY <1>3, <1>r, FailingGrows
<1>9. n \notin todo' => <<n, TRUE>> \in seen' \/ Failing' # {}
  <2> SUFFICES ASSUME n \notin todo', ~active[n] PROVE Failing' # {}
    BY <1>3 DEF CheckTypes
  <2>1. asked = Len(Questions(n))
    BY <1>2, <1>3 DEF Onward, LastQuestion
  <2>2. q = "service"
    <3>1. Questions(n) = <<"connect", "security", "service">>
      BY <1>2, QuestionFacts
    <3>2. asked = 3
      BY <2>1, <3>1
    <3> QED
      BY <3>1, <3>2
  <2>3. found = "service"
    BY <1>1, <2>2 DEF Findings
  <2>4. /\ Len(report) + 1 \in DOMAIN report'
        /\ report'[Len(report) + 1].check = "service"
    BY <1>1, <1>6, <2>3 DEF Result, CheckTypes
  <2> QED
    BY <1>2, <1>3, <2>4 DEF Failing, Critical
<1>10. todo \ {n} \subseteq todo'
  BY <1>3, <1>4 DEF LeaveNode
<1>11. VerdictInv'
  BY <1>2, <1>3, <1>8, <1>9, <1>10 DEF VerdictInv, CheckTypes
<1>12. RowInv'
  BY <1>2, <1>3 DEF RowInv, Monitoring
<1> QED
  BY <1>7, <1>11, <1>12

LEMMA InspectFailsKeeps == ASSUME CheckInv, NEW n \in Node, InspectFails(n) PROVE CheckInv'
<1> USE DEF CheckInv
<1>1. /\ report' = Append(report, Result(n, "connect", FALSE))
      /\ command = "audit" /\ Asking(n) /\ LeaveNode(n)
  BY DEF InspectFails
<1>2. /\ n \in todo /\ visiting \subseteq {n} /\ state = "looking"
      /\ UNCHANGED <<command, live, ported, wanted, active, reachable, state, status>>
      /\ seen' = seen \cup {<<n, active[n]>>}
  BY <1>1, AskingKeeps
<1>3. /\ todo' \subseteq Node /\ asked' \in 1 .. 6
      /\ visiting' = {} \/ \E k \in todo' : visiting' = {k}
      /\ visiting' = {} => asked' = 1 /\ row' = NoRow
      /\ \A k \in visiting' : asked' <= Len(Questions(k)')
      /\ row' \in [up : BOOLEAN, errors : BOOLEAN]
      /\ \A k \in todo' : Questions(k)' # <<>>
  BY <1>1, PlaceKeeps
<1>4. Result(n, "connect", FALSE) \in Entry
  BY DEF Result, Entry, CheckName, Critical
<1>5. CheckTypes'
  <2>1. report' \in Seq(Entry)
    <3>1. \E e \in Entry : report' = Append(report, e)
      BY <1>1, <1>4
    <3> QED
      BY <3>1 DEF CheckTypes
  <2> QED
    BY <1>2, <1>3, <2>1 DEF CheckTypes, Monitoring
<1>6. Failing' # {}
  <2>1. /\ Len(report) + 1 \in DOMAIN report'
        /\ report'[Len(report) + 1].check = "connect"
    BY <1>1, <1>4 DEF Result, CheckTypes
  <2> QED
    BY <1>1, <1>2, <2>1 DEF Failing, Critical
<1>7. VerdictInv'
  BY <1>1, <1>2, <1>6 DEF VerdictInv, CheckTypes
<1>8. RowInv'
  BY <1>1, <1>2 DEF RowInv, Monitoring
<1> QED
  BY <1>5, <1>7, <1>8

LEMMA GatherKeeps == ASSUME CheckInv, NEW n \in Node, Gather(n) PROVE CheckInv'
<1> DEFINE q == Questions(n)[asked]
           r == RowWith(n, reachable[n])
           entry == [node |-> n, check |-> "row", ok |-> r.up, errors |-> r.errors]
           leave == LastQuestion(n) \/ (asked = 1 /\ ~reachable[n])
<1> USE DEF CheckInv
<1>1. Monitoring /\ Asking(n)
  BY DEF Gather
<1>2. \/ report' = Append(report, entry) /\ LeaveNode(n) /\ leave
      \/ /\ ~leave /\ visiting' = {n} /\ asked' = asked + 1 /\ row' = r
         /\ UNCHANGED <<todo, report>>
  BY DEF Gather, Add
<1>3. /\ n \in todo /\ visiting \subseteq {n} /\ state = "looking"
      /\ UNCHANGED <<command, live, ported, wanted, active, reachable, state, status>>
      /\ seen' = seen \cup {<<n, active[n]>>}
  BY <1>1, AskingKeeps
<1>4. active[n] \in BOOLEAN /\ reachable[n] \in BOOLEAN
  BY DEF CheckTypes
<1>5. r \in [up : BOOLEAN, errors : BOOLEAN]
  BY <1>4 DEF RowWith, CheckTypes
<1> HIDE DEF r
<1>6. LeaveNode(n) \/ (~LastQuestion(n) /\ visiting' = {n} /\ asked' = asked + 1
                        /\ todo' = todo /\ row' \in [up : BOOLEAN, errors : BOOLEAN])
  BY <1>2, <1>5
<1>7. /\ todo' \subseteq Node /\ asked' \in 1 .. 6
      /\ visiting' = {} \/ \E k \in todo' : visiting' = {k}
      /\ visiting' = {} => asked' = 1 /\ row' = NoRow
      /\ \A k \in visiting' : asked' <= Len(Questions(k)')
      /\ row' \in [up : BOOLEAN, errors : BOOLEAN]
      /\ asked \in 1 .. Len(Questions(n))
      /\ \A k \in todo' : Questions(k)' # <<>>
  BY <1>1, <1>6, PlaceKeeps
<1>8. entry \in Entry
  BY <1>5 DEF Entry, CheckName
<1>9. CheckTypes'
  <2>1. report' \in Seq(Entry)
    <3>1. report \in Seq(Entry)
      BY DEF CheckTypes
    <3> QED
      BY <1>2, <1>8, <3>1
  <2> QED
    BY <1>3, <1>7, <2>1 DEF CheckTypes, Monitoring
<1>10. Questions(n) = <<"connect", "system", "service", "network", "wireguard", "certs">>
  BY <1>1, QuestionFacts
<1>11. asked \in 1 .. 6 /\ (q = "service" <=> asked = 3) /\ (LastQuestion(n) <=> asked = 6)
  <2>1. asked \in 1 .. 6
    BY <1>7, <1>10
  <2> QED
    BY <1>10, <2>1 DEF LastQuestion
\* What the row says after this question, whoever was asked before.
<1>12. r.up => <<n, TRUE>> \in seen'
  <2>1. CASE reachable[n] /\ q = "service"
    BY <1>3, <1>4, <2>1 DEF RowWith, r
  <2>2. CASE ~(reachable[n] /\ q = "service")
    <3>1. r.up = row.up
      BY <2>2 DEF RowWith, r
    <3>2. row.up => n \in visiting
      BY <1>3 DEF CheckTypes, NoRow
    <3> QED
      BY <1>1, <1>3, <3>1, <3>2 DEF RowInv
  <2> QED
    BY <2>1, <2>2
<1>13. ~r.up /\ ~r.errors /\ (asked > 2 \/ leave) => <<n, FALSE>> \in seen'
  <2> SUFFICES ASSUME ~r.up, ~r.errors, asked > 2 \/ leave PROVE <<n, FALSE>> \in seen'
    OBVIOUS
  <2>1. reachable[n] /\ ~row.errors
    BY <1>4 DEF RowWith, r, CheckTypes
  <2>2. CASE asked = 3
    <3>1. r.up = active[n]
      BY <1>11, <2>1, <2>2 DEF RowWith, r
    <3> QED
      BY <1>3, <1>4, <3>1
  <2>3. CASE asked > 3
    <3>1. r.up = row.up
      BY <1>11, <2>3 DEF RowWith, r
    <3>2. n \in visiting
      BY <1>3, <2>3 DEF CheckTypes
    <3> QED
      BY <1>1, <1>3, <2>1, <2>3, <3>1, <3>2 DEF RowInv
  <2>4. asked > 2
    BY <1>11, <2>1
  <2> QED
    BY <1>11, <2>2, <2>3, <2>4
<1>14. VerdictInv'
  BY <1>1, <1>3 DEF VerdictInv, Monitoring
<1>15. RowInv'
  <2>1. \A k \in visiting' : row'.up => <<k, TRUE>> \in seen'
    BY <1>2, <1>12 DEF LeaveNode
  <2>2. \A k \in visiting' :
          asked' > 3 /\ ~row'.up /\ ~row'.errors => <<k, FALSE>> \in seen'
    <3>1. CASE LeaveNode(n)
      BY <3>1 DEF LeaveNode
    <3>2. CASE visiting' = {n} /\ asked' = asked + 1 /\ row' = r
      <4>1. asked' > 3 => asked > 2
        BY <1>11, <3>2
      <4> QED
        BY <1>13, <3>2, <4>1
    <3> QED
      BY <1>2, <3>1, <3>2
  <2>3. \A i \in DOMAIN report' :
          /\ report'[i].ok => <<report'[i].node, TRUE>> \in seen'
          /\ ~report'[i].ok /\ ~report'[i].errors => <<report'[i].node, FALSE>> \in seen'
    <3>1. CASE report' = report
      BY <1>1, <1>3, <3>1 DEF RowInv
    <3>2. CASE report' = Append(report, entry) /\ leave
      <4>1. ASSUME NEW i \in DOMAIN report'
            PROVE  (i \in DOMAIN report /\ report'[i] = report[i]) \/ report'[i] = entry
        BY <1>8, <3>2 DEF CheckTypes
      <4>2. ASSUME NEW i \in DOMAIN report', report'[i] = entry
            PROVE  /\ report'[i].ok => <<report'[i].node, TRUE>> \in seen'
                   /\ ~report'[i].ok /\ ~report'[i].errors => <<report'[i].node, FALSE>> \in seen'
        <5>1. report'[i].node = n /\ report'[i].ok = r.up /\ report'[i].errors = r.errors
          BY <4>2
        <5> QED
          BY <1>12, <1>13, <3>2, <5>1
      <4>3. ASSUME NEW i \in DOMAIN report, report'[i] = report[i]
            PROVE  /\ report'[i].ok => <<report'[i].node, TRUE>> \in seen'
                   /\ ~report'[i].ok /\ ~report'[i].errors => <<report'[i].node, FALSE>> \in seen'
        BY <1>1, <1>3, <4>3 DEF RowInv
      <4> QED
        BY <4>1, <4>2, <4>3
    <3> QED
      BY <1>2, <3>1, <3>2
  <2> QED
    BY <2>1, <2>2, <2>3 DEF RowInv
<1> QED
  BY <1>9, <1>14, <1>15

LEMMA ConcludeKeeps == ASSUME CheckInv, Conclude PROVE CheckInv'
<1> USE DEF CheckInv
<1>1. /\ state = "looking" /\ todo = {} /\ state' \in {"asleep", "ended"}
      /\ status' = IF Monitoring \/ Failing = {} THEN 0 ELSE 1
      /\ UNCHANGED <<command, live, ported, wanted, active, reachable, todo, visiting, asked, row>>
      /\ UNCHANGED <<report, seen>>
  BY DEF Conclude, settings, network
<1>f. Failing' = Failing /\ (Monitoring' <=> Monitoring)
  BY <1>1 DEF Failing, Monitoring
<1>q. \A n : Questions(n)' = Questions(n)
  BY <1>1 DEF Questions, Monitoring
<1>s. state' = "asleep" => Monitoring
  BY DEF Conclude, Monitoring
<1>2. CheckTypes'
  BY <1>1, <1>f, <1>q, <1>s DEF CheckTypes
<1>3. VerdictInv'
  <2>1. state' = "ended" /\ status' = 0 /\ ~Monitoring => todo' = {} /\ Failing' = {}
    <3>1. CASE Failing = {}
      BY <1>1, <1>f, <3>1
    <3>2. CASE Failing # {} /\ ~Monitoring
      BY <1>1, <3>2
    <3> QED
      BY <3>1, <3>2
  <2>2. command = "health" =>
          \A n \in live \cap NearNode :
            n \in todo' \ visiting' \/ <<n, TRUE>> \in seen' \/ Failing' # {}
    BY <1>1, <1>f DEF VerdictInv
  <2>3. command = "audit" =>
          \A n \in live : n \in todo' \/ <<n, TRUE>> \in seen' \/ Failing' # {}
    BY <1>1, <1>f DEF VerdictInv
  <2> QED
    BY <1>1, <1>f, <2>1, <2>2, <2>3 DEF VerdictInv
<1>4. RowInv'
  BY <1>1 DEF RowInv, Monitoring
<1> QED
  BY <1>2, <1>3, <1>4

LEMMA WakeKeeps == ASSUME CheckInv, Wake PROVE CheckInv'
<1> USE DEF CheckInv
<1>1. /\ state' = "looking" /\ todo' = ToVisit /\ report' = <<>> /\ seen' = {}
      /\ UNCHANGED <<command, live, ported, wanted, active, reachable, visiting, asked, row, status>>
      /\ state = "asleep"
  BY DEF Wake, settings, network
<1>2. Monitoring /\ visiting = {}
  BY <1>1 DEF CheckTypes
<1>t. \A n \in todo' : Questions(n)' # <<>>
  <2>1. \A n : Questions(n)' = Questions(n)
    BY <1>1 DEF Questions, Monitoring
  <2> QED
    BY <1>1, <2>1 DEF ToVisit
<1>3. CheckTypes'
  BY <1>1, <1>2, <1>t DEF CheckTypes, ToVisit, Monitoring
<1>4. VerdictInv'
  BY <1>1, <1>2 DEF VerdictInv, Monitoring
<1>5. RowInv'
  BY <1>1, <1>2 DEF RowInv
<1> QED
  BY <1>3, <1>4, <1>5

LEMMA ChangeKeeps == ASSUME CheckInv, NEW n \in Node, Change(n) PROVE CheckInv'
<1> USE DEF CheckInv
<1>1. /\ active' \in [Node -> BOOLEAN] /\ reachable' \in [Node -> BOOLEAN]
      /\ UNCHANGED <<command, live, ported, wanted, todo, visiting, asked, row>>
      /\ UNCHANGED <<report, state, status, seen>>
  BY DEF Change, settings, progress, CheckTypes
<1>2. CheckTypes'
  BY <1>1 DEF CheckTypes, Monitoring, Questions
<1>3. VerdictInv'
  BY <1>1 DEF VerdictInv, Monitoring, Failing
<1>4. RowInv'
  BY <1>1 DEF RowInv, Monitoring
<1> QED
  BY <1>2, <1>3, <1>4

LEMMA CheckInvNext == CheckInv /\ [CheckNext]_checkVars => CheckInv'
<1> SUFFICES ASSUME CheckInv, [CheckNext]_checkVars PROVE CheckInv'
  OBVIOUS
<1>1. CASE UNCHANGED checkVars
  <2>1. /\ UNCHANGED <<command, live, ported, wanted, active, reachable, todo, visiting, asked, row>>
        /\ UNCHANGED <<report, state, status, seen>>
    BY <1>1 DEF checkVars, settings, network, progress
  <2>2. CheckTypes'
    BY <2>1 DEF CheckInv, CheckTypes, Monitoring, Questions
  <2>3. VerdictInv'
    BY <2>1 DEF CheckInv, VerdictInv, Monitoring, Failing
  <2>4. RowInv'
    BY <2>1 DEF CheckInv, RowInv, Monitoring
  <2> QED
    BY <2>2, <2>3, <2>4 DEF CheckInv
<1>2. ASSUME NEW n \in Node, Probe(n) PROVE CheckInv'
  BY <1>2, ProbeKeeps
<1>3. ASSUME NEW n \in Node, Inspect(n) PROVE CheckInv'
  BY <1>3, InspectKeeps
<1>4. ASSUME NEW n \in Node, InspectFails(n) PROVE CheckInv'
  BY <1>4, InspectFailsKeeps
<1>5. ASSUME NEW n \in Node, Gather(n) PROVE CheckInv'
  BY <1>5, GatherKeeps
<1>6. CASE Conclude
  BY <1>6, ConcludeKeeps
<1>7. CASE Wake
  BY <1>7, WakeKeeps
<1>8. ASSUME NEW n \in Node, Change(n) PROVE CheckInv'
  BY <1>8, ChangeKeeps
<1> QED
  BY <1>1, <1>2, <1>3, <1>4, <1>5, <1>6, <1>7, <1>8 DEF CheckNext, CheckStep

LEMMA CheckInvGives == CheckInv => GreenMeansUp /\ DownIsExplained
<1> SUFFICES ASSUME CheckInv PROVE GreenMeansUp /\ DownIsExplained
  OBVIOUS
<1>1. GreenMeansUp
  <2>1. CASE Monitoring
    BY <2>1 DEF CheckInv, RowInv, GreenMeansUp, Monitoring
  <2>2. CASE ~Monitoring
    BY <2>2 DEF CheckInv, VerdictInv, GreenMeansUp
  <2> QED
    BY <2>1, <2>2
<1>2. DownIsExplained
  BY DEF CheckInv, RowInv, DownIsExplained
<1> QED
  BY <1>1, <1>2

\* What is in the report of a node: nothing before its visit, as many results as it
\* was asked questions while health is at it, all there is to say after.
About(n) == {i \in DOMAIN report : report[i].node = n}

Owed(n) == IF Monitoring THEN 1 ELSE Len(Questions(n))

VisitInv ==
  command # "audit" =>
    \A n \in ToVisit :
      Cardinality(About(n)) = IF n \notin todo THEN Owed(n)
                              ELSE IF Monitoring \/ n \notin visiting THEN 0
                              ELSE asked - 1

LEMMA AboutAppended ==
  ASSUME report \in Seq(Entry), NEW e \in Entry, report' = Append(report, e), NEW n
  PROVE  Cardinality(About(n))' = Cardinality(About(n)) + (IF e.node = n THEN 1 ELSE 0)
<1> DEFINE m == Len(report)
<1>1. /\ m \in Nat /\ DOMAIN report = 1 .. m /\ DOMAIN report' = 1 .. m + 1
      /\ report'[m + 1] = e /\ \A i \in 1 .. m : report'[i] = report[i]
  OBVIOUS
<1>2. IsFiniteSet(About(n)) /\ Cardinality(About(n)) \in Nat
  <2>1. About(n) \in SUBSET (1 .. m) /\ IsFiniteSet(1 .. m)
    BY <1>1, FS_Interval DEF About
  <2> QED
    BY <2>1, FS_Subset, FS_CardinalityType
<1> HIDE DEF m
<1>3. CASE e.node = n
  <2>1. About(n)' = About(n) \cup {m + 1} /\ m + 1 \notin About(n)
    BY <1>1, <1>3 DEF About
  <2> QED
    BY <1>2, <1>3, <2>1, FS_AddElement
<1>4. CASE e.node # n
  <2>1. About(n)' = About(n)
    BY <1>1, <1>4 DEF About
  <2> QED
    BY <1>2, <1>4, <2>1
<1> QED
  BY <1>3, <1>4

LEMMA NothingAbout ==
  ASSUME report = <<>>, NEW n
  PROVE  Cardinality(About(n)) = 0
<1>1. About(n) = {}
  BY DEF About
<1> QED
  BY <1>1, FS_EmptySet

LEMMA VisitInvInit == CheckInit \/ NoCheck => VisitInv
<1>1. ASSUME CheckInit PROVE VisitInv
  BY <1>1, NothingAbout DEF CheckInit, VisitInv
<1>2. ASSUME NoCheck PROVE VisitInv
  BY <1>2 DEF NoCheck, VisitInv, ToVisit
<1> QED
  BY <1>1, <1>2

LEMMA SettingsStay ==
  ASSUME UNCHANGED <<command, live, ported, wanted>>
  PROVE  /\ ToVisit' = ToVisit /\ Monitoring' = Monitoring
         /\ \A n : Owed(n)' = Owed(n) /\ Questions(n)' = Questions(n)
<1>1. Monitoring' = Monitoring /\ \A n : Questions(n)' = Questions(n)
  BY DEF Monitoring, Questions
<1> QED
  BY <1>1 DEF ToVisit, Owed

\* One more result of health, and one more question asked.
LEMMA ProbeCounts ==
  ASSUME CheckInv, VisitInv, NEW n \in Node, Probe(n)
  PROVE  VisitInv'
<1> DEFINE q == Questions(n)[asked]
<1>1. PICK ok \in BOOLEAN : report' = Append(report, Result(n, q, ok))
  BY DEF Probe, Answers
<1>2. /\ command = "health" /\ ~Monitoring /\ Asking(n) /\ Onward(n)
      /\ n \in todo /\ visiting \subseteq {n} /\ UNCHANGED <<command, live, ported, wanted>>
  BY AskingKeeps DEF Probe, Monitoring
<1>3. Len(Questions(n)) \in 1 .. 6 /\ asked \in 1 .. 6
      /\ asked <= Len(Questions(n)) /\ (visiting = {} => asked = 1)
  <2>1. Len(Questions(n)) \in 1 .. 6
    BY <1>2, QuestionFacts DEF CheckInv, CheckTypes
  <2>2. CASE visiting = {}
    <3>1. asked = 1
      BY <2>2 DEF CheckInv, CheckTypes
    <3> QED
      BY <2>1, <3>1
  <2>3. CASE visiting = {n}
    <3>1. asked \in 1 .. 6 /\ asked <= Len(Questions(n))
      BY <2>3 DEF CheckInv, CheckTypes
    <3> QED
      BY <2>1, <2>3, <3>1
  <2> QED
    BY <1>2, <2>2, <2>3
<1>4. report \in Seq(Entry) /\ CheckTypes'
  BY ProbeKeeps DEF CheckInv, CheckTypes
<1>5. Result(n, q, ok) \in Entry /\ Result(n, q, ok).node = n
  <2>1. asked \in 1 .. Len(Questions(n))
    BY <1>3
  <2>2. q \in CheckName
    <3>1. CASE Questions(n) = <<"wg">>
      BY <2>1, <3>1 DEF CheckName
    <3>2. CASE Questions(n) = <<"reality", "direct", "hy2", "cdn", "anytls", "tls">>
      BY <1>3, <3>2 DEF CheckName, TcpChecks
    <3>3. Questions(n) # <<>>
      BY <1>2 DEF CheckInv, CheckTypes
    <3> QED
      BY <1>2, <3>1, <3>2, <3>3, QuestionFacts DEF CheckInv
  <2> QED
    BY <2>2 DEF Result, Entry
<1>6. \A k : Cardinality(About(k))' = Cardinality(About(k)) + (IF n = k THEN 1 ELSE 0)
  BY <1>1, <1>4, <1>5, AboutAppended
<1>7. /\ ToVisit' = ToVisit /\ ~Monitoring' /\ command' = command
      /\ \A k : Owed(k)' = Owed(k)
  BY <1>2, SettingsStay
<1>8. \/ LastQuestion(n) /\ todo' = todo \ {n} /\ visiting' = {} /\ asked' = 1
      \/ ~LastQuestion(n) /\ todo' = todo /\ visiting' = {n} /\ asked' = asked + 1
  BY <1>2 DEF Onward, LeaveNode
<1>9. Owed(n) = Len(Questions(n)) /\ (LastQuestion(n) <=> asked = Len(Questions(n)))
  BY <1>2 DEF Owed, LastQuestion
<1>10. ASSUME NEW k \in ToVisit
       PROVE  Cardinality(About(k))' = IF k \notin todo' THEN Owed(k)
                                       ELSE IF k \notin visiting' THEN 0 ELSE asked' - 1
  <2>1. Cardinality(About(k)) = IF k \notin todo THEN Owed(k)
                                ELSE IF k \notin visiting THEN 0 ELSE asked - 1
    BY <1>2 DEF VisitInv
  <2>2. CASE k # n
    <3>1. Cardinality(About(k))' = Cardinality(About(k))
      <4>1. Cardinality(About(k))' = Cardinality(About(k)) + 0
        BY <1>6, <2>2
      <4>2. Cardinality(About(k)) \in Int
        <5>1. k \notin todo => Owed(k) \in Int
          BY <1>2, QuestionFacts DEF Owed, CheckInv, ToVisit, CheckTypes
        <5> QED
          BY <1>3, <2>1, <5>1
      <4> QED
        BY <4>1, <4>2
    <3> QED
      BY <1>2, <1>8, <2>1, <2>2, <3>1
  <2>3. CASE k = n
    <3>1. Cardinality(About(n)) = asked - 1
      BY <1>2, <1>3, <2>1, <2>3
    <3>2. Cardinality(About(n))' = asked
      BY <1>3, <1>6, <3>1
    <3> QED
      BY <1>2, <1>3, <1>8, <1>9, <2>3, <3>2
  <2> QED
    BY <2>2, <2>3
<1> QED
  BY <1>7, <1>10 DEF VisitInv

\* One row of monitor, when it leaves the node.
LEMMA GatherCounts ==
  ASSUME CheckInv, VisitInv, NEW n \in Node, Gather(n)
  PROVE  VisitInv'
<1> DEFINE r == RowWith(n, reachable[n])
           entry == [node |-> n, check |-> "row", ok |-> r.up, errors |-> r.errors]
<1>1. /\ Monitoring /\ Asking(n) /\ n \in todo /\ visiting \subseteq {n}
      /\ UNCHANGED <<command, live, ported, wanted>>
  BY AskingKeeps DEF Gather
<1>2. /\ ToVisit' = ToVisit /\ Monitoring' /\ command' = command
      /\ \A k : Owed(k) = 1 /\ Owed(k)' = 1
  BY <1>1, SettingsStay DEF Owed
<1>3. \/ report' = Append(report, entry) /\ todo' = todo \ {n}
      \/ UNCHANGED <<todo, report>>
  BY DEF Gather, Add, LeaveNode
<1>4. r \in [up : BOOLEAN, errors : BOOLEAN]
  BY DEF RowWith, CheckInv, CheckTypes
<1> HIDE DEF r
<1>5. entry \in Entry /\ entry.node = n
  BY <1>4 DEF Entry, CheckName
<1>6. \A k \in ToVisit : Cardinality(About(k)) = IF k \notin todo THEN 1 ELSE 0
  BY <1>1, <1>2 DEF VisitInv, Monitoring
<1>7. CASE report' = Append(report, entry) /\ todo' = todo \ {n}
  <2>1. \A k : Cardinality(About(k))' = Cardinality(About(k)) + (IF n = k THEN 1 ELSE 0)
    BY <1>5, <1>7, AboutAppended DEF CheckInv, CheckTypes
  <2>2. \A k \in ToVisit : Cardinality(About(k))' = IF k \notin todo' THEN 1 ELSE 0
    BY <1>1, <1>6, <1>7, <2>1
  <2> QED
    BY <1>2, <2>2 DEF VisitInv
<1>8. CASE UNCHANGED <<todo, report>>
  <2>1. \A k : About(k)' = About(k)
    BY <1>8 DEF About
  <2> QED
    BY <1>2, <1>6, <1>8, <2>1 DEF VisitInv
<1> QED
  BY <1>3, <1>7, <1>8

LEMMA VisitInvNext == CheckInv /\ VisitInv /\ [CheckNext]_checkVars => VisitInv'
<1> SUFFICES ASSUME CheckInv, VisitInv, [CheckNext]_checkVars PROVE VisitInv'
  OBVIOUS
<1>0. ASSUME UNCHANGED <<command, live, ported, wanted, todo, visiting, asked, report>>
      PROVE  VisitInv'
  BY <1>0, SettingsStay DEF VisitInv, About
<1>1. CASE UNCHANGED checkVars
  BY <1>0, <1>1 DEF checkVars, settings, progress
<1>2. ASSUME NEW n \in Node, Probe(n) PROVE VisitInv'
  BY <1>2, ProbeCounts
<1>3. ASSUME NEW n \in Node, Inspect(n) \/ InspectFails(n) PROVE VisitInv'
  BY <1>3, AskingKeeps DEF Inspect, InspectFails, VisitInv
<1>4. ASSUME NEW n \in Node, Gather(n) PROVE VisitInv'
  BY <1>4, GatherCounts
<1>5. CASE Conclude
  BY <1>0, <1>5 DEF Conclude, settings
<1>6. CASE Wake
  <2>1. /\ todo' = ToVisit /\ report' = <<>> /\ state = "asleep"
        /\ UNCHANGED <<command, live, ported, wanted, visiting>>
    BY <1>6 DEF Wake, settings
  <2>2. visiting = {} /\ ToVisit' = ToVisit
    BY <2>1, SettingsStay DEF CheckInv, CheckTypes
  <2>3. \A n : Cardinality(About(n))' = 0
    <3>1. \A n : About(n)' = {}
      BY <2>1 DEF About
    <3> QED
      BY <3>1, FS_EmptySet
  <2> QED
    BY <2>1, <2>2, <2>3 DEF VisitInv
<1>7. ASSUME NEW n \in Node, Change(n) PROVE VisitInv'
  BY <1>0, <1>7 DEF Change, settings, progress
<1> QED
  BY <1>1, <1>2, <1>3, <1>4, <1>5, <1>6, <1>7 DEF CheckNext, CheckStep

LEMMA VisitInvGives == CheckInv /\ VisitInv => NobodyForgotten
  BY DEF CheckInv, CheckTypes, VisitInv, NobodyForgotten, Owed, About

----------------------------------------------------------------------------
(* sub server *)

Request == [client : Client, what : File \cup {Unauthorized}, written : Nat]

\* The files: no rebuild is forgotten, and one that is not whole is being written, or
\* its rebuild died.
FilesInv ==
  /\ build \in Nat
  /\ disk \in [File -> [build : Nat, whole : BOOLEAN]] /\ written \in [File -> Nat]
  /\ \A f \in File :
       /\ written[f] <= disk[f].build /\ disk[f].build <= build
       /\ disk[f] # Absent /\ ~disk[f].whole => written[f] < disk[f].build

\* A request remembers nothing that was not written.
Remembers(r) == r.written \in Nat /\ (r.what \in File => r.written <= written[r.what])

RequestsInv ==
  /\ backlog \in Seq(Request) /\ \A i \in DOMAIN backlog : Remembers(backlog[i])
  /\ Remembers(request)

ServerInv == FilesInv /\ RequestsInv /\ ServedFresh

LEMMA ServerInvInit == ServerInit => ServerInv
<1> SUFFICES ASSUME ServerInit PROVE ServerInv
  OBVIOUS
<1>1. FilesInv
  BY DEF ServerInit, FilesInv, Absent
<1>2. RequestsInv
  BY DEF ServerInit, RequestsInv, Remembers, NoRequest
<1>3. ServedFresh
  BY DEF ServerInit, ServedFresh, NoAnswer
<1> QED
  BY <1>1, <1>2, <1>3 DEF ServerInv

\* Requests stay right while the files only move on.
LEMMA RequestsKeep ==
  ASSUME RequestsInv, FilesInv, UNCHANGED <<backlog, request>>,
         written' \in [File -> Nat], \A f \in File : written[f] <= written'[f]
  PROVE  RequestsInv'
<1>1. ASSUME NEW r, Remembers(r)
      PROVE  r.written \in Nat /\ (r.what \in File => r.written <= written'[r.what])
  BY <1>1 DEF Remembers, FilesInv
<1> QED
  BY <1>1 DEF RequestsInv, Remembers

LEMMA RebuildKeeps ==
  ASSUME ServerInv, OpenFile \/ FillFile \/ BuildDies
                      \/ \E formats \in (SUBSET File) \ {{}} : BeginBuild(formats)
  PROVE  ServerInv'
<1> USE DEF ServerInv
<1>1. UNCHANGED <<backlog, request, answer>>
  BY DEF OpenFile, FillFile, BuildDies, BeginBuild, clientVars
<1>2. FilesInv' /\ \A f \in File : written[f] <= written'[f]
  <2> DEFINE h == Head(toWrite)
  <2>1. CASE OpenFile
    <3>1. /\ disk[h].build < build /\ UNCHANGED <<build, written>>
          /\ disk' = [disk EXCEPT ![h] = [build |-> build, whole |-> FALSE]]
      BY <2>1 DEF OpenFile
    <3>2. disk' \in [File -> [build : Nat, whole : BOOLEAN]]
      BY <3>1 DEF FilesInv
    <3>3. ASSUME NEW f \in File
          PROVE  /\ written[f] <= disk'[f].build /\ disk'[f].build <= build
                 /\ disk'[f] # Absent /\ ~disk'[f].whole => written[f] < disk'[f].build
      <4>1. CASE f = h
        BY <3>1, <4>1 DEF FilesInv
      <4>2. CASE f # h
        BY <3>1, <4>2 DEF FilesInv
      <4> QED
        BY <4>1, <4>2
    <3> QED
      BY <3>1, <3>2, <3>3 DEF FilesInv
  <2>2. CASE FillFile
    <3>1. /\ disk[h].build = build /\ UNCHANGED build
          /\ disk' = [disk EXCEPT ![h].whole = TRUE]
          /\ written' = [written EXCEPT ![h] = build]
      BY <2>2 DEF FillFile
    <3>2. /\ disk' \in [File -> [build : Nat, whole : BOOLEAN]]
          /\ written' \in [File -> Nat]
      BY <3>1 DEF FilesInv
    <3>3. ASSUME NEW f \in File
          PROVE  /\ written'[f] <= disk'[f].build /\ disk'[f].build <= build
                 /\ disk'[f] # Absent /\ ~disk'[f].whole => written'[f] < disk'[f].build
                 /\ written[f] <= written'[f]
      <4>1. CASE f = h
        BY <3>1, <4>1 DEF FilesInv
      <4>2. CASE f # h
        BY <3>1, <4>2 DEF FilesInv
      <4> QED
        BY <4>1, <4>2
    <3> QED
      BY <3>1, <3>2, <3>3 DEF FilesInv
  <2>3. CASE BuildDies
    BY <2>3 DEF BuildDies, FilesInv
  <2>4. CASE \E formats \in (SUBSET File) \ {{}} : BeginBuild(formats)
    BY <2>4 DEF BeginBuild, FilesInv
  <2> QED
    BY <2>1, <2>2, <2>3, <2>4
<1>3. RequestsInv'
  BY <1>1, <1>2, RequestsKeep DEF FilesInv
<1>4. ServedFresh'
  BY <1>1 DEF ServedFresh
<1> QED
  BY <1>2, <1>3, <1>4

\* The server never touches the files; what it does to requests and answers.
LEMMA ServingKeeps ==
  ASSUME ServerInv, UNCHANGED filesVars,
         \/ UNCHANGED <<backlog, request>>
         \/ backlog' = <<>> /\ request' \in {request, NoRequest}
         \/ UNCHANGED backlog /\ request' = NoRequest
         \/ backlog # <<>> /\ request' = Head(backlog) /\ backlog' = Tail(backlog)
         \/ /\ \E r \in Request : Remembers(r) /\ backlog' = Append(backlog, r)
            /\ UNCHANGED request,
         UNCHANGED answer \/ ServedFresh'
  PROVE  ServerInv'
<1> USE DEF ServerInv
<1>1. UNCHANGED <<disk, build, written>>
  BY DEF filesVars
<1>2. FilesInv'
  BY <1>1 DEF FilesInv
<1>3. \A r : Remembers(r)' <=> r.written \in Nat /\ (r.what \in File => r.written <= written[r.what])
  BY <1>1 DEF Remembers
<1>4. RequestsInv'
  <2>1. Remembers(NoRequest)
    BY DEF Remembers, NoRequest, FilesInv
  <2>2. backlog' \in Seq(Request)
    <3> USE DEF RequestsInv
    <3>1. CASE backlog # <<>> /\ backlog' = Tail(backlog)
      BY <3>1
    <3>2. CASE \E r \in Request : backlog' = Append(backlog, r)
      BY <3>2
    <3>3. CASE backlog' = backlog
      BY <3>3
    <3>4. CASE backlog' = <<>>
      BY <3>4
    <3> QED
      BY <3>1, <3>2, <3>3, <3>4
  <2>3. \A i \in DOMAIN backlog' : Remembers(backlog'[i])
    BY DEF RequestsInv
  <2>4. Remembers(request')
    BY <2>1 DEF RequestsInv
  <2> QED
    BY <1>1, <2>2, <2>3, <2>4 DEF RequestsInv, Remembers
<1>5. ServedFresh'
  BY DEF ServedFresh
<1> QED
  BY <1>2, <1>4, <1>5

LEMMA ServerInvNext == ServerInv /\ [ServerNext]_serverVars => ServerInv'
<1> SUFFICES ASSUME ServerInv, [ServerNext]_serverVars PROVE ServerInv'
  OBVIOUS
<1>1. CASE UNCHANGED serverVars
  BY <1>1, ServingKeeps DEF serverVars, filesVars, clientVars
<1>2. CASE OpenFile \/ FillFile \/ BuildDies
             \/ \E formats \in (SUBSET File) \ {{}} : BeginBuild(formats)
  BY <1>2, RebuildKeeps
<1>3. CASE Bind \/ Install \/ Stop \/ ShutDown \/ Clear \/ Serve \/ LeaveLoop
  BY <1>3, ServingKeeps
     DEF Bind, Install, Stop, ShutDown, Clear, Serve, LeaveLoop, clientVars
<1>4. CASE LoadTls \/ Signal \/ Join \/ Close
  BY <1>4, ServingKeeps DEF LoadTls, Signal, Join, Close, ProcessEnds, clientVars
<1>5. CASE Accept \/ Speak
  BY <1>5, ServingKeeps DEF Accept, Speak
<1>6. CASE Refuse
  <2>1. answer'.status # 200
    BY <1>6 DEF Refuse, Answer
  <2> QED
    BY <1>6, <2>1, ServingKeeps DEF Refuse, Answer, ServedFresh
<1>7. CASE Respond
  <2> DEFINE f == request.what
  <2>1. f \in File /\ disk[f] # Absent
    BY <1>7 DEF Respond, Found
  <2>2. request.written \in Nat /\ request.written <= written[f]
    BY <2>1 DEF ServerInv, RequestsInv, Remembers
  <2>3. /\ disk[f].build \in Nat /\ written[f] \in Nat /\ written[f] <= disk[f].build
        /\ ~disk[f].whole => written[f] < disk[f].build
    BY <2>1 DEF ServerInv, FilesInv
  <2>4. answer'.content = disk[f] /\ answer'.request = request
    BY <1>7 DEF Respond, Answer
  <2>5. ServedFresh'
    BY <2>2, <2>3, <2>4 DEF ServedFresh
  <2> QED
    BY <1>7, <2>5, ServingKeeps DEF Respond, Answer
<1>8. ASSUME NEW c \in Client, NEW what \in File \cup {Unauthorized}, Connect(c, what)
      PROVE  ServerInv'
  <2> DEFINE r == [client |-> c, what |-> what,
                   written |-> IF what \in File THEN written[what] ELSE 0]
  <2>1. r \in Request
    BY DEF Request, ServerInv, FilesInv
  <2>2. Remembers(r)
    BY <2>1 DEF Remembers, Request, ServerInv, FilesInv
  <2>3. UNCHANGED <<filesVars, request, answer>> /\ backlog' = Append(backlog, r)
    BY <1>8 DEF Connect
  <2> HIDE DEF r
  <2> QED
    BY <2>1, <2>2, <2>3, ServingKeeps
<1> QED
  BY <1>1, <1>2, <1>3, <1>4, <1>5, <1>6, <1>7, <1>8 DEF ServerNext, MainStep, LoopStep

----------------------------------------------------------------------------
(* the commands *)

CommandsInv == DeployInv /\ CheckInv /\ VisitInv /\ ServerInv

\* What is left alone keeps its invariant.
LEMMA CommandsInvHolds == CommandsSpec => []CommandsInv
<1>1. CommandsInit => CommandsInv
  BY DeployInvInit, CheckInvInit, VisitInvInit, ServerInvInit DEF CommandsInit, CommandsInv
<1>2. CommandsInv /\ [CommandsNext]_everything => CommandsInv'
  <2> SUFFICES ASSUME CommandsInv, [CommandsNext]_everything PROVE CommandsInv'
    OBVIOUS
  <2>1. [Next]_vars /\ [CheckNext]_checkVars /\ [ServerNext]_serverVars
    BY DEF CommandsNext, Deploying, Checking, Serving, everything
  <2> QED
    BY <2>1, DeployInvNext, CheckInvNext, VisitInvNext, ServerInvNext DEF CommandsInv
<1> QED
  BY <1>1, <1>2, PTL DEF CommandsSpec

\* The deploy command exits 0 only when every target that has a configuration was
\* deployed, whatever order the workers end in and whatever they raise.
THEOREM DeployReportsTheTruth == CommandsSpec => []ExitZeroMeansDeployed
<1>1. CommandsInv => ExitZeroMeansDeployed
  BY DeployInvGives DEF CommandsInv
<1> QED
  BY <1>1, CommandsInvHolds, PTL

\* When deploy ends, also with an exception, every target it submitted was deployed or
\* tried, and no worker is left.
THEOREM DeployLeavesNobody == CommandsSpec => []NothingLeftBehind
<1>1. CommandsInv => NothingLeftBehind
  BY DeployInvGives DEF CommandsInv
<1> QED
  BY <1>1, CommandsInvHolds, PTL

\* What health, audit and monitor call fine was up while they looked, for any fleet and
\* any order of failures.
THEOREM GreenIsUp == CommandsSpec => []GreenMeansUp
<1>1. CommandsInv => GreenMeansUp
  BY CheckInvGives DEF CommandsInv
<1> QED
  BY <1>1, CommandsInvHolds, PTL

\* A row of monitor that says DOWN of a service that ran says also what went wrong.
THEOREM DownHasAReason == CommandsSpec => []DownIsExplained
<1>1. CommandsInv => DownIsExplained
  BY CheckInvGives DEF CommandsInv
<1> QED
  BY <1>1, CommandsInvHolds, PTL

\* When a round of health or monitor is over, its report has all of what is owed of each
\* node, no more and no less, whichever sessions failed.
THEOREM NobodyIsForgotten == CommandsSpec => []NobodyForgotten
<1>1. CommandsInv => NobodyForgotten
  BY VisitInvGives DEF CommandsInv
<1> QED
  BY <1>1, CommandsInvHolds, PTL

\* Any client is sent what was rebuilt before it connected, or something newer, for any
\* number of clients, formats, rebuilds and restarts of the server.
THEOREM AnswersAreFresh == CommandsSpec => []ServedFresh
<1>1. CommandsInv => ServedFresh
  BY DEF CommandsInv, ServerInv
<1> QED
  BY <1>1, CommandsInvHolds, PTL
=============================================================================
