----------------------------- MODULE FleetChecks -----------------------------
(***************************************************************************)
(* The commands that look at the fleet: health (health.py check_fleet),    *)
(* audit (audit.py audit_fleet) and monitor (collector.py collect_fleet).  *)
(* They visit the live nodes one after the other (in any order here: only  *)
(* the order of the report depends on it) and put one question after the   *)
(* other to each; services stop and start, and nodes come and go from the  *)
(* network, between any two questions.                                     *)
(*                                                                         *)
(* health asks from outside; a datagram without an answer counts as an     *)
(* open port.  audit and monitor ask over an ssh session: the first turns  *)
(* any exception into a critical finding and goes to the next node, the    *)
(* second notes an error for the question and asks the next one.           *)
(***************************************************************************)
EXTENDS Naturals, FiniteSets, Sequences

CONSTANTS NearNode, FarNode

Node == NearNode \cup FarNode

VARIABLES
  command,   \* "health", "audit", "monitor" or "monitorOnce"
  live,      \* nodes of the inventory in phase live
  ported,    \* far nodes with a wg_port; one of protocol remote-socks has none
  wanted,    \* targets monitor was called with (one at most here), none for all
  active,    \* whether the service of each node runs
  reachable, \* whether each node answers from the network
  todo,      \* nodes not yet visited to the end
  visiting,  \* the one being visited, or none
  asked,     \* the question it is asked next
  row,       \* what monitor has of it so far
  report,    \* findings, results or rows so far
  state,     \* "looking", "asleep" or "ended"
  status,    \* exit status
  seen       \* history: <<n, b>> when n was asked something with active[n] = b

settings == <<command, live, ported, wanted>>
network == <<active, reachable>>
progress == <<todo, visiting, asked, row, report, state, status, seen>>
checkVars == <<settings, network, progress>>

Monitoring == command \in {"monitor", "monitorOnce"}

TcpChecks == {"reality", "direct", "cdn", "anytls"}

\* What the command asks a node.  "security" stands for audit_security, whose findings
\* are added to the report when it returns.
Questions(n) ==
  IF command = "audit" THEN <<"connect", "security", "service">>
  ELSE IF Monitoring
       THEN <<"connect", "system", "service", "network", "wireguard", "certs">>
  ELSE IF n \in NearNode
       THEN <<"reality", "direct", "hy2", "cdn", "anytls", "tls">>
  ELSE IF n \in ported THEN <<"wg">> ELSE <<>>

\* health has nothing to ask a far node without a wg_port, and passes it over.
ToVisit ==
  {n \in IF wanted = {} THEN live ELSE live \cap wanted : Questions(n) # <<>>}

NoRow == [up |-> FALSE, errors |-> FALSE]

CheckInit ==
  /\ command \in {"health", "audit", "monitor", "monitorOnce"}
  /\ live \in SUBSET Node
  /\ ported \in IF command = "health" THEN SUBSET (live \cap FarNode) ELSE {{}}
  /\ wanted \in {{}} \cup IF Monitoring THEN {{n} : n \in Node} ELSE {}
  /\ active \in [Node -> BOOLEAN] /\ reachable \in [Node -> BOOLEAN]
  /\ todo = ToVisit /\ visiting = {} /\ asked = 1 /\ row = NoRow /\ report = <<>>
  /\ state = "looking" /\ status = 0 /\ seen = {}

----------------------------------------------------------------------------
Critical == {"connect", "tailscale", "service"}

\* What a port of a near node, or the datagram sent to wg_port, may be found to be.
Answers(n, q) ==
  LET up == active[n] /\ reachable[n]
  IN  {ok \in BOOLEAN : /\ q \in TcpChecks     => ok = up
                        /\ q = "tls"           => (ok => up)
                        /\ q \in {"hy2", "wg"} => (up => ok)}

\* What an audit may find, the most severe finding if there are several: a warning of
\* the first three security checks, or a critical one.
Findings(n, q) ==
  {found \in {"none", "hardening", "tailscale", "service"} :
     /\ q = "connect"  => found = "none"
     /\ q = "security" => found # "service"
     /\ q = "service"  => found = IF active[n] THEN "none" ELSE "service"}

Result(n, q, ok) == [node |-> n, check |-> q, ok |-> ok]

Asking(n) ==
  /\ state = "looking" /\ n \in todo /\ visiting \subseteq {n}
  /\ seen' = seen \cup {<<n, active[n]>>}
  /\ UNCHANGED <<settings, network, state, status>>

LeaveNode(n) == todo' = todo \ {n} /\ visiting' = {} /\ asked' = 1 /\ row' = NoRow

LastQuestion(n) == asked = Len(Questions(n))

Onward(n) == IF LastQuestion(n) THEN LeaveNode(n)
             ELSE visiting' = {n} /\ asked' = asked + 1 /\ UNCHANGED <<todo, row>>

Probe(n) ==
  /\ command = "health" /\ Asking(n)
  /\ \E ok \in Answers(n, Questions(n)[asked]) :
       report' = Append(report, Result(n, Questions(n)[asked], ok))
  /\ Onward(n)

Inspect(n) ==
  /\ command = "audit" /\ reachable[n] /\ Asking(n)
  /\ \E found \in Findings(n, Questions(n)[asked]) :
       report' = IF found = "none" THEN report ELSE Append(report, Result(n, found, FALSE))
  /\ Onward(n)

\* Mutation: a node that cannot be reached is passed over.
InspectFailsSilently(n) ==
  /\ command = "audit" /\ ~reachable[n] /\ Asking(n)
  /\ LeaveNode(n)
  /\ UNCHANGED report

\* Any exception, of connect or of a command; a session that ends while is-active runs
\* leaves an empty answer, and the same critical finding.
InspectFails(n) ==
  /\ command = "audit" /\ ~reachable[n] /\ Asking(n)
  /\ report' = Append(report, Result(n, "connect", FALSE))
  /\ LeaveNode(n)

\* Mutation: what went wrong is not noted in the row.
RowWithoutErrors(n, answered) ==
  [up     |-> IF answered /\ Questions(n)[asked] = "service" THEN active[n] ELSE row.up,
   errors |-> FALSE]

\* Whether the question was answered, and the row once this one is in it.
RowWith(n, answered) ==
  [up     |-> IF answered /\ Questions(n)[asked] = "service" THEN active[n] ELSE row.up,
   errors |-> row.errors \/ ~answered]

Add(n, r) == report' = Append(report, [node |-> n, check |-> "row", ok |-> r.up, errors |-> r.errors])

\* Mutation: a node that cannot be connected to gets no row.
GatherSkips(n) ==
  /\ Monitoring /\ Asking(n)
  /\ LET r == RowWith(n, reachable[n])
     IN  \/ LastQuestion(n) /\ Add(n, r) /\ LeaveNode(n)
         \/ asked = 1 /\ ~reachable[n] /\ LeaveNode(n) /\ UNCHANGED report
         \/ /\ ~LastQuestion(n) /\ (asked = 1 => reachable[n])
            /\ visiting' = {n} /\ asked' = asked + 1 /\ row' = r
            /\ UNCHANGED <<todo, report>>

\* A session that cannot be opened ends the visit; a command that fails does not.  One that
\* returns without output, because the session ended, leaves the error to the next.
Gather(n) ==
  /\ Monitoring /\ Asking(n)
  /\ LET r == RowWith(n, reachable[n])
     IN  \/ /\ LastQuestion(n) \/ (asked = 1 /\ ~reachable[n])
            /\ Add(n, r) /\ LeaveNode(n)
         \/ /\ ~LastQuestion(n) /\ (asked = 1 => reachable[n])
            /\ visiting' = {n} /\ asked' = asked + 1 /\ row' = r
            /\ UNCHANGED <<todo, report>>

Failing == IF command = "health" THEN {i \in DOMAIN report : ~report[i].ok}
           ELSE {i \in DOMAIN report : report[i].check \in Critical}

\* Mutation: a row with errors ends monitor.
ConcludeGivesUp ==
  /\ state = "looking" /\ todo = {}
  /\ state' = IF command = "monitor" /\ \A i \in DOMAIN report : ~report[i].errors
              THEN "asleep" ELSE "ended"
  /\ status' = IF Monitoring \/ Failing = {} THEN 0 ELSE 1
  /\ UNCHANGED <<settings, network, todo, visiting, asked, row, report, seen>>

\* health and audit end with the verdict, monitor --once with its table.
Conclude ==
  /\ state = "looking" /\ todo = {}
  /\ state' = IF command = "monitor" THEN "asleep" ELSE "ended"
  /\ status' = IF Monitoring \/ Failing = {} THEN 0 ELSE 1
  /\ UNCHANGED <<settings, network, todo, visiting, asked, row, report, seen>>

Wake ==
  /\ state = "asleep"
  /\ state' = "looking" /\ todo' = ToVisit /\ report' = <<>> /\ seen' = {}
  /\ UNCHANGED <<settings, network, visiting, asked, row, status>>

CheckStep ==
  \/ \E n \in Node : Probe(n) \/ Inspect(n) \/ InspectFails(n) \/ Gather(n)
  \/ Conclude \/ Wake

\* A service starts or stops, a node leaves the network or is back.
Change(n) ==
  /\ \/ active' = [active EXCEPT ![n] = ~@] /\ UNCHANGED reachable
     \/ reachable' = [reachable EXCEPT ![n] = ~@] /\ UNCHANGED active
  /\ UNCHANGED <<settings, progress>>

CheckNext == CheckStep \/ \E n \in Node : Change(n)

\* Every question has a timeout: they are asked with sockets that have one, or with
\* ssh.exec, whose exit status is assumed to follow the output that has one; none of
\* these commands uploads anything.
CheckSpec == CheckInit /\ [][CheckNext]_checkVars /\ WF_checkVars(CheckStep)

----------------------------------------------------------------------------
\* What a command calls fine was up while the command looked at it, whatever happens
\* to services and sessions between its questions: near nodes when health exits 0
\* (nothing a far node is asked can fail), all nodes when audit does, and a node
\* that monitor calls UP.
GreenMeansUp ==
  /\ state = "ended" /\ status = 0 /\ command = "health" =>
       \A n \in live \cap NearNode : <<n, TRUE>> \in seen
  /\ state = "ended" /\ status = 0 /\ command = "audit" =>
       \A n \in live : <<n, TRUE>> \in seen
  /\ Monitoring => \A i \in DOMAIN report : report[i].ok => <<report[i].node, TRUE>> \in seen

\* monitor shows a running service as DOWN only with an error next to it.
DownIsExplained ==
  Monitoring =>
    \A i \in DOMAIN report :
      ~report[i].ok /\ ~report[i].errors => <<report[i].node, FALSE>> \in seen

\* One node's failure hides no other: when a round is over, monitor has one row, and
\* health all its results, of each node it was to visit.
NobodyForgotten ==
  state # "looking" /\ command # "audit" =>
    \A n \in ToVisit :
      Cardinality({i \in DOMAIN report : report[i].node = n})
        = IF Monitoring THEN 1 ELSE Len(Questions(n))

\* The commands end, and monitor visits each of its nodes again and again.
ChecksGoOn ==
  /\ command # "monitor" => <>(state = "ended")
  /\ \A n \in Node :
       command = "monitor" /\ n \in ToVisit => []<>(n \in todo) /\ []<>(n \notin todo)
=============================================================================
