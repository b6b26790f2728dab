---------------------------- MODULE AtomicDeploy ----------------------------
(***************************************************************************)
(* What deploy_node promises its callers: an attempt to deploy a           *)
(* configuration is all or nothing.  It either ends "ok" and the node      *)
(* serves the configuration it was asked to deploy, or ends "failed" and   *)
(* the node serves what it served before.  The second promise is about a   *)
(* clean node, one that serves what is installed on it: an attempt whose   *)
(* connection is lost may leave a node that is not, and the next one,      *)
(* failed or not, cleans it up or leaves it alone.                         *)
(*                                                                         *)
(* With a Flaky configuration the service keeps dying and coming back.     *)
(* The one question deploy_node asks may meet it up: then the attempt ends *)
(* "ok" while the node, more often than not, is Down.                      *)
(***************************************************************************)
CONSTANTS Config, Good, Flaky, Nothing, Down

VARIABLES
  asked,    \* the configuration of the latest attempt, Nothing before the first
  served,   \* the configuration the node serves, or Down
  outcome,  \* result of the latest attempt: "none", "ok", "failed" or "lost"
  clean     \* the node serves what is installed on it

vars == <<asked, served, outcome, clean>>

Init == asked = Nothing /\ served = Down /\ outcome = "none" /\ clean = TRUE

\* The caller asks for a configuration; the node goes on as it did.
Ask(c) ==
  /\ asked' = c
  /\ UNCHANGED <<served, outcome, clean>>

Succeed ==
  /\ outcome' = "ok"
  /\ \/ asked \in Good /\ served' = asked
     \/ asked \in Flaky /\ served' = Down
  /\ clean' = TRUE
  /\ UNCHANGED asked

\* No good configuration is refused.
Fail ==
  /\ outcome' = "failed"
  /\ asked \notin Good
  /\ clean => served' = served /\ clean' = TRUE
  /\ UNCHANGED asked

\* The connection is lost: a clean node serves the old configuration, the asked one
\* or none, but no third one.
Break ==
  /\ outcome' = "lost"
  /\ clean => served' \in {served, asked, Down}
  /\ UNCHANGED asked

\* The node reboots while nothing is deployed to it.
Restart ==
  /\ clean' = TRUE
  /\ clean => served' = served
  /\ UNCHANGED <<asked, outcome>>

Next == (\E c \in Config : Ask(c)) \/ Succeed \/ Fail \/ Break \/ Restart

Spec == Init /\ [][Next]_vars
============================================================================
