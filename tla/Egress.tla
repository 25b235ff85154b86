------------------------------- MODULE Egress -------------------------------
(***************************************************************************)
(* What the proxy of the inspect engine promises about the world outside:  *)
(* a name is asked about only for an exchange the rules allow, and a       *)
(* connection is made only for one, to an address that may be one of the   *)
(* runner's own or the network's only where a rule names the address.      *)
(***************************************************************************)
EXTENDS InspectRules

VARIABLES
  rules,   \* the compiled rule set, fixed for a run
  asked,   \* exchanges whose name was asked of the upstream resolvers
  reached  \* exchanges whose connection was made, each with its address

\* An exchange is [via, host, addr, port, path, method]; via is "ip" for what
\* an ip rule passes through, "tls" for what a tls rule does, or a scheme.
Allowed(x) ==
  \/ x.via = "ip" /\ \E rule \in rules.ip : Accepts(rule, x.addr, x.port)
  \/ x.via = "tls" /\ \E rule \in rules.tls : Accepts(rule, x.host, x.port)
  \/ /\ x.via \in Schemes /\ x.host \in Hosts /\ ~PathDenied(x.path)
     /\ \/ rules.mode = "audit"
        \/ \E rule \in rules[x.via] : ClauseHolds(rule, x.via, x, x.port)

\* Where an allowed exchange may go.
MayGoTo(x) ==
  \/ x.via = "ip"
  \/ x.host \in Addrs /\ x.addr = x.host
  \/ x.host \in Names /\ x.addr \notin Guarded

EgressInit == asked = {} /\ reached = {}

Ask(x) ==
  /\ Allowed(x) /\ x.host \in Names
  /\ asked' = asked \cup {x} /\ UNCHANGED <<rules, reached>>

Reach(x) ==
  /\ Allowed(x) /\ MayGoTo(x)
  /\ reached' = reached \cup {x} /\ UNCHANGED <<rules, asked>>

EgressNext == (\E x \in asked' : Ask(x)) \/ (\E x \in reached' : Reach(x))

EgressSpec == EgressInit /\ [][EgressNext]_<<rules, asked, reached>>
=============================================================================
