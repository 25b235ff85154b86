-------------------------- MODULE MCUniversalProxy --------------------------
(***************************************************************************)
(* Two names, one on each list, three addresses: the gateway, one of the   *)
(* runner's own, a public one.  What is held is followed over more streams *)
(* of one connection, with one rule.                                       *)
(***************************************************************************)
EXTENDS UniversalProxy

CONSTANTS c1, lib, own, gw, host, pub, web, tls, any, bare

MCConns == {c1}
MCNames == {lib, own}
MCRotating == {lib}
MCAddrs == {gw, host, pub}
MCGuarded == {gw, host}
MCPorts == {web, tls}
MCDefaultPort == [scheme \in Schemes |-> IF scheme = "https" THEN tls ELSE web]
MCMethods == {"any"}
MCNoServices == [n \in {} |-> lib]

Rule(pairs) == [accepts |-> pairs, prefix |-> <<>>, methods |-> MCMethods]

\* An exact rule, a wildcard without a port, an address; nothing; audit.
MCFull ==
  [mode |-> "restrict", ip |-> {Rule({<<host, tls>>})}, tls |-> {},
   https |-> {Rule({<<lib, tls>>})}, http |-> {Rule({<<own, any>>}), Rule({<<lib, web>>})}]
MCNothing == [mode |-> "restrict", ip |-> {}, tls |-> {}, https |-> {}, http |-> {}]
MCHeld == [MCNothing EXCEPT !.https = {Rule({<<lib, tls>>})}]
MCRuleInputs == {MCFull, MCHeld, MCNothing, [MCNothing EXCEPT !.mode = "audit"]}

\* A third stream is for an answer that is held, and used again and again.
ThirdIsOfHeld ==
  rules' # Converted(MCHeld) => streams' + Cardinality({d \in Conns : conn'[d] # Idle}) <= 2
=============================================================================
