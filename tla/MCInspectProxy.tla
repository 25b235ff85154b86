--------------------------- MODULE MCInspectProxy ---------------------------
EXTENDS InspectProxy

CONSTANTS c1, lib, own, other, svc, rev, gw, pub, web, tls, any, bare

MCConns == {c1}
MCNames == {lib, own, other, svc, rev}
MCParentOf == [n \in {svc} |-> lib]
MCReverseNames == {rev}
MCAddrs == {gw, pub}
MCGuarded == {gw}
MCPorts == {web, tls}
MCDefaultPort == [scheme \in Schemes |-> IF scheme = "https" THEN tls ELSE web]
MCMethods == {"GET", "PUT"}

\* A file under the allowed prefix, one that leaves it in plain and in encoded
\* dots, one an origin may read as leaving it, and a target that is no path.
MCRawPaths ==
  {<<<<"a">>, <<"b">>>>, <<<<"a">>, <<"%2e%2e">>, <<"b">>>>, <<<<"a">>, <<"b", "..">>>>, NoPath}

Rule(pairs, prefix, methods) == [accepts |-> pairs, prefix |-> prefix, methods |-> methods]
Host(pairs) == Rule(pairs, <<>>, MCMethods)

\* A host rule, a ~ URL rule without a port, a tls rule for one port, an ip
\* rule, and a host rule for an address; no rules; audit.
MCFull ==
  [mode |-> "restrict", ip |-> {Host({<<pub, web>>})}, tls |-> {Host({<<own, tls>>})},
   https |-> {Host({<<gw, tls>>}), Rule({<<lib, bare>>}, <<<<"a">>>>, {"GET"})},
   http |-> {Host({<<lib, any>>})}]
MCEmpty == [mode |-> "restrict", ip |-> {}, tls |-> {}, https |-> {}, http |-> {}]
MCRuleInputs == {MCFull, MCEmpty, [MCFull EXCEPT !.mode = "audit"]}
MCLookupTypes == {"A", "SRV"}

\* Bound: audit judges nothing, so one event of it is enough.
MCOneEventInAudit == Audit => Events <= 1
=============================================================================
