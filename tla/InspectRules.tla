---------------------------- MODULE InspectRules ----------------------------
(***************************************************************************)
(* The rules of the inspect engine as its two configurations apply them,   *)
(* the path normalization that runs before them, and the verb the resolver *)
(* logs for a name. Pure operators.                                        *)
(*                                                                         *)
(* A rule set is a record [mode, ip, tls, https, http]. A rule accepts a   *)
(* set of <<host, port>> pairs: a wildcard rule that names no port uses    *)
(* AnyPort, and a ~ URL rule without a port uses BarePort, which is the    *)
(* default port of its scheme. Spellings of a host that HOST_ONLY and the  *)
(* case-insensitive match make equal are one model value.                  *)
(***************************************************************************)
EXTENDS Naturals, SequencesExt

CONSTANTS
  Names,           \* names a request, a handshake or a lookup can carry
  Addrs,           \* IPv4 addresses
  Guarded,         \* INTERNAL_RANGES, the gateway, the runner's addresses
  Ports, AnyPort, BarePort,
  DefaultPort,     \* by scheme
  Methods,
  ReverseNames,    \* the names that are an address backwards
  ParentOf         \* the host under each _service._proto name

Schemes == {"https", "http"}
Hosts == Names \cup Addrs
ServiceNames == DOMAIN ParentOf
DiscoveryTypes == {"SRV", "TXT", "TLSA", "URI"}

ASSUME InspectRulesAssumption ==
  /\ Names \cap Addrs = {} /\ Guarded \subseteq Addrs
  /\ AnyPort \notin Ports /\ BarePort \notin Ports /\ AnyPort # BarePort
  /\ DefaultPort \in [Schemes -> Ports]
  /\ ServiceNames \cup ReverseNames \subseteq Names
  /\ ParentOf \in [ServiceNames -> Names]

-----------------------------------------------------------------------------
(* Matching.                                                               *)

\* An ip, tls or host rule on a connection.
Accepts(rule, host, port) ==
  <<host, port>> \in rule.accepts \/ <<host, AnyPort>> \in rule.accepts

\* The host half of a request's rule; the port is the connection's.
HostMatches(rule, scheme, host, port) ==
  \/ Accepts(rule, host, port)
  \/ port = DefaultPort[scheme] /\ <<host, BarePort>> \in rule.accepts

\* A path is a sequence of segments, and a segment a sequence of parts with an
\* encoded separator between them; "*" stands for a target that is no path.
NoPath == <<<<"*">>>>
PathMatches(rule, path) == path # NoPath /\ IsPrefix(rule.prefix, path)

ClauseHolds(rule, scheme, req, port) ==
  /\ HostMatches(rule, scheme, req.host, port)
  /\ PathMatches(rule, req.path)
  /\ req.method \in rule.methods

\* txn.allowed: audit has no clause to fail, and no rules deny everything.
TxnAllowed(rules, scheme, req, port) ==
  \/ rules.mode = "audit"
  \/ \E rule \in rules[scheme] : ClauseHolds(rule, scheme, req, port)

-----------------------------------------------------------------------------
(* normalize-uri, and the two denies for what it leaves.                   *)

\* percent-decode-unreserved: `.` is unreserved, the separators are not.
Decode(path) ==
  [i \in DOMAIN path |->
    [j \in DOMAIN path[i] |-> IF path[i][j] = "%2e%2e" THEN ".." ELSE path[i][j]]]

\* path-strip-dotdot without `full`: a `..` at the head of the path stays.
StripDotdot(path) ==
  FoldLeft(LAMBDA kept, segment :
             IF segment = <<"..">> /\ kept # <<>> /\ Last(kept) # <<"..">>
             THEN Front(kept) ELSE Append(kept, segment),
           <<>>, path)

\* Bug: `..` is stripped before it is decoded.
BugNormalized(path) == Decode(StripDotdot(path))

Normalized(path) == StripDotdot(Decode(path))

Parts(path) == UNION {Range(path[i]) : i \in DOMAIN path}

\* Bug: only a whole segment counts as a dot-dot.
BugPathDenied(path) == <<"..">> \in Range(path) \/ "\\" \in Parts(path)

PathDenied(path) == ".." \in Parts(path) \/ "\\" \in Parts(path)

-----------------------------------------------------------------------------
(* The resolver's view of the same rules. In audit the host and URL rules  *)
(* are emptied before either configuration is generated.                   *)

Compiled(input) ==
  IF input.mode = "audit" THEN [input EXCEPT !.https = {}, !.http = {}] ELSE input

\* Bug: a tls rule is not inspected, so its names are left out.
BugResolverHosts(rules) ==
  {pair[1] : pair \in UNION {rule.accepts : rule \in rules.https \cup rules.http}}

ResolverHosts(rules) ==
  {pair[1] : pair \in UNION {rule.accepts : rule \in rules.https \cup rules.http \cup rules.tls}}

\* Bug: a service name is exempt under any host.
BugVerb(rules, name, type) ==
  LET allowed(n) == rules.mode = "audit" \/ n \in ResolverHosts(rules)
      service == name \in ServiceNames
  IN  IF name \in ReverseNames THEN "reverse"
      ELSE IF service /\ type \in DiscoveryTypes THEN "discovery"
      ELSE IF allowed(name) THEN "allowed"
      ELSE IF service THEN "service-denied" ELSE "denied"

\* The views of the Corefile in their order.
Verb(rules, name, type) ==
  LET allowed(n) == rules.mode = "audit" \/ n \in ResolverHosts(rules)
      service == name \in ServiceNames
  IN  IF name \in ReverseNames THEN "reverse"
      ELSE IF service /\ type \in DiscoveryTypes /\ allowed(ParentOf[name]) THEN "discovery"
      ELSE IF allowed(name) THEN "allowed"
      ELSE IF service THEN "service-denied" ELSE "denied"
=============================================================================
