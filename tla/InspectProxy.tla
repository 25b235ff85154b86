---------------------------- MODULE InspectProxy ----------------------------
(***************************************************************************)
(* The proxy of the inspect engine as its generated configuration runs it: *)
(* a connection is passed through or handed to an inspected stage, a       *)
(* request is normalized, judged, resolved, guarded and sent, and each     *)
(* leaves one line in the log; the resolver answers every lookup itself    *)
(* and leaves one line too.                                                *)
(*                                                                         *)
(* HAProxy, the client, the upstream resolvers and the origins are         *)
(* external. A connection's content rules run once its first bytes are     *)
(* there or the inspect delay is over.                                     *)
(***************************************************************************)
EXTENDS Egress, InspectLog, FiniteSets

CONSTANTS
  Conns,
  RuleInputs,   \* the rule sets of the runs, before Compiled
  RawPaths,     \* paths as a client sends them
  LookupTypes,  \* the types of a lookup
  Retries,      \* failed connection attempts HAProxy retries
  MaxEvents     \* bound: requests, other connections and lookups in one behaviour

ASSUME InspectProxyAssumption ==
  /\ Dash \notin Names \cup Addrs \cup Ports /\ UnknownHost \notin Names \cup Addrs
  /\ BadRequestMethod \notin Methods
  /\ LET Rules == SUBSET [accepts : SUBSET (Hosts \X (Ports \cup {AnyPort, BarePort})),
                          prefix : Seq(Seq(STRING)), methods : SUBSET Methods]
     IN  RuleInputs \subseteq [mode : {"restrict", "audit"}, ip : Rules, tls : Rules, https : Rules, http : Rules]
  /\ Retries \in Nat /\ MaxEvents \in Nat

VARIABLES
  conn,     \* the connections: where a client aimed one, dst as it is now, ...
  proxyLog, \* the lines of the proxy's log, each with what really happened
  dnsLog    \* the lines of the resolver's log

vars == <<rules, asked, reached, conn, proxyLog, dnsLog>>

Audit == rules.mode = "audit"

NoRequest == [host |-> Dash, path |-> NoPath, method |-> BadRequestMethod]
Fresh(stage, addr, port, hello, sni) ==
  [stage |-> stage, aimed |-> addr, dst |-> addr, port |-> port, hello |-> hello, sni |-> sni,
   req |-> NoRequest, tlserr |-> Dash, tries |-> 0, met |-> FALSE]
Idle == Fresh("idle", Dash, Dash, Dash, Dash)

Init ==
  /\ rules \in {Compiled(input) : input \in RuleInputs}
  /\ EgressInit
  /\ conn = [c \in Conns |-> Idle]
  /\ proxyLog = {} /\ dnsLog = {}

-----------------------------------------------------------------------------
(* The log of the proxy. fate is what became of the stream, met whether it *)
(* wanted an origin's certificate and never accepted one: the line has     *)
(* neither.                                                                *)

\* txn.tlsrule, and txn.pass below.
TlsRule(c) ==
  conn[c].sni # Dash /\ \E rule \in rules.tls : Accepts(rule, conn[c].sni, conn[c].port)

Pass(c) == TlsRule(c) \/ \E rule \in rules.ip : Accepts(rule, conn[c].aimed, conn[c].port)

\* The rule kind that decides, and the stage (use_backend) it is decided on.
Via(c) ==
  IF TlsRule(c) THEN "tls" ELSE IF Pass(c) THEN "ip"
  ELSE IF conn[c].hello = "tls" THEN "https" ELSE "http"

Ts(cause, phase) == [cause |-> cause, phase |-> phase]

LineOf(c, via, ts, reason) ==
  IF via \in Schemes
  THEN [kind |-> "request", scheme |-> via, ts |-> ts, reason |-> reason,
        tlserr |-> conn[c].tlserr, method |-> conn[c].req.method, dst |-> conn[c].dst,
        port |-> conn[c].port, sni |-> IF via = "https" THEN conn[c].sni ELSE Dash,
        host |-> conn[c].req.host]
  ELSE [kind |-> "pass", proto |-> IF conn[c].hello = "tls" THEN "tls" ELSE "tcp", ts |-> ts,
        reason |-> reason, method |-> Dash, tlserr |-> Dash, dst |-> conn[c].dst,
        port |-> conn[c].port, sni |-> conn[c].sni]

\* The stream ends with its line. An inspected connection may carry another
\* request.
End(c, via, ts, reason, fate) ==
  /\ proxyLog' = proxyLog \cup
       {[line |-> LineOf(c, via, ts, reason), via |-> via, fate |-> fate, met |-> conn[c].met]}
  /\ UNCHANGED <<rules, dnsLog>>

Close(c) == conn' = [conn EXCEPT ![c] = Idle]

Goto(c, stage) == conn' = [conn EXCEPT ![c].stage = stage]

Events ==
  Cardinality(proxyLog) + Cardinality(dnsLog) + Cardinality({c \in Conns : conn[c] # Idle})

Room == Events < MaxEvents

-----------------------------------------------------------------------------
(* The detect frontend.                                                    *)

\* Everything TCP is redirected to the listener, whatever it was aimed at.
Open(c) ==
  /\ conn[c] = Idle
  /\ Room
  /\ \E a \in Addrs, p \in Ports :
     \E first \in {<<"tls", s>> : s \in Names \cup {Dash}} \cup {<<"plain", Dash>>, <<"silent", Dash>>} :
       conn' = [conn EXCEPT ![c] = Fresh("detect", a, p, first[1], first[2])]
  /\ UNCHANGED <<rules, asked, reached, proxyLog, dnsLog>>

\* What the rules are asked about: the address is the one to be dialled.
Exchange(c, via, addr, req) ==
  [via |-> via, addr |-> addr, port |-> conn[c].port, path |-> req.path, method |-> req.method,
   host |-> IF via = "ip" THEN Dash ELSE IF via = "tls" THEN conn[c].sni ELSE req.host]

Detect(c) ==
  /\ conn[c].stage = "detect"
  /\ IF TlsRule(c)
     THEN asked' = asked \cup {Exchange(c, "tls", Dash, NoRequest)} /\ Goto(c, "lookup")
     ELSE Goto(c, IF Pass(c) THEN "dial" ELSE "request") /\ UNCHANGED asked
  /\ UNCHANGED <<rules, reached, proxyLog, dnsLog>>

\* do-resolve of the SNI, within what is left of the inspect delay: no answer
\* in time is dns-failed.
LookupFails(c) ==
  /\ conn[c].stage = "lookup"
  /\ End(c, "tls", Ts("P", "R"), "dns-failed", "dnsFailed") /\ Close(c)
  /\ UNCHANGED <<asked, reached>>

\* set-dst, then the guard: the line has the address that tripped it.
LookupAnswered(c) ==
  /\ conn[c].stage = "lookup"
  /\ \E a \in Addrs : conn' = [conn EXCEPT ![c].dst = a,
                                           ![c].stage = IF a \in Guarded THEN "internal" ELSE "dial"]
  /\ UNCHANGED <<rules, asked, reached, proxyLog, dnsLog>>

-----------------------------------------------------------------------------
(* The inspected stages.                                                   *)

\* The client leaves, fails the handshake or says nothing (CR, cR), or HAProxy
\* has no resources for it (IR).
NoRequestArrives(c) ==
  /\ conn[c].stage = "request"
  /\ \E cause \in {"C", "c", "I"} : End(c, Via(c), Ts(cause, "R"), Dash, "noRequest")
  /\ Close(c) /\ UNCHANGED <<asked, reached>>

BadRequest(c) ==
  /\ conn[c].stage = "request"
  /\ End(c, Via(c), Ts("P", "R"), Dash, "refused") /\ Close(c)
  /\ UNCHANGED <<asked, reached>>

\* Bug: the path denies come ahead of the check for a Host.
BugDenial(c, req) ==
  IF PathDenied(req.path) \/ ~TxnAllowed(rules, Via(c), req, conn[c].port) THEN "denied"
  ELSE IF req.host = Dash THEN "missing-host-header" ELSE "none"

\* Bug: what allowed one request of a connection allows the next.
BugDenialKept(c, req) ==
  IF req.host = Dash THEN "missing-host-header"
  ELSE IF PathDenied(req.path) THEN "denied"
  ELSE IF TxnAllowed(rules, Via(c), req, conn[c].port)
          \/ \E entry \in proxyLog : entry.fate = "relayed" THEN "none"
  ELSE "denied"

\* The denies of a stage in their order, with the reason each one logs.
Denial(c, req) ==
  IF req.host = Dash THEN "missing-host-header"
  ELSE IF PathDenied(req.path) \/ ~TxnAllowed(rules, Via(c), req, conn[c].port) THEN "denied"
  ELSE "none"

\* A request as its normalization leaves it.
Requests ==
  {[host |-> host, path |-> Normalized(raw), method |-> method] :
     host \in Hosts \cup {Dash}, raw \in RawPaths, method \in Methods}

\* A request is read, normalized and judged; only what passes is resolved, and
\* a host that is an address is taken as it is.
Request(c) ==
  /\ conn[c].stage = "request"
  /\ \E req \in Requests :
       \/ /\ Denial(c, req) # "none"
          /\ conn' = [conn EXCEPT ![c].req = req, ![c].stage = Denial(c, req)]
          /\ UNCHANGED asked
       \/ /\ Denial(c, req) = "none" /\ req.host \in Addrs
          /\ conn' = [conn EXCEPT ![c].req = req, ![c].stage = "dial", ![c].dst = req.host]
          /\ UNCHANGED asked
       \/ /\ Denial(c, req) = "none" /\ req.host \notin Addrs
          /\ conn' = [conn EXCEPT ![c].req = req, ![c].stage = "resolve"]
          /\ asked' = asked \cup {Exchange(c, Via(c), Dash, req)}
  /\ UNCHANGED <<rules, reached, proxyLog, dnsLog>>

\* A deny. internal is also the reject of the detect frontend.
Refuse(c) ==
  /\ conn[c].stage \in {"denied", "missing-host-header", "internal"}
  /\ End(c, Via(c), Ts("P", "R"),
         IF conn[c].stage = "internal" THEN "internal-address"
         ELSE IF conn[c].stage = "denied" THEN Dash ELSE "missing-host-header", "refused")
  /\ Close(c) /\ UNCHANGED <<asked, reached>>

\* The second do-resolve is a fresh attempt, for the same exchange.
ResolveFails(c) ==
  /\ \/ conn[c].stage = "resolve" /\ Goto(c, "resolveAgain") /\ UNCHANGED <<rules, proxyLog, dnsLog>>
     \/ /\ conn[c].stage = "resolveAgain"
        /\ End(c, Via(c), Ts("P", "R"), "dns-failed", "dnsFailed") /\ Close(c)
  /\ UNCHANGED <<asked, reached>>

\* set-dst before the guard, as above.
Resolved(c) ==
  /\ conn[c].stage \in {"resolve", "resolveAgain"}
  /\ \E a \in Addrs : conn' = [conn EXCEPT ![c].dst = a,
                                           ![c].stage = IF a \in Guarded THEN "internal" ELSE "dial"]
  /\ UNCHANGED <<rules, asked, reached, proxyLog, dnsLog>>

-----------------------------------------------------------------------------
(* The backends: `server origin 0.0.0.0` goes to the destination that was  *)
(* set, and origin_tls verifies the certificate for the Host.              *)

Dial(c) ==
  /\ conn[c].stage = "dial"
  /\ reached' = reached \cup {Exchange(c, Via(c), conn[c].dst, conn[c].req)}
  /\ conn' = [conn EXCEPT ![c].stage = "connect", ![c].met = Via(c) = "https"]
  /\ UNCHANGED <<rules, asked, proxyLog, dnsLog>>

Connected(c) ==
  /\ conn[c].stage = "connect"
  /\ conn' = [conn EXCEPT ![c].stage = "relay", ![c].tlserr = Dash, ![c].met = FALSE]
  /\ UNCHANGED <<rules, asked, reached, proxyLog, dnsLog>>

\* A failed attempt: tlserr is that of the last one.
AttemptFails(c) ==
  /\ conn[c].stage = "connect" /\ conn[c].tries <= Retries
  /\ \E err \in {Dash} \cup (IF Via(c) = "https" THEN {"verify"} ELSE {}) :
       conn' = [conn EXCEPT ![c].tlserr = err, ![c].tries = @ + 1]
  /\ UNCHANGED <<rules, asked, reached, proxyLog, dnsLog>>

\* SC, or sC when the last attempt was one that timed out.
GiveUp(c) ==
  /\ conn[c].stage = "connect" /\ conn[c].tries = Retries + 1
  /\ \E cause \in IF conn[c].tlserr = Dash THEN {"S", "s"} ELSE {"S"} :
       End(c, Via(c), Ts(cause, "C"), Dash, IF conn[c].met THEN "unauthenticated" ELSE "unreachable")
  /\ Close(c) /\ UNCHANGED <<asked, reached>>

\* The client leaves while HAProxy still tries.
ClientLeaves(c) ==
  /\ conn[c].stage = "connect"
  /\ End(c, Via(c), Ts("C", "C"), Dash, "clientLeft")
  /\ Close(c) /\ UNCHANGED <<asked, reached>>

\* The ends a connected stream can have, and what each means. Only an
\* inspected stage waits for a response (phase H).
Ends(via) ==
  {<<Ts("-", "-"), "relayed">>, <<Ts("S", "D"), "originFailed">>, <<Ts("s", "D"), "cutShort">>,
   <<Ts("C", "D"), "clientLeft">>, <<Ts("c", "D"), "clientLeft">>} \cup
  (IF via \in Schemes
   THEN {<<Ts("S", "H"), "originFailed">>, <<Ts("s", "H"), "originFailed">>, <<Ts("P", "H"), "refused">>}
   ELSE {})

\* An inspected connection that relayed a response is kept for the next request.
RelayEnds(c) ==
  /\ conn[c].stage = "relay"
  /\ \E e \in Ends(Via(c)) :
       /\ End(c, Via(c), e[1], Dash, e[2])
       /\ IF Via(c) \in Schemes /\ e[2] = "relayed" /\ Room
          THEN conn' = [conn EXCEPT ![c].stage = "request", ![c].req = NoRequest,
                                     ![c].dst = conn[c].aimed, ![c].tries = 0]
          ELSE Close(c)
  /\ UNCHANGED <<asked, reached>>

-----------------------------------------------------------------------------
\* CoreDNS answers every name with the gateway and asks nobody.
Lookup ==
  /\ Room
  /\ \E name \in Names, type \in LookupTypes :
       dnsLog' = dnsLog \cup {[verb |-> Verb(rules, name, type), name |-> name, type |-> type]}
  /\ UNCHANGED <<rules, asked, reached, conn, proxyLog>>

Stream(c) ==
  \/ Open(c) \/ Detect(c) \/ LookupFails(c) \/ LookupAnswered(c)
  \/ NoRequestArrives(c) \/ BadRequest(c) \/ Request(c) \/ Refuse(c)
  \/ ResolveFails(c) \/ Resolved(c)
  \/ Dial(c) \/ Connected(c) \/ AttemptFails(c) \/ GiveUp(c) \/ ClientLeaves(c) \/ RelayEnds(c)

Next == Lookup \/ \E c \in Conns : Stream(c)

Spec == Init /\ [][Next]_vars

-----------------------------------------------------------------------------
Stages ==
  {"idle", "detect", "lookup", "request", "denied", "missing-host-header", "internal",
   "resolve", "resolveAgain", "dial", "connect", "relay"}

ConnSet ==
  [stage : Stages, aimed : Addrs \cup {Dash}, dst : Addrs \cup {Dash}, port : Ports \cup {Dash},
   hello : {"tls", "plain", "silent", Dash}, sni : Names \cup {Dash}, req : Requests \cup {NoRequest},
   tlserr : {"verify", Dash}, tries : 0..(Retries + 1), met : BOOLEAN]

TypeOK ==
  /\ rules \in {Compiled(input) : input \in RuleInputs}
  /\ conn \in [Conns -> ConnSet]
  /\ \A l \in dnsLog :
       l.verb \in {"reverse", "discovery", "allowed", "service-denied", "denied"}

\* What the proxy does to the world outside is what the rules promise.
ImplementsEgress == EgressSpec

\* What the report says of each stream is what happened to it: a refusal is
\* blocked, a failure of the origin or of a resolver is failed, and nothing
\* else is either (docs/reference.md, "Blocked", "Failed"). A client that left
\* while the proxy was still connecting is not covered here.
ActionOf(fate) ==
  CASE fate \in {"refused", "unauthenticated"} -> {"block"}
    [] fate \in {"dnsFailed", "unreachable", "originFailed"} -> {"failed"}
    [] fate = "noRequest" -> {"incomplete"}
    [] OTHER -> {"allow", "audit"}

ReportTellsWhatHappened ==
  \A entry \in proxyLog : ProxyEvent(entry.line, Audit).action \in ActionOf(entry.fate)

Report == Tables(Timeline({entry.line : entry \in proxyLog}, dnsLog, Audit))

\* The remedy of a row is a rule for its host, so a row is never named by the
\* `-` the log has for a Host that did not come (haproxy-inspect-stage.ts).
RowsAreNamed ==
  \A row \in Report.blocked \cup Report.failed \cup Report.passed : row.host # Dash

\* A rule names the host, on whatever port.
Named(host) ==
  \E rule \in rules.https \cup rules.http \cup rules.tls, p \in Ports \cup {AnyPort, BarePort} :
    <<host, p>> \in rule.accepts

\* A lookup of a name no rule has is in the blocked table: neither a service
\* prefix nor an allowed connection to the name takes it out.
LookupsAreReported ==
  ~Audit => \A l \in dnsLog :
    \/ l.name \in ReverseNames \/ Named(l.name)
    \/ l.name \in ServiceNames /\ l.type \in DiscoveryTypes /\ Named(ParentOf[l.name])
    \/ \E row \in Report.blocked : row.host = l.name

\* "what this logs as allowed and what HAProxy lets through cannot disagree
\* about a name" (coredns-config.ts). An ip rule judges no name: a connection it
\* lets through is reported under an SNI nothing was asked about.
LetThrough(entry) == ProxyEvent(entry.line, Audit).action \in {"allow", "audit", "failed"}

Disagree(entry, l) ==
  LetThrough(entry) /\ l.verb = "denied" /\ ProxyEvent(entry.line, Audit).host = l.name

JudgedNamesAgree ==
  \A entry \in proxyLog, l \in dnsLog : Disagree(entry, l) => entry.via = "ip"

=============================================================================
