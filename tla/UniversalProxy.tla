--------------------------- MODULE UniversalProxy ---------------------------
(***************************************************************************)
(* The proxy of the universal engine as haproxy.cfg.template runs it.      *)
(* dnsmasq answers every name with the gateway, so a connection aimed      *)
(* there came through a name and any other one did not.  The content rules *)
(* run once the first bytes are in or the inspect delay is over; a TLS     *)
(* connection is judged by its SNI, a request by its Host, and one aimed   *)
(* at an address by the ip rules.  Each stream leaves one line, and the    *)
(* report sorts the lines into its tables (scanHaproxyLog).                *)
(*                                                                         *)
(* The promise to the world outside is Egress, the one of the inspect      *)
(* engine, for the destination a client names: a TLS connection past the   *)
(* gateway is judged by its SNI, whatever address it was aimed at.  A      *)
(* name's address rotates, and an answer is held for Hold ticks of the     *)
(* clock whatever the record's own lifetime is.  An SNI and a Host are     *)
(* texts, a name's or an address's; spellings of one name are one value.   *)
(***************************************************************************)
EXTENDS Egress, FiniteSets

CONSTANTS
  Dash,
  Gateway,       \* this container's address, what every name resolves to inside
  Conns,
  RuleInputs,    \* the rule sets of the runs, before they are converted
  Rotating,      \* the names whose address changes
  Hold,          \* `hold valid`, in ticks
  MaxStreams,    \* bound: connections and requests in one behaviour
  MaxTicks       \* bound: ticks of the clock, each with a rotation or none

\* A rule without a path or a method, which this engine does not see.
AnyPath == <<>>
HostRules == [accepts : SUBSET (Hosts \X (Ports \cup {AnyPort})), prefix : {AnyPath}, methods : {Methods}]
Everything == [accepts |-> {<<h, AnyPort>> : h \in Hosts}, prefix |-> AnyPath, methods |-> Methods]

ASSUME UniversalProxyAssumption ==
  /\ Dash \notin Hosts \cup Ports \cup {"dns-failed", "not-allowed", "ip-not-allowed"}
  /\ Gateway \in Guarded /\ Rotating \subseteq Names /\ Methods # {}
  /\ RuleInputs \subseteq [mode : {"restrict", "audit"}, ip : SUBSET HostRules, tls : {{}},
                           https : SUBSET HostRules, http : SUBSET HostRules]
  /\ Hold \in Nat \ {0} /\ MaxStreams \in Nat /\ MaxTicks \in Nat

VARIABLES
  conn,      \* the connections, with what the rules have set for their line
  last,      \* the line logged last, with what became of its stream
  streams,   \* how many lines there have been
  current,   \* upstream: for each name, how long ago an address was its own
  held,      \* HAProxy: the answer held for each name, and for how long yet
  ticks

vars == <<rules, asked, reached, conn, last, streams, current, held, ticks>>

Audit == rules.mode = "audit"

\* init-haproxy-cfg: in audit each list is `.*`.
Converted(input) ==
  IF input.mode = "audit"
  THEN [input EXCEPT !.ip = {Everything}, !.https = {Everything}, !.http = {Everything}]
  ELSE input

DecisionLabel == IF Audit THEN "AUDIT" ELSE "ALLOWED"

Fresh(stage, aimed, port, hello, sni) ==
  [stage |-> stage, aimed |-> aimed, dst |-> aimed, port |-> port, hello |-> hello, sni |-> sni,
   host |-> Dash, decision |-> "BLOCKED", type |-> "UNKNOWN", reason |-> Dash, age |-> 0]
Idle == Fresh("idle", Dash, Dash, Dash, Dash)

\* No name has been asked for, and all have one address.  Ages stop at Hold.
NeverAged == Hold
NoLine == [fate |-> Dash]
Init ==
  /\ rules \in {Converted(input) : input \in RuleInputs}
  /\ EgressInit
  /\ conn = [c \in Conns |-> Idle]
  /\ last = NoLine /\ streams = 0
  /\ \E at \in Addrs :
       current = [n \in Names |-> [a \in Addrs |-> IF a = at THEN 0 ELSE NeverAged]]
  /\ held = [n \in Names |-> [addr |-> Dash, left |-> 0]]
  /\ ticks = 0

-----------------------------------------------------------------------------
(* The line of a stream, and the stages.                                   *)

\* txn.target: the SNI or the Host where there is one, else the destination.
Target(k) == IF k.host # Dash THEN k.host ELSE IF k.sni # Dash THEN k.sni ELSE k.aimed

LineOf(k) ==
  [decision |-> k.decision, type |-> k.type, host |-> Target(k), port |-> k.port, reason |-> k.reason]

World == <<rules, current, held, ticks>>
Log == <<last, streams>>

\* The stream ends with its line.
End(c, k, fate) ==
  /\ last' = [line |-> LineOf(k), fate |-> fate, aimed |-> k.aimed]
  /\ streams' = streams + 1
  /\ conn' = [conn EXCEPT ![c] = Idle]

Refuse(c, k, reason) == End(c, [k EXCEPT !.reason = reason], "refused")

\* What the rules are asked about, in the words of Egress.  The host of a
\* connection past the gateway is what its SNI claims, if it has one.
Exchange(via, k, addr) ==
  [via |-> via, addr |-> addr, port |-> k.port, path |-> AnyPath,
   method |-> CHOOSE m \in Methods : TRUE, host |-> IF via = "ip" THEN k.sni ELSE Target(k)]

Via(k) == IF k.type = "IP" THEN "ip" ELSE IF k.type = "HTTPS" THEN "https" ELSE "http"

\* The text of an address is resolved like any other, but no name is asked for.
AskedWith(x) == IF x.host \in Names THEN asked \cup {x} ELSE asked

Listed(list, host, port) == \E rule \in list : Accepts(rule, host, port)

\* PREROUTING redirects every connection here, whatever it was aimed at.
Open(c) ==
  /\ conn[c] = Idle
  /\ streams + Cardinality({d \in Conns : conn[d] # Idle}) < MaxStreams
  /\ \E a \in Addrs, p \in Ports :
     \E first \in {<<"tls", s>> : s \in Hosts \cup {Dash}} \cup {<<"plain", Dash>>} :
       conn' = [conn EXCEPT ![c] = Fresh("detect", a, p, first[1], first[2])]
  /\ UNCHANGED <<World, asked, reached, Log>>

\* The client leaves before its first bytes, or before a whole request.
NothingArrives(c) ==
  /\ conn[c].stage \in {"detect", "request"}
  /\ End(c, [conn[c] EXCEPT !.sni = Dash], "noRequest")
  /\ UNCHANGED <<World, asked, reached>>

\* Section 1: a connection that did not come through a name.  is_ip_match reads
\* txn.target, which by now is the SNI when there is one.
DetectDirect(c) ==
  /\ conn[c].stage = "detect" /\ conn[c].aimed # Gateway
  /\ LET k == [conn[c] EXCEPT !.type = "IP"] IN
       IF Listed(rules.ip, Target(k), k.port)
       THEN /\ conn' = [conn EXCEPT ![c] = [k EXCEPT !.decision = DecisionLabel, !.stage = "dial"]]
            /\ UNCHANGED Log
       ELSE Refuse(c, k, "ip-not-allowed")
  /\ UNCHANGED <<World, asked, reached>>

\* Sections 2 and 3: the allowlist comes before the name is asked for.
DetectTls(c) ==
  /\ conn[c].stage = "detect" /\ conn[c].aimed = Gateway /\ conn[c].hello = "tls"
  /\ LET k == [conn[c] EXCEPT !.type = "HTTPS"] IN
       IF k.sni = Dash THEN Refuse(c, k, "missing-sni") /\ UNCHANGED asked
       ELSE IF ~Listed(rules.https, k.sni, k.port) THEN Refuse(c, k, "not-allowed") /\ UNCHANGED asked
       ELSE /\ conn' = [conn EXCEPT ![c] = [k EXCEPT !.stage = "lastTry"]]
            /\ asked' = AskedWith(Exchange("https", k, Dash))
            /\ UNCHANGED Log
  /\ UNCHANGED <<World, reached>>

DetectHttp(c) ==
  /\ conn[c].stage = "detect" /\ conn[c].aimed = Gateway /\ conn[c].hello = "plain"
  /\ conn' = [conn EXCEPT ![c].stage = "request"]
  /\ UNCHANGED <<World, asked, reached, Log>>

\* http_filter_backend up to its resolution.  Bytes that are no request end
\* before the first of its rules.
Request(c) ==
  /\ conn[c].stage = "request"
  /\ \/ End(c, conn[c], "refused") /\ UNCHANGED asked
     \/ \E host \in Hosts \cup {Dash} :
          LET k == [conn[c] EXCEPT !.type = "HTTP", !.host = host] IN
            IF host = Dash THEN Refuse(c, k, "missing-host-header") /\ UNCHANGED asked
            ELSE IF ~Listed(rules.http, host, k.port) THEN Refuse(c, k, "not-allowed") /\ UNCHANGED asked
            ELSE /\ conn' = [conn EXCEPT ![c] = [k EXCEPT !.stage = "firstTry"]]
                 /\ asked' = AskedWith(Exchange("http", k, Dash))
                 /\ UNCHANGED Log
  /\ UNCHANGED <<World, reached>>

-----------------------------------------------------------------------------
(* do-resolve: what is held, or an answer of the upstream resolvers.       *)

Resolving(c) == conn[c].stage \in {"firstTry", "lastTry"}

\* Only the request path has a second attempt.  Nobody answers for the text of an
\* address.
ResolveFails(c) ==
  /\ Resolving(c)
  /\ Target(conn[c]) \in Names => held[Target(conn[c])].left = 0
  /\ \/ /\ conn[c].stage = "firstTry"
        /\ conn' = [conn EXCEPT ![c].stage = "lastTry"] /\ UNCHANGED Log
     \/ /\ conn[c].stage = "lastTry"
        /\ End(c, [conn[c] EXCEPT !.reason = "dns-failed"], "dnsFailed")
  /\ UNCHANGED <<World, asked, reached>>

\* Bug: the guard has the built-in ranges and not the runner's addresses.
BugGuard(addr) == addr = Gateway

Guard(addr) == addr \in Guarded

\* Bug: the decision is written once the name resolves.
BugAnswer(c, addr) ==
  LET k == [conn[c] EXCEPT !.decision = DecisionLabel] IN
  IF Guard(addr) THEN Refuse(c, k, "internal-address")
  ELSE conn' = [conn EXCEPT ![c] = [k EXCEPT !.dst = addr, !.stage = "dial",
                                     !.age = current[Target(k)][addr]]]
       /\ UNCHANGED Log

\* The guard, then set-dst, and the decision last of all.
Answer(c, addr) ==
  LET k == conn[c] IN
  IF Guard(addr) THEN Refuse(c, k, "internal-address")
  ELSE conn' = [conn EXCEPT ![c] = [k EXCEPT !.dst = addr, !.stage = "dial", !.decision = DecisionLabel,
                                     !.age = current[Target(k)][addr]]]
       /\ UNCHANGED Log

\* Bug: an answer used is an answer kept.
BugHeldAfterUse(name) == [held EXCEPT ![name].left = Hold]

HeldAfterUse(name) == held

ResolveHeld(c) ==
  /\ Resolving(c)
  /\ LET name == Target(conn[c]) IN
     /\ name \in Names /\ held[name].left > 0
     /\ Answer(c, held[name].addr)
     /\ held' = HeldAfterUse(name)
  /\ UNCHANGED <<rules, current, ticks, asked, reached>>

ResolveAsks(c) ==
  /\ Resolving(c)
  /\ \E addr \in Addrs :
     LET name == Target(conn[c]) IN
     /\ name \in Names /\ held[name].left = 0 /\ current[name][addr] = 0
     /\ Answer(c, addr)
     /\ held' = [held EXCEPT ![name] = [addr |-> addr, left |-> Hold]]
  /\ UNCHANGED <<rules, current, ticks, asked, reached>>

\* The passthrough backends and the request's own: `0.0.0.0:0` is what was set.
Dial(c) ==
  /\ conn[c].stage = "dial"
  /\ reached' = reached \cup {Exchange(Via(conn[c]), conn[c], conn[c].dst)}
  /\ conn' = [conn EXCEPT ![c].stage = "relay"]
  /\ UNCHANGED <<World, asked, Log>>

\* A kept connection's next request is a stream of its own, judged from the start.
NextStream(k) == Fresh("detect", k.aimed, k.port, k.hello, k.sni)

\* The decision was written before the connection was tried, and stands.
StreamEnds(c) ==
  /\ conn[c].stage = "relay"
  /\ \E fate \in {"relayed", "unreachable"} :
       /\ last' = [line |-> LineOf(conn[c]), fate |-> fate, aimed |-> conn[c].aimed]
       /\ streams' = streams + 1
       /\ conn' = [conn EXCEPT ![c] =
            IF conn[c].type = "HTTP" /\ fate = "relayed" /\ streams + 1 < MaxStreams
            THEN NextStream(conn[c]) ELSE Idle]
  /\ UNCHANGED <<World, asked, reached>>

\* Time passes: a held answer runs out, and a name's address may rotate.
Tick ==
  /\ ticks < MaxTicks /\ ticks' = ticks + 1
  /\ held' = [n \in Names |-> [held[n] EXCEPT !.left = IF @ = 0 THEN 0 ELSE @ - 1]]
  /\ \E n \in Rotating, a \in Addrs :
       current' = [m \in Names |-> [b \in Addrs |->
         IF (IF m = n THEN b = a ELSE current[m][b] = 0) THEN 0
         ELSE IF current[m][b] = NeverAged THEN NeverAged ELSE current[m][b] + 1]]
  /\ UNCHANGED <<rules, asked, reached, conn, Log>>

Stream(c) ==
  \/ Open(c) \/ NothingArrives(c) \/ DetectDirect(c) \/ DetectTls(c) \/ DetectHttp(c)
  \/ Request(c) \/ ResolveFails(c) \/ ResolveHeld(c) \/ ResolveAsks(c) \/ Dial(c) \/ StreamEnds(c)

Next == Tick \/ \E c \in Conns : Stream(c)

Spec == Init /\ [][Next]_vars

-----------------------------------------------------------------------------
(* The report, and the properties.                                         *)

\* scanHaproxyLog: the table of a line; the other mode's label is dropped.
Table(line) ==
  IF line.decision = "BLOCKED" THEN IF line.reason = "dns-failed" THEN "failed" ELSE "blocked"
  ELSE IF line.decision = IF Audit THEN "AUDIT" ELSE "ALLOWED" THEN "passed" ELSE "dropped"

\* An exchange, to the destination that was judged.
AsClaimed(x) == IF x.via = "ip" /\ x.host # Dash THEN [x EXCEPT !.addr = x.host] ELSE x

Claimed == INSTANCE Egress WITH reached <- {AsClaimed(x) : x \in reached}

\* A name is asked about, and a connection made, only as the rules and the guard
\* of Egress allow, on every stream of every connection; past the gateway, for
\* the destination the client's SNI claims.
ImplementsEgress == Claimed!EgressSpec

\* A row is in the table of what happened: refused, failed upstream, or let
\* through whatever became of the connection (docs/reference.md:420).  A client
\* that left early is reported as blocked, which this engine cannot tell apart.
\* And a row that names a rule for its reason is one no rule of its kind covers.
TablesTellWhatHappened ==
  last # NoLine =>
    LET row == last.line
        list == IF row.type = "HTTPS" THEN rules.https
                ELSE IF row.type = "HTTP" THEN rules.http ELSE rules.ip
    IN  /\ Table(row) = IF last.fate \in {"refused", "noRequest"} THEN "blocked"
                        ELSE IF last.fate = "dnsFailed" THEN "failed" ELSE "passed"
        /\ row.reason \in {"not-allowed", "ip-not-allowed"} =>
             \A rule \in list : ~Accepts(rule, row.host, row.port)

\* What is dialled for a name was its address less than Hold ago, however often
\* the held answer was used (haproxy.cfg.template:19).
DialledAddressIsRecent ==
  \A c \in Conns :
    conn[c].stage \in {"dial", "relay"} /\ conn[c].type # "IP" => conn[c].age < Hold

\* "once an `ip:port` pair is allowed, any TCP-based protocol can use that path"
\* (docs/reference.md:214): no stream aimed at such a pair is refused.
IpRulesCoverAnyProtocol ==
  last # NoLine /\ last.aimed # Gateway /\ Listed(rules.ip, last.aimed, last.line.port)
    => last.fate # "refused"
=============================================================================
