----------------------------- MODULE InspectLog -----------------------------
(***************************************************************************)
(* How the report reads the two logs of the inspect engine: from a line to *)
(* an event (parseProxyLine, scanInspectDnsLog) and from the events to the *)
(* host tables (buildInspectReportData). A log is the set of its lines;    *)
(* times, sizes and counts are left out. Pure operators.                   *)
(*                                                                         *)
(* A termination state is [cause, phase], the first two letters of %ts. A  *)
(* field that is empty is Dash, the `-` the log format prints for it.      *)
(***************************************************************************)
CONSTANTS Dash, UnknownHost

ASSUME InspectLogAssumption ==
  Dash \notin {UnknownHost, "bad-request", "missing-host-header", "internal-address", "not-allowed",
               "dns-failed", "origin-unreachable", "origin-no-response", "origin-aborted",
               "origin-untrusted", "origin-connect-failed", "no-request", "client-aborted",
               "client-timeout", "dns-not-allowed", "dns-service-not-allowed"}

BadRequestMethod == "<BADREQ>"
RequestlessReasons == {"bad-request", "missing-host-header"}

FailureReasons == {"origin-unreachable", "origin-no-response", "origin-aborted", "dns-failed"}

\* Bug: only the proxy's own answers count.
BugIsRefusal(ts) == ts.cause = "P"

\* Whether the response the build saw was this proxy's own.
IsRefusal(ts) ==
  \/ ts.cause \in {"P", "S"}
  \/ ts.cause = "s" /\ ts.phase \in {"C", "H"}

\* checked: the stage verifies the origin's certificate (tlsError is defined).
ReasonFor(line, checked) ==
  IF line.reason # Dash THEN line.reason
  ELSE IF line.ts.cause \notin {"S", "s"}
       THEN IF line.method = BadRequestMethod THEN "bad-request" ELSE "not-allowed"
  ELSE CASE line.ts.phase = "H" -> "origin-no-response"
         [] line.ts.phase \in {"D", "L"} -> "origin-aborted"
         [] OTHER -> IF ~checked THEN "origin-unreachable"
                     ELSE IF line.ts.cause = "S" /\ line.tlserr # Dash THEN "origin-untrusted"
                     ELSE "origin-connect-failed"

\* What ended a connection before a whole request had arrived, or Dash.
IncompleteReason(line) ==
  IF line.ts.cause = "P" THEN Dash
  ELSE IF line.ts.phase # "R"
       THEN IF line.method = BadRequestMethod THEN "no-request" ELSE Dash
  ELSE CASE line.ts.cause = "C" -> "client-aborted"
         [] line.ts.cause = "c" -> "client-timeout"
         [] OTHER -> "no-request"

\* actionFor.
ActionFor(reason, audit) ==
  IF reason = Dash THEN (IF audit THEN "audit" ELSE "allow")
  ELSE IF reason \in FailureReasons THEN "failed" ELSE "block"

\* Only the https line has an SNI field.
HostBeforeRequest(line) ==
  IF line.scheme # "https" THEN UnknownHost
  ELSE IF line.sni = Dash THEN line.dst ELSE line.sni

RequestEvent(line, audit) ==
  LET incomplete == IncompleteReason(line)
      reason == IF incomplete # Dash THEN incomplete
                ELSE IF IsRefusal(line.ts) THEN ReasonFor(line, line.scheme = "https") ELSE Dash
      byHandshake == incomplete # Dash \/ reason \in RequestlessReasons
  IN  [action |-> IF incomplete # Dash THEN "incomplete" ELSE ActionFor(reason, audit),
       protocol |-> line.scheme,
       host |-> IF byHandshake THEN HostBeforeRequest(line) ELSE line.host,
       port |-> line.port, reason |-> reason]

PassEvent(line, audit) ==
  LET reason == IF IsRefusal(line.ts) THEN ReasonFor(line, FALSE) ELSE Dash
  IN  [action |-> ActionFor(reason, audit),
       protocol |-> line.proto,
       host |-> IF line.sni = Dash THEN line.dst ELSE line.sni,
       port |-> line.port, reason |-> reason]

\* parseProxyLine.
ProxyEvent(line, audit) ==
  IF line.kind = "request" THEN RequestEvent(line, audit) ELSE PassEvent(line, audit)

-----------------------------------------------------------------------------
(* The resolver log: one event per name, and an allowed answer decides; a  *)
(* discovery lookup is one event per name and type.                        *)

DnsEvent(action, name, reason) ==
  [action |-> action, protocol |-> "dns", host |-> name, port |-> Dash, reason |-> reason]

DnsEvents(dns, audit) ==
  LET asked(verb) == {l.name : l \in {d \in dns : d.verb = verb}}
  IN  {DnsEvent(ActionFor(Dash, audit), n, Dash) : n \in asked("allowed")}
      \cup {DnsEvent(ActionFor("dns-not-allowed", audit), n, "dns-not-allowed") :
              n \in asked("denied") \ asked("allowed")}
      \cup {DnsEvent("discovery", n, Dash) : n \in asked("discovery")}
      \cup {DnsEvent(ActionFor("dns-service-not-allowed", audit), n, "dns-service-not-allowed") :
              n \in asked("service-denied")}

-----------------------------------------------------------------------------
(* The tables.                                                             *)

\* connectedHosts and isRedundantDns: a refused lookup takes a refused
\* connection to cover it.
Redundant(event, timeline) ==
  /\ event.protocol = "dns" /\ event.action # "discovery"
  /\ \E e \in timeline :
       /\ e.protocol # "dns" /\ e.host = event.host
       /\ event.action = "block" => e.action = "block"

Timeline(proxy, dns, audit) ==
  {ProxyEvent(line, audit) : line \in proxy} \cup DnsEvents(dns, audit)

\* buildInspectReportData: the events behind the rows of each table.
Tables(timeline) ==
  LET rows == {e \in timeline : e.action \notin {"discovery", "incomplete"} /\ ~Redundant(e, timeline)}
  IN  [blocked |-> {e \in rows : e.action = "block"},
       failed |-> {e \in rows : e.action = "failed"},
       passed |-> {e \in rows : e.action \in {"allow", "audit"}}]
=============================================================================
