---------------------------- MODULE MCReportLog ----------------------------
(* One host the rules expect to be blocked and one they do not.             *)
EXTENDS ReportLog

CONSTANTS mine, theirs

MCKnown == {mine}

Event(action, host) ==
  [kind |-> "event",
   event |-> [action |-> action, protocol |-> "https", host |-> host, port |-> Dash, reason |-> Dash]]
LookupOf(verb, host) == [kind |-> "lookup", verb |-> verb, name |-> host]

MCLines ==
  [l \in {"haproxy", "coredns"} |->
    IF l = "haproxy"
    THEN {Event("block", mine), Event("block", theirs), [kind |-> "cut"], [kind |-> "other"]}
    ELSE {LookupOf("denied", mine), LookupOf("denied", theirs), LookupOf("service-denied", theirs)}]
=============================================================================
