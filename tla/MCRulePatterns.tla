--------------------------- MODULE MCRulePatterns ---------------------------
(* Every short rule of every input, from its text to what it matches, and   *)
(* every short path of a request, from what a client sends to what is judged. *)
EXTENDS RulePatterns

CONSTANTS
  MaxHost, MaxPath, \* bounds: tokens of a host half, of a rule's path
  MaxSegments       \* bound: segments of a request's path, each of two parts at most

Requests == INSTANCE InspectRules WITH
  Names <- {}, Addrs <- {}, Guarded <- {}, Ports <- {"443"}, AnyPort <- "any", BarePort <- "bare",
  DefaultPort <- [scheme \in {"https", "http"} |-> "443"], Methods <- {}, ReverseNames <- {},
  ParentOf <- <<>>

VARIABLES input, rule, step

SeqsUpTo(S, low, high) == UNION {[1..n -> S] : n \in low..high}
Cat(S, T) == {s \o t : s \in S, t \in T}

Wildcards == SeqsUpTo({"a", ".", "*", "?"}, 1, MaxHost)
WrittenPorts == {<<>>, <<":", "4">>, <<":", "*">>, <<":">>, <<":", "4", ":", "8">>}
RawHosts == Cat({<<>>, <<"^">>}, SeqsUpTo({"a", "\\.", ".*", "|", "(", ")"}, 0, MaxHost - 1))
              \cup {<<"(", "a", "|", "b", ")">>, <<"(", "a", ")", "?", "b">>, <<"a", "\\[">>}
RawPorts == {<<>>, <<":", "4">>, <<":", "\\d+">>, <<"(", ":", "4", ")", "?">>,
             <<":", "(", "4", "|", "8", ")">>, <<":", "4", "|", "b", ":", "8">>, <<":", "4", ")">>}
RawEnds == {<<>>, <<"$">>}

Rule(raw, text) == [raw |-> raw, text |-> text]
HostRules == {Rule(FALSE, text) : text \in Cat(Wildcards, WrittenPorts)}
               \cup {Rule(TRUE, text) : text \in Cat(Cat(RawHosts, RawPorts), RawEnds)}

MethodLists == {<<"GET", "get">>, <<"HEAD", "*">>, <<>>, <<"4">>}
UrlRule(methods, raw, text) == [raw |-> raw, text |-> text, methods |-> methods]

WildPaths == {<<>>} \cup Cat({<<"/">>}, SeqsUpTo({"a", "/", "*", "."}, 0, MaxPath))
RawPaths == Cat({<<"/">>, <<"\\/">>}, SeqsUpTo({"a", "/", ".*", "\\."}, 0, MaxPath - 1))
UrlHosts == {<<"a">>, <<"*", ".", "a">>, <<"a", ".", ".", "a">>, <<"b", "*">>}
UrlText(scheme, rest) == <<scheme, ":", "/", "/">> \o rest
UrlRules ==
  {UrlRule(<<"GET">>, FALSE, UrlText(scheme, text)) :
     scheme \in {"https", "http"}, text \in Cat(Cat(UrlHosts, WrittenPorts), {<<>>, <<"/", "a">>})}
  \cup {UrlRule(<<"GET">>, FALSE, UrlText("https", <<"a">> \o path)) : path \in WildPaths}
  \cup {UrlRule(methods, FALSE, UrlText("https", <<"a">>)) : methods \in MethodLists}
  \cup {UrlRule(<<"GET">>, TRUE, UrlText("https", text)) :
          text \in Cat(Cat(RawHosts, RawPorts), {<<>>, <<"/">>, <<"/", "a", "$">>})}
  \cup {UrlRule(<<"GET">>, TRUE, UrlText("https", <<"a">> \o text)) : text \in Cat(RawPaths, RawEnds)}

HostsAsked == SeqsUpTo({"a", "b", "."}, 1, 3)
PortsAsked == {<<"4">>, <<"8">>, <<"4", "8">>}
PathsAsked == Cat({<<"/">>}, SeqsUpTo({"a", "b", "/", "."}, 0, 2)) \cup {<<"/", "a", "/", "a">>}

PartsSent == {"a", "b", "..", "%2e%2e", "\\"}
Segments == {<<p>> : p \in PartsSent} \cup (PartsSent \X PartsSent)

-----------------------------------------------------------------------------
\* `rule` is what is written: a rule, or the path of a request.
Init ==
  /\ step = "written"
  /\ \/ input \in {"host", "known"} /\ rule \in HostRules
     \/ input = "url" /\ rule \in UrlRules
     \/ input = "path" /\ rule \in SeqsUpTo(Segments, 1, MaxSegments)

Valid ==
  CASE input = "path" -> ~Requests!PathDenied(Requests!Normalized(rule))
    [] input = "host" -> ValidHostRule(rule)
    [] input = "url" -> ValidUrlRule(rule)
    [] input = "known" -> ValidRule(CompleteRulePort(rule))

Refuse == step = "written" /\ ~Valid /\ step' = "refused" /\ UNCHANGED <<input, rule>>
Accept == step = "written" /\ Valid /\ step' = "accepted" /\ UNCHANGED <<input, rule>>

Next == Refuse \/ Accept
Spec == Init /\ [][Next]_<<input, rule, step>>

-----------------------------------------------------------------------------
Accepted(i) == step = "accepted" /\ input = i
Compiled == IF input = "url" THEN UrlRuleToMatcher(rule) ELSE HostRuleToMatcher(rule)
RuleScheme == IF input = "url" THEN Scheme(rule) ELSE "https"

\* What a pattern says, character by character: `**` is one or more (in a path
\* zero or more) characters, `*` one or more but the separator, `?` one.
RECURSIVE Says(_, _, _, _)
Says(pattern, s, sep, least) ==
  IF pattern = <<>> THEN s = <<>>
  ELSE IF IsPrefix(<<"*", "*">>, pattern)
       THEN \E n \in least..Len(s) : Says(After(pattern, 2), After(s, n), sep, least)
  ELSE IF pattern[1] = "*"
       THEN \E n \in 1..Len(s) : sep \notin {s[k] : k \in 1..n} /\ Says(Tail(pattern), After(s, n), sep, least)
  ELSE s # <<>> /\ (IF pattern[1] = "?" THEN s[1] # sep ELSE s[1] = pattern[1])
         /\ Says(Tail(pattern), Tail(s), sep, least)

\* A wildcard rule means what the vocabulary says (partial-wildcard.ts:13-18)
\* to the inspect engine's proxy and, where the universal engine accepts it,
\* the same there; a URL rule's path likewise. A known_blocked rule without a
\* port marks the host's rows on every port.
WildcardsMeanWhatTheySay ==
  /\ Accepted("host") /\ ~rule.raw =>
       \A h \in HostsAsked, p \in PortsAsked :
         LET says == Says(HostOf(rule.text), h, ".", 1) /\ PortOf(rule.text) \in {<<"*">>, p}
         IN  /\ ProxyAccepts(Compiled, "https", h, p) = says
             /\ ValidRule(rule) => Search(ConvertRule(rule), TargetOf(h, p)) = says
  /\ Accepted("url") /\ ~rule.raw /\ PathOf(Rest(rule.text)) # <<>> =>
       \A path \in PathsAsked :
         Matches(PathMatcher(Compiled.pathRegex), path)
           = Says(PathOf(Rest(rule.text)), path, "/", 0)
  /\ Accepted("known") /\ ~rule.raw /\ ~NamesPort(rule.text) =>
       \A h \in HostsAsked, p \in PortsAsked :
         Search(ConvertRule(CompleteRulePort(rule)), TargetOf(h, p)) = Says(rule.text, h, ".", 1)

\* The names the resolver answers for a rule are those the proxy lets through
\* on some port (haproxy-rules.ts:158, "the two can never accept different
\* names"), for every rule whose port half is one the documents show.
SameNames ==
  step = "accepted" /\ input \in {"host", "url"} =>
    LET hostRegex == IF input = "url" THEN HostOnlyRegexOfUrlRule(rule) ELSE HostOnlyRegexOfRule(rule)
    IN  \A h \in HostsAsked :
          ResolverAccepts(hostRegex, h)
            = \E p \in PortsAsked : ProxyAccepts(Compiled, RuleScheme, h, p)

FromStartToEnd(re, s) == Len(s) + 1 \in Ends(IF EndsAnchored(re) THEN Front(re) ELSE re, s, 1)

\* A `~` rule covers a whole connection: it accepts none in which it covers
\* only a part of the name or the port (partial-wildcard.ts:182-184), and a
\* known_blocked one without a port marks its hosts' rows on every port. The
\* matches that replace its path where no regex is needed accept the same.
RawRulesCoverAll ==
  /\ Accepted("host") /\ rule.raw =>
       \A h \in HostsAsked, p \in PortsAsked :
         ProxyAccepts(Compiled, RuleScheme, h, p) => FromStartToEnd(rule.text, TargetOf(h, p))
  /\ Accepted("url") /\ rule.raw =>
       /\ \A h \in HostsAsked, p \in PortsAsked :
            ProxyAccepts(Compiled, RuleScheme, h, p) =>
              \/ FromStartToEnd(Authority(Rest(rule.text)), TargetOf(h, p))
              \/ FromStartToEnd(Authority(Rest(rule.text)), h)
       /\ \A path \in PathsAsked :
            Matches(PathMatcher(Compiled.pathRegex), path) = Search(Compiled.pathRegex, path)
  /\ Accepted("known") /\ rule.raw /\ ~NamesPort(rule.text) =>
       \A h \in HostsAsked, p \in PortsAsked :
         Search(ConvertRule(CompleteRulePort(rule)), TargetOf(h, p)) = FromStartToEnd(rule.text, h)

-----------------------------------------------------------------------------
(* The paths of requests.                                                  *)

Count(parts, i, j, Test(_)) == Cardinality({k \in i..j : Test(parts[k])})
IsDots(p) == p = ".."
IsName(p) == p # ".."

\* What a reader that resolves dot segments keeps of a sequence of parts: the
\* names no later `..` takes back.
Survives(parts, i) ==
  /\ IsName(parts[i])
  /\ \A j \in i..Len(parts) :
       Count(parts, i + 1, j, IsDots) <= Count(parts, i + 1, j, IsName)
Resolved(parts) ==
  LET kept == {i \in DOMAIN parts : Survives(parts, i)}
  IN  [n \in 1..Cardinality(kept) |->
        parts[CHOOSE i \in kept : Cardinality({k \in kept : k <= i}) = n]]

Climbs(parts) ==
  \E j \in DOMAIN parts : Count(parts, 1, j, IsDots) > Count(parts, 1, j, IsName)

\* A request the rules judged under a prefix is one under it to the origin, too,
\* whichever of `/`, `%2f` and `%5c` it takes for separators and if it decodes
\* dots: what is judged is what is read (haproxy-inspect-stage.ts, "None is
\* stripped, so each is refused").
OriginReadsWhatWasJudged ==
  Accepted("path") =>
    LET path == Requests!Normalized(rule)
    IN  Resolved(FlattenSeq(Requests!Decode(path))) = FlattenSeq(path)

\* "A lone encoded separator stays legal": nothing is denied without a backslash,
\* a dot-dot next to an encoded separator, or a climb above the root; and where
\* every separator is a plain slash, dots are resolved as RFC 3986 does.
LegalPathsPass ==
  (input = "path" /\ step # "written") =>
    LET decoded == Requests!Decode(rule)
        heads == [i \in DOMAIN rule |-> decoded[i][1]]
    IN  /\ step = "refused" =>
             \/ "\\" \in Requests!Parts(rule)
             \/ \E i \in DOMAIN rule : Len(rule[i]) > 1 /\ ".." \in Range(decoded[i])
             \/ Climbs(heads)
        /\ (\A i \in DOMAIN rule : Len(rule[i]) = 1) /\ ~Climbs(heads) =>
             FlattenSeq(Requests!Normalized(rule)) = Resolved(heads)
=============================================================================
