---------------------------- MODULE RulePatterns ----------------------------
(***************************************************************************)
(* The rule grammar: how a rule as it is written becomes what the two      *)
(* engines match (src/core/lib/acl/wildcard-rules.ts, partial-wildcard.ts, *)
(* url-rules.ts, haproxy-rules.ts, haproxy-matchers.ts), what the resolver *)
(* allows (coredns-config.ts) and what marks a row of the report as        *)
(* expected (report/build/aggregate.ts).                                   *)
(*                                                                         *)
(* A text is a sequence of tokens: characters, and in a regular expression *)
(* also an escape (`\.`), or an atom with its quantifier (`.+`).           *)
(* The names of hosts are in one case, as both engines compare them.       *)
(***************************************************************************)
EXTENDS Naturals, SequencesExt

Digits == {"4", "8"}
DefaultPort == [https |-> <<"4">>, http |-> <<"8">>]
Null == <<"null">>

\* The pieces of a text between the positions `cuts`.
Pieces(text, cuts) ==
  LET at == SetToSortSeq(cuts \cup {0, Len(text) + 1}, <)
  IN  [i \in 1..(Len(at) - 1) |-> SubSeq(text, at[i] + 1, at[i + 1] - 1)]
Positions(text, tokens) == {i \in DOMAIN text : text[i] \in tokens}
Split(text, token) == Pieces(text, Positions(text, {token}))
Join(pieces, token) == Tail(FlattenSeq([i \in DOMAIN pieces |-> <<token>> \o pieces[i]]))
Before(text, i) == SubSeq(text, 1, i - 1)
After(text, i) == SubSeq(text, i + 1, Len(text))
Has(text, token) == Contains(text, token)
MinOf(S) == CHOOSE n \in S : \A m \in S : n <= m
MaxOf(S) == CHOOSE n \in S : \A m \in S : n >= m

-----------------------------------------------------------------------------
\* Regular expressions, as the engines search a text with them.

Depth(re, i) == Cardinality({j \in 1..i : re[j] = "("}) - Cardinality({j \in 1..i : re[j] = ")"})
Opens(re, i) == Cardinality({j \in 1..i : re[j] = "("}) >= Cardinality({j \in 1..i : re[j] = ")"})
TopBars(re) == {i \in DOMAIN re : re[i] = "|" /\ Depth(re, i) = 0}

Compiles(re) ==
  /\ \A i \in DOMAIN re : Opens(re, i)
  /\ re # <<>> => Depth(re, Len(re)) = 0
  /\ \A i \in DOMAIN re : re[i] = "?" => i > 1 /\ re[i - 1] \notin {"(", "|", "^", "$", "?"}

\* The first item of an expression: a group or a token, with its `?`.
ItemLength(re) ==
  LET base == IF re[1] = "(" THEN MinOf({i \in DOMAIN re : Depth(re, i) = 0}) ELSE 1
  IN  IF base < Len(re) /\ re[base + 1] = "?" THEN base + 1 ELSE base

\* Where a run of `least` or more tokens that are not `sep` from i on can end.
Runs(s, i, least, In(_)) ==
  {j \in (i + least)..(Len(s) + 1) : \A k \in i..(j - 1) : In(s[k])}

TokenEnds(token, s, i) ==
  LET any(c) == TRUE
      notDot(c) == c # "."
      notSlash(c) == c # "/"
      digit(c) == c \in Digits
      one(In(_)) == Runs(s, i, 1, In) \cap {i + 1}
  IN  CASE token = "^" -> {i} \cap {1}
        [] token = "$" -> {i} \cap {Len(s) + 1}
        [] token = ".*" -> Runs(s, i, 0, any)
        [] token = ".+" -> Runs(s, i, 1, any)
        [] token = "." -> one(any)
        [] token = "[^.]+" -> Runs(s, i, 1, notDot)
        [] token = "[^/]+" -> Runs(s, i, 1, notSlash)
        [] token = "[^.]" -> one(notDot)
        [] token = "[^/]" -> one(notSlash)
        [] token = "\\d+" -> Runs(s, i, 1, digit)
        [] token = "\\/" -> {j \in {i + 1} : i <= Len(s) /\ s[i] = "/"}
        [] OTHER -> {j \in {i + 1} : i <= Len(s) /\ (IF s[i] = "." THEN "\\." ELSE s[i]) = token}

\* Where a match of `re` that starts at i can end.
RECURSIVE Ends(_, _, _)
Ends(re, s, i) ==
  IF re = <<>> THEN {i}
  ELSE LET n == ItemLength(re)
           optional == re[n] = "?" /\ n > 1
           body == IF re[1] = "(" THEN SubSeq(re, 2, IF optional THEN n - 2 ELSE n - 1) ELSE <<>>
           branches == Pieces(body, TopBars(body))
           first == IF re[1] = "("
                    THEN UNION {Ends(branches[b], s, i) : b \in DOMAIN branches}
                    ELSE TokenEnds(re[1], s, i)
       IN  UNION {Ends(After(re, n), s, j) : j \in first \cup (IF optional THEN {i} ELSE {})}

Search(re, s) ==
  \E b \in DOMAIN Pieces(re, TopBars(re)), i \in 1..(Len(s) + 1) :
    Ends(Pieces(re, TopBars(re))[b], s, i) # {}

-----------------------------------------------------------------------------
\* Wildcards.

DomainVocabulary == [across |-> ".+", within |-> "[^.]+", single |-> "[^.]"]
PathVocabulary == [across |-> ".*", within |-> "[^/]+", single |-> "[^/]"]

Escaped(c) == IF c = "." THEN "\\." ELSE c

\* Bug: the single `*` is tried first.
RECURSIVE BugAtomToRegex(_, _)
BugAtomToRegex(atom, vocab) ==
  IF atom = <<>> THEN <<>>
  ELSE IF atom[1] = "*" THEN <<vocab.within>> \o BugAtomToRegex(Tail(atom), vocab)
  ELSE <<IF atom[1] = "?" THEN vocab.single ELSE Escaped(atom[1])>> \o BugAtomToRegex(Tail(atom), vocab)

\* Longest match first: `**` spans the separator; a single `*` does not.
RECURSIVE AtomToRegex(_, _)
AtomToRegex(atom, vocab) ==
  IF atom = <<>> THEN <<>>
  ELSE IF IsPrefix(<<"*", "*">>, atom) THEN <<vocab.across>> \o AtomToRegex(After(atom, 2), vocab)
  ELSE IF atom[1] = "*" THEN <<vocab.within>> \o AtomToRegex(Tail(atom), vocab)
  ELSE <<IF atom[1] = "?" THEN vocab.single ELSE Escaped(atom[1])>> \o AtomToRegex(Tail(atom), vocab)

Atoms(text, sep, vocab) ==
  LET atoms == Split(text, sep) IN [i \in DOMAIN atoms |-> AtomToRegex(atoms[i], vocab)]

DomainToRegexPartial(domain) == Join(Atoms(domain, ".", DomainVocabulary), "\\.")
ValidDomainPartial(domain) == <<>> \notin ToSet(Split(domain, "."))
PathToRegexPartial(path) == Join(Atoms(path, "/", PathVocabulary), "/")

\* The universal engine's: a label with a `*` is exactly `*` or `**`.
DomainToRegex(domain) ==
  LET parts == Split(domain, ".")
      regex(part) == CASE part = <<"*", "*">> -> <<".+">>
                       [] part = <<"*">> -> <<"[^.]+">>
                       [] OTHER -> [i \in DOMAIN part |-> IF part[i] = "?" THEN "[^.]" ELSE Escaped(part[i])]
  IN  Join([i \in DOMAIN parts |-> regex(parts[i])], "\\.")
ValidDomain(domain) ==
  \A part \in ToSet(Split(domain, ".")) : Has(part, "*") => part \in {<<"*">>, <<"*", "*">>}

-----------------------------------------------------------------------------
\* `host:port`.

IsPort(text) == text # <<>> /\ (text = <<"*">> \/ ToSet(text) \subseteq Digits)
PortRegex(port) == IF port = <<"*">> THEN <<"\\d+">> ELSE port

Colons(text) == Positions(text, {":"})
HostOf(text) == Before(text, MaxOf(Colons(text)))
PortOf(text) == After(text, MaxOf(Colons(text)))

\* splitHostRule, and the shape both wildcard compilers ask for.
ValidHostPort(text) ==
  /\ Cardinality(Colons(text)) = 1
  /\ HostOf(text) # <<>> /\ IsPort(PortOf(text))

WildcardToRegex(text) == DomainToRegex(HostOf(text)) \o <<":">> \o PortRegex(PortOf(text))

\* Where a port pattern starts: a bare `:`, or the `(` of a group opening at it.
PortStart(re) ==
  LET first == MinOf(Colons(re))
  IN  IF first > 1 /\ re[first - 1] = "(" THEN first - 1 ELSE first
NamesPort(re) == Colons(re) # {}
DomainOf(re) == IF NamesPort(re) THEN Before(re, PortStart(re)) ELSE re

EndsAnchored(re) == re # <<>> /\ Last(re) = "$"
StartsAnchored(re) == re # <<>> /\ Head(re) = "^"
Unanchored(re) == IF StartsAnchored(re) THEN Tail(re) ELSE re

\* Bug: only the start is anchored.
BugAnchorRawRegex(re) == IF StartsAnchored(re) THEN re ELSE <<"^">> \o re

AnchorRawRegex(re) ==
  (IF StartsAnchored(re) THEN re ELSE <<"^">> \o re) \o (IF EndsAnchored(re) THEN <<>> ELSE <<"$">>)

HostLiteralIllegal == {"\\[", "\\]"}

RawHalfChecked(re, hostHalf) ==
  TopBars(re) = {} /\ (hostHalf => Positions(re, HostLiteralIllegal) = {})

\* splitRawRegexHost.
RawHost(re) == Unanchored(DomainOf(re))
ValidRawHost(re) ==
  /\ Compiles(re) /\ RawHalfChecked(re, FALSE)
  /\ NamesPort(re)
  /\ RawHalfChecked(RawHost(re), TRUE) /\ Compiles(RawHost(re))

\* A rule of the universal engine, and one that marks rows: [raw, text].
ValidRule(rule) ==
  IF rule.raw THEN ValidRawHost(rule.text)
  ELSE ValidHostPort(rule.text) /\ ValidDomain(HostOf(rule.text))
ConvertRule(rule) ==
  IF rule.raw THEN AnchorRawRegex(rule.text)
  ELSE <<"^">> \o WildcardToRegex(rule.text) \o <<"$">>

CompleteRulePort(rule) ==
  IF NamesPort(rule.text) THEN rule
  ELSE IF ~rule.raw THEN [rule EXCEPT !.text = @ \o <<":", "*">>]
  ELSE [rule EXCEPT !.text = (IF EndsAnchored(@) THEN Front(@) ELSE @) \o <<":", "\\d+">>]

\* A row's target: a refused name is tested as port 0, a digit no rule names.
TargetOf(host, port) == host \o <<":">> \o port

-----------------------------------------------------------------------------
\* URL rules: [methods, raw, text], the text of a literal one from its scheme on.

IsLetters(method) == method \in {"GET", "get", "HEAD"}
Upper(method) == IF method = "get" THEN "GET" ELSE method
ValidMethods(spec) == spec # <<>> /\ (Has(spec, "*") \/ \A i \in DOMAIN spec : IsLetters(spec[i]))
ParseMethods(spec) == IF Has(spec, "*") THEN {"*"} ELSE {Upper(spec[i]) : i \in DOMAIN spec}

SchemeSep(text) ==
  {i \in DOMAIN text : i + 2 <= Len(text) /\ text[i] = ":"
                         /\ text[i + 1] \in {"/", "\\/"} /\ text[i + 2] \in {"/", "\\/"}}
Rest(text) == After(text, MinOf(SchemeSep(text)) + 2)
Slashes(text) == Positions(text, {"/", "\\/"})
Authority(rest) == IF Slashes(rest) = {} THEN rest ELSE Before(rest, MinOf(Slashes(rest)))
PathOf(rest) == IF Slashes(rest) = {} THEN <<>> ELSE After(rest, MinOf(Slashes(rest)) - 1)

Scheme(rule) == IF rule.raw THEN "https" ELSE rule.text[1]
UrlHost(rule) ==
  LET authority == Authority(Rest(rule.text))
  IN  IF Colons(authority) = {} THEN authority ELSE HostOf(authority)
UrlPort(rule) ==
  LET authority == Authority(Rest(rule.text))
      port == IF Colons(authority) = {} THEN <<>> ELSE PortOf(authority)
  IN  IF port = <<>> THEN DefaultPort[Scheme(rule)] ELSE port

ValidLiteralUrl(rule) ==
  /\ Len(rule.text) > 4 /\ rule.text[1] \in {"http", "https"} /\ SchemeSep(rule.text) = {2}
  /\ Authority(Rest(rule.text)) # <<>> /\ ~Has(rule.text, "#")
  /\ ValidHostPort(UrlHost(rule) \o <<":">> \o UrlPort(rule))
  /\ ValidDomainPartial(UrlHost(rule))

\* splitRawRegexUrl.
ValidRawUrl(rule) ==
  /\ Compiles(rule.text) /\ RawHalfChecked(rule.text, FALSE)
  /\ SchemeSep(rule.text) # {} /\ Slashes(Rest(rule.text)) # {}
  /\ LET host == Authority(Rest(rule.text))
         path == PathOf(Rest(rule.text))
     IN  /\ RawHalfChecked(host, FALSE) /\ RawHalfChecked(path, FALSE)
         /\ RawHalfChecked(DomainOf(host), TRUE)
         /\ Compiles(AnchorRawRegex(host)) /\ Compiles(AnchorRawRegex(DomainOf(host)))
         /\ Compiles(path)

ValidUrlRule(rule) ==
  ValidMethods(rule.methods) /\ (IF rule.raw THEN ValidRawUrl(rule) ELSE ValidLiteralUrl(rule))

\* convertUrlRule: what the proxy matches of a URL rule.
UrlPathRegex(rule) ==
  LET path == PathOf(Rest(rule.text))
  IN  IF rule.raw THEN <<"^">> \o path
      ELSE IF path = <<>> THEN <<"^", "/">>
      ELSE <<"^">> \o PathToRegexPartial(path) \o <<"$">>

-----------------------------------------------------------------------------
\* haproxy-rules.ts: one matcher for the proxy, one name for the resolver.

Matcher(match, hostRegex, port, pathRegex, methods) ==
  [match |-> match, hostRegex |-> hostRegex, port |-> port,
   pathRegex |-> pathRegex, methods |-> methods]

ValidHostRule(rule) ==
  IF rule.raw THEN ValidRawHost(rule.text)
  ELSE ValidHostPort(rule.text) /\ ValidDomainPartial(HostOf(rule.text))

\* Bug: the resolver gets the regex with its port.
BugHostOnlyRegexOfRule(rule) ==
  IF rule.raw THEN Unanchored(rule.text) ELSE DomainToRegexPartial(HostOf(rule.text))

HostOnlyRegexOfRule(rule) ==
  IF rule.raw THEN RawHost(rule.text) ELSE DomainToRegexPartial(HostOf(rule.text))

HostOnlyRegexOfUrlRule(rule) ==
  IF ~rule.raw THEN DomainToRegexPartial(UrlHost(rule))
  ELSE LET anchored == AnchorRawRegex(DomainOf(Authority(Rest(rule.text))))
       IN  SubSeq(anchored, 2, Len(anchored) - 1)

AnyPortAsNull(port) == IF port = <<"*">> THEN Null ELSE port

HostRuleToMatcher(rule) ==
  IF rule.raw THEN Matcher("hostPort", AnchorRawRegex(rule.text), Null, <<"^", "/">>, {"*"})
  ELSE Matcher("wildcard", <<"^">> \o HostOnlyRegexOfRule(rule) \o <<"$">>,
               AnyPortAsNull(PortOf(rule.text)), <<"^", "/">>, {"*"})

UrlRuleToMatcher(rule) ==
  IF rule.raw
  THEN Matcher("hostBareFull", AnchorRawRegex(Authority(Rest(rule.text))), Null,
               UrlPathRegex(rule), ParseMethods(rule.methods))
  ELSE Matcher("wildcard", <<"^">> \o HostOnlyRegexOfUrlRule(rule) \o <<"$">>,
               AnyPortAsNull(UrlPort(rule)), UrlPathRegex(rule), ParseMethods(rule.methods))

-----------------------------------------------------------------------------
\* haproxy-matchers.ts: a literal pattern is matched without the regex engine.

LiteralTokens == {"a", "b", ":", "4", "8", "/", "\\."}
LiteralBody(body) == ToSet(body) \subseteq LiteralTokens
Unescape(body) == [i \in DOMAIN body |-> IF body[i] = "\\." THEN "." ELSE body[i]]

Op(op, pattern) == [op |-> op, pattern |-> pattern]

HostMatcher(re) ==
  LET body == SubSeq(re, 2, Len(re) - 1)
  IN  IF StartsAnchored(re) /\ EndsAnchored(re) /\ body # <<>> /\ LiteralBody(body)
      THEN Op("-m str", Unescape(body)) ELSE Op("-m reg", re)

PathMatcher(re) ==
  LET ended == EndsAnchored(Tail(re))
      whole == IF ended THEN Front(Tail(re)) ELSE Tail(re)
      prefix == ended /\ whole # <<>> /\ Last(whole) = ".*"
      body == IF prefix THEN Front(whole) ELSE whole
  IN  IF body = <<>> \/ body[1] # "/" \/ ~LiteralBody(body) THEN Op("-m reg", re)
      ELSE Op(IF ended /\ ~prefix THEN "-m str" ELSE "-m beg", Unescape(body))

Matches(m, s) ==
  CASE m.op = "-m str" -> s = m.pattern
    [] m.op = "-m beg" -> IsPrefix(m.pattern, s)
    [] m.op = "-m reg" -> Search(m.pattern, s)

\* haproxy-rule-block.ts: the host half of a rule's acl on a connection.
ProxyAccepts(m, scheme, host, port) ==
  CASE m.match = "wildcard" -> Matches(HostMatcher(m.hostRegex), host) /\ m.port \in {Null, port}
    [] m.match = "hostPort" -> Search(m.hostRegex, TargetOf(host, port))
    [] m.match = "hostBareFull" ->
         \/ port = DefaultPort[scheme] /\ Search(m.hostRegex, host)
         \/ Search(m.hostRegex, TargetOf(host, port))

\* coredns-config.ts: `^(<host>)[.]$` on the queried name.
ResolverAccepts(hostRegex, host) == Search(<<"^", "(">> \o hostRegex \o <<")", "$">>, host)
=============================================================================
