------------------------- MODULE InspectProxyProofs -------------------------
(***************************************************************************)
(* The proxy implements Egress, for any rules, names and addresses: what   *)
(* it asks of the resolvers and every connection it makes is what the      *)
(* rules allow.                                                            *)
(***************************************************************************)
EXTENDS InspectProxy, TLAPS

\* The rules allow the exchange whose name a stream has to ask about ...
MayAsk(c) ==
  /\ Allowed(Exchange(c, Via(c), Dash, conn[c].req))
  /\ conn[c].req.host \in Names

\* ... and the one whose connection it is about to make.
MayDial(c) ==
  /\ Allowed(Exchange(c, Via(c), conn[c].dst, conn[c].req))
  /\ MayGoTo(Exchange(c, Via(c), conn[c].dst, conn[c].req))

\* What each stage knows of its stream.
ConnOK(c) ==
  /\ conn[c].stage = "detect" => conn[c].dst = conn[c].aimed
  /\ conn[c].stage = "lookup" => TlsRule(c)
  /\ conn[c].stage = "request" => Via(c) \in Schemes
  /\ conn[c].stage \in {"resolve", "resolveAgain"} => Via(c) \in Schemes /\ MayAsk(c)
  /\ conn[c].stage = "dial" => MayDial(c)

ConnsTyped == conn \in [Conns -> ConnSet]
IInv == ConnsTyped /\ \A c \in Conns : ConnOK(c)

\* A stream other than c keeps what is known of it.
OnlyMoves(c) == \A d \in Conns \ {c} : conn'[d] = conn[d]

\* What a step of c has to give.
Good(c) ==
  /\ ConnsTyped' /\ ConnOK(c)' /\ OnlyMoves(c) /\ UNCHANGED rules
  /\ [EgressNext]_<<rules, asked, reached>>

-----------------------------------------------------------------------------
\* The kinds of a stream are four, and the rules that make each are known.
LEMMA ViaKinds ==
  ASSUME NEW c \in Conns
  PROVE  /\ Via(c) \in {"tls", "ip", "https", "http"}
         /\ Via(c) = "tls" <=> TlsRule(c)
         /\ Via(c) = "ip" <=> ~TlsRule(c) /\ Pass(c)
         /\ Via(c) \in Schemes <=> ~Pass(c)
<1>1. TlsRule(c) => Pass(c) BY DEF Pass
<1> HIDE DEF Pass, TlsRule
<1> QED BY <1>1 DEF Via, Schemes

\* A stream's kind depends on how it was opened, and on the rules.
LEMMA ViaStays ==
  ASSUME NEW c \in Conns, UNCHANGED rules,
         conn'[c].aimed = conn[c].aimed, conn'[c].port = conn[c].port,
         conn'[c].sni = conn[c].sni, conn'[c].hello = conn[c].hello
  PROVE  Via(c)' = Via(c) /\ TlsRule(c)' = TlsRule(c) /\ Pass(c)' = Pass(c)
<1>1. TlsRule(c)' = TlsRule(c) BY DEF TlsRule, Accepts
<1>2. Pass(c)' = Pass(c) BY <1>1 DEF Pass, Accepts
<1> QED BY <1>1, <1>2 DEF Via

\* The exchange of a stream is made of its fields, and the rules allow it or
\* not whatever else changes.
LEMMA ExchangeStays ==
  ASSUME NEW c \in Conns, UNCHANGED rules, conn'[c] = conn[c]
  PROVE  MayAsk(c)' = MayAsk(c) /\ MayDial(c)' = MayDial(c)
<1>1. Via(c)' = Via(c) BY ViaStays
<1>2. Exchange(c, Via(c), Dash, conn[c].req)' = Exchange(c, Via(c), Dash, conn[c].req)
  BY <1>1 DEF Exchange
<1>3. Exchange(c, Via(c), conn[c].dst, conn[c].req)' = Exchange(c, Via(c), conn[c].dst, conn[c].req)
  BY <1>1 DEF Exchange
<1>4. Allowed(Exchange(c, Via(c), Dash, conn[c].req))' = Allowed(Exchange(c, Via(c), Dash, conn[c].req))
  BY <1>2 DEF Allowed
<1>5. Allowed(Exchange(c, Via(c), conn[c].dst, conn[c].req))'
        = Allowed(Exchange(c, Via(c), conn[c].dst, conn[c].req))
  BY <1>3 DEF Allowed
<1>6. MayGoTo(Exchange(c, Via(c), conn[c].dst, conn[c].req))'
        = MayGoTo(Exchange(c, Via(c), conn[c].dst, conn[c].req))
  BY <1>3 DEF MayGoTo
<1> QED BY <1>2, <1>4, <1>5, <1>6 DEF MayAsk, MayDial

\* A stream that does not move keeps what it knows.
LEMMA OthersStay ==
  ASSUME NEW d \in Conns, ConnOK(d), UNCHANGED rules, conn'[d] = conn[d]
  PROVE  ConnOK(d)'
<1>1. Via(d)' = Via(d) /\ TlsRule(d)' = TlsRule(d)
  BY ViaStays
<1>2. MayAsk(d)' = MayAsk(d) /\ MayDial(d)' = MayDial(d)
  BY ExchangeStays
<1> QED
  BY <1>1, <1>2 DEF ConnOK

-----------------------------------------------------------------------------
\* A stream that ends leaves its connection free, and knows nothing.
LEMMA CloseIsGood ==
  ASSUME ConnsTyped, NEW c \in Conns, Close(c), UNCHANGED <<rules, asked, reached>>
  PROVE  Good(c)
<1>1. conn'[c] = Idle BY DEF Close, ConnsTyped
<1>2. Idle \in ConnSet
  BY InspectProxyAssumption DEF Idle, Fresh, ConnSet, Stages
<1>3. ConnsTyped' BY <1>2 DEF Close, ConnsTyped
<1>4. ConnOK(c)' BY <1>1 DEF ConnOK, Idle, Fresh
<1> QED BY <1>3, <1>4 DEF Good, OnlyMoves, Close, ConnsTyped

\* A stream that moves to a stage that knows nothing needs only its type.
LEMMA MoveIsGood ==
  ASSUME ConnsTyped, NEW c \in Conns, NEW to \in ConnSet, conn' = [conn EXCEPT ![c] = to],
         to.stage \in {"denied", "missing-host-header", "internal", "connect", "relay"},
         UNCHANGED rules, [EgressNext]_<<rules, asked, reached>>
  PROVE  Good(c)
<1>1. conn'[c] = to BY DEF ConnsTyped
<1>2. ConnsTyped' BY DEF ConnsTyped
<1>3. ConnOK(c)' BY <1>1 DEF ConnOK
<1> QED BY <1>2, <1>3 DEF Good, OnlyMoves, ConnsTyped

LEMMA OpenIsGood == ASSUME IInv, NEW c \in Conns, Open(c) PROVE Good(c)
<1>1. PICK a \in Addrs, p \in Ports,
           first \in {<<"tls", s>> : s \in Names \cup {Dash}} \cup {<<"plain", Dash>>, <<"silent", Dash>>} :
        conn' = [conn EXCEPT ![c] = Fresh("detect", a, p, first[1], first[2])]
  BY DEF Open
<1> DEFINE to == Fresh("detect", a, p, first[1], first[2])
<1>2. conn'[c] = to BY <1>1 DEF IInv, ConnsTyped
<1>3. first[1] \in {"tls", "plain", "silent"} /\ first[2] \in Names \cup {Dash}
  OBVIOUS
<1>4. 0 \in 0..(Retries + 1)
  BY InspectProxyAssumption
<1>5. to \in ConnSet
  BY <1>3, <1>4 DEF Fresh, ConnSet, Stages
<1>6. ConnsTyped' BY <1>1, <1>5 DEF IInv, ConnsTyped
<1>7. ConnOK(c)' BY <1>2 DEF ConnOK, Fresh
<1> QED BY <1>1, <1>6, <1>7 DEF Good, OnlyMoves, Open, IInv, ConnsTyped

\* The ends of a stream that closes its connection.
LEMMA EndIsGood ==
  ASSUME IInv, NEW c \in Conns,
         LookupFails(c) \/ NoRequestArrives(c) \/ BadRequest(c) \/ Refuse(c) \/ GiveUp(c) \/ ClientLeaves(c)
  PROVE  Good(c)
<1>1. Close(c) /\ UNCHANGED <<asked, reached>>
  BY DEF LookupFails, NoRequestArrives, BadRequest, Refuse, GiveUp, ClientLeaves
<1>2. UNCHANGED rules
  BY DEF LookupFails, NoRequestArrives, BadRequest, Refuse, GiveUp, ClientLeaves, End
<1> QED BY <1>1, <1>2, CloseIsGood DEF IInv

\* What a tls rule passes through is asked about under that rule, and what an
\* ip rule does is dialled under it.
LEMMA DetectIsGood == ASSUME IInv, NEW c \in Conns, Detect(c) PROVE Good(c)
<1>1. conn \in [Conns -> ConnSet] /\ ConnOK(c) /\ conn[c].stage = "detect"
  BY DEF IInv, ConnsTyped, Detect
<1>2. UNCHANGED <<rules, reached>> BY DEF Detect
<1>3. conn[c] \in ConnSet BY <1>1
<1>4. CASE TlsRule(c)
  <2> DEFINE x == Exchange(c, "tls", Dash, NoRequest)
  <2>1. asked' = asked \cup {x} /\ Goto(c, "lookup") BY <1>4 DEF Detect
  <2>2. conn[c].sni \in Names
    BY <1>3, <1>4 DEF TlsRule, ConnSet
  <2>3. x.via = "tls" /\ x.host = conn[c].sni /\ x.port = conn[c].port BY DEF Exchange
  <2>4. Allowed(x) BY <1>4, <2>3 DEF Allowed, TlsRule
  <2>5. x \in asked' /\ Ask(x) BY <1>2, <2>1, <2>2, <2>3, <2>4 DEF Ask
  <2>6. EgressNext BY <2>5 DEF EgressNext
  <2>7. conn'[c] = [conn[c] EXCEPT !.stage = "lookup"] BY <1>1, <2>1 DEF Goto
  <2>8. [conn[c] EXCEPT !.stage = "lookup"] \in ConnSet BY <1>3 DEF ConnSet, Stages
  <2>9. ConnsTyped' BY <1>1, <2>1, <2>8 DEF ConnsTyped, Goto
  <2>10. TlsRule(c)' BY <1>2, <1>3, <1>4, <2>7, ViaStays DEF ConnSet
  <2>11. ConnOK(c)' BY <1>3, <2>7, <2>10 DEF ConnOK, ConnSet
  <2> QED BY <1>1, <1>2, <2>1, <2>6, <2>9, <2>11 DEF Good, OnlyMoves, Goto
<1>5. CASE ~TlsRule(c) /\ Pass(c)
  <2>1. UNCHANGED asked /\ Goto(c, "dial") BY <1>5 DEF Detect
  <2>2. conn'[c] = [conn[c] EXCEPT !.stage = "dial"] BY <1>1, <2>1 DEF Goto
  <2>3. conn'[c] \in ConnSet /\ conn'[c].port = conn[c].port /\ conn'[c].dst = conn[c].aimed
        /\ conn'[c].aimed = conn[c].aimed /\ conn'[c].sni = conn[c].sni /\ conn'[c].hello = conn[c].hello
        /\ conn'[c].stage = "dial"
    BY <1>1, <1>3, <2>2 DEF ConnSet, Stages, ConnOK
  <2>4. ConnsTyped' BY <1>1, <2>1, <2>2, <2>3 DEF ConnsTyped, Goto
  <2>5. Via(c)' = "ip" BY <1>2, <1>5, <2>3, ViaStays, ViaKinds
  <2> DEFINE x == Exchange(c, Via(c), conn[c].dst, conn[c].req)
  <2>6. x'.via = "ip" /\ x'.addr = conn[c].aimed /\ x'.port = conn[c].port BY <2>3, <2>5 DEF Exchange
  <2>7. \E rule \in rules.ip : Accepts(rule, conn[c].aimed, conn[c].port) BY <1>5 DEF Pass
  <2>8. Allowed(x)' BY <1>2, <2>6, <2>7 DEF Allowed, Accepts
  <2>9. MayGoTo(x)' BY <2>6 DEF MayGoTo
  <2>10. MayDial(c)' BY <2>8, <2>9 DEF MayDial
  <2>11. ConnOK(c)' BY <2>3, <2>10 DEF ConnOK
  <2> QED BY <1>1, <1>2, <2>1, <2>4, <2>11 DEF Good, OnlyMoves, Goto
<1>6. CASE ~Pass(c)
  <2>1. ~TlsRule(c) BY <1>6 DEF Pass
  <2>2. UNCHANGED asked /\ Goto(c, "request") BY <1>6, <2>1 DEF Detect
  <2>3. conn'[c] = [conn[c] EXCEPT !.stage = "request"] BY <1>1, <2>2 DEF Goto
  <2>4. conn'[c] \in ConnSet /\ conn'[c].port = conn[c].port /\ conn'[c].aimed = conn[c].aimed
        /\ conn'[c].sni = conn[c].sni /\ conn'[c].hello = conn[c].hello /\ conn'[c].stage = "request"
    BY <1>3, <2>3 DEF ConnSet, Stages
  <2>5. ConnsTyped' BY <1>1, <2>2, <2>3, <2>4 DEF ConnsTyped, Goto
  <2>6. Via(c)' \in Schemes BY <1>2, <1>6, <2>4, ViaStays, ViaKinds
  <2>7. ConnOK(c)' BY <2>4, <2>6 DEF ConnOK, Schemes
  <2> QED BY <1>1, <1>2, <2>2, <2>5, <2>7 DEF Good, OnlyMoves, Goto
<1> QED BY <1>4, <1>5, <1>6

\* The guard of the two lookups lets through no guarded address.
LEMMA LookupAnsweredIsGood == ASSUME IInv, NEW c \in Conns, LookupAnswered(c) PROVE Good(c)
<1>1. conn \in [Conns -> ConnSet] /\ ConnOK(c) /\ conn[c].stage = "lookup"
  BY DEF IInv, ConnsTyped, LookupAnswered
<1>2. UNCHANGED <<rules, asked, reached>> BY DEF LookupAnswered
<1>3. conn[c] \in ConnSet /\ TlsRule(c) BY <1>1 DEF ConnOK
<1>4. PICK a \in Addrs :
        conn' = [conn EXCEPT ![c].dst = a, ![c].stage = IF a \in Guarded THEN "internal" ELSE "dial"]
  BY DEF LookupAnswered
<1> DEFINE to == [conn[c] EXCEPT !.dst = a, !.stage = IF a \in Guarded THEN "internal" ELSE "dial"]
<1>5. conn' = [conn EXCEPT ![c] = to] /\ conn'[c] = to BY <1>1, <1>4
<1>6. to \in ConnSet /\ to.dst = a /\ to.port = conn[c].port /\ to.aimed = conn[c].aimed
      /\ to.sni = conn[c].sni /\ to.hello = conn[c].hello /\ to.req = conn[c].req
      /\ to.stage = IF a \in Guarded THEN "internal" ELSE "dial"
  BY <1>3 DEF ConnSet, Stages
<1> HIDE DEF to
<1>7. CASE a \in Guarded BY <1>1, <1>2, <1>5, <1>6, <1>7, MoveIsGood DEF ConnsTyped
<1>8. CASE a \notin Guarded
  <2>1. ConnsTyped' BY <1>1, <1>5, <1>6 DEF ConnsTyped
  <2>2. Via(c)' = "tls" BY <1>2, <1>3, <1>5, <1>6, ViaStays, ViaKinds
  <2>3. conn[c].sni \in Names BY <1>3 DEF TlsRule, ConnSet
  <2> DEFINE x == Exchange(c, Via(c), conn[c].dst, conn[c].req)
  <2>4. x'.via = "tls" /\ x'.addr = a /\ x'.port = conn[c].port /\ x'.host = conn[c].sni
    BY <1>5, <1>6, <2>2 DEF Exchange
  <2>5. Allowed(x)' BY <1>2, <1>3, <2>4 DEF Allowed, Accepts, TlsRule
  <2>6. MayGoTo(x)' BY <1>8, <2>3, <2>4 DEF MayGoTo
  <2>7. MayDial(c)' BY <2>5, <2>6 DEF MayDial
  <2>8. ConnOK(c)' BY <1>5, <1>6, <1>8, <2>7 DEF ConnOK
  <2> QED BY <1>1, <1>2, <1>5, <2>1, <2>8 DEF Good, OnlyMoves
<1> QED BY <1>7, <1>8

LEMMA ResolveFailsIsGood == ASSUME IInv, NEW c \in Conns, ResolveFails(c) PROVE Good(c)
<1>1. conn \in [Conns -> ConnSet] /\ ConnOK(c)
  BY DEF IInv, ConnsTyped
<1>2. CASE conn[c].stage = "resolve" /\ Goto(c, "resolveAgain") /\ UNCHANGED <<rules, asked, reached>>
  <2> DEFINE to == [conn[c] EXCEPT !.stage = "resolveAgain"]
  <2>1. conn[c] \in ConnSet /\ Via(c) \in Schemes /\ MayAsk(c) BY <1>1, <1>2 DEF ConnOK
  <2>2. conn' = [conn EXCEPT ![c] = to] /\ conn'[c] = to BY <1>1, <1>2 DEF Goto
  <2>3. to \in ConnSet /\ to.port = conn[c].port /\ to.aimed = conn[c].aimed /\ to.sni = conn[c].sni
        /\ to.hello = conn[c].hello /\ to.req = conn[c].req /\ to.stage = "resolveAgain"
    BY <2>1 DEF ConnSet, Stages
  <2> HIDE DEF to
  <2>4. ConnsTyped' BY <1>1, <2>2, <2>3 DEF ConnsTyped
  <2>5. Via(c)' = Via(c) BY <1>2, <2>2, <2>3, ViaStays
  <2>6. Exchange(c, Via(c), Dash, conn[c].req)' = Exchange(c, Via(c), Dash, conn[c].req)
    BY <2>2, <2>3, <2>5 DEF Exchange
  <2>7. Allowed(Exchange(c, Via(c), Dash, conn[c].req))' = Allowed(Exchange(c, Via(c), Dash, conn[c].req))
    BY <1>2, <2>6 DEF Allowed
  <2>8. MayAsk(c)' BY <2>1, <2>2, <2>3, <2>7 DEF MayAsk
  <2>9. ConnOK(c)' BY <2>1, <2>2, <2>3, <2>5, <2>8 DEF ConnOK, Schemes
  <2> QED BY <1>1, <1>2, <2>2, <2>4, <2>9 DEF Good, OnlyMoves
<1>3. CASE Close(c) /\ UNCHANGED <<rules, asked, reached>> BY <1>3, CloseIsGood DEF IInv
<1> QED BY <1>2, <1>3 DEF ResolveFails, End

\* An exchange the rules allow to be asked about is one they allow.
LEMMA AddressDoesNotMatter ==
  ASSUME NEW c \in Conns, NEW via \in Schemes, NEW a, NEW b, NEW req
  PROVE  Allowed(Exchange(c, via, a, req)) <=> Allowed(Exchange(c, via, b, req))
<1> DEFINE x == Exchange(c, via, a, req)
           y == Exchange(c, via, b, req)
<1>1. via # "ip" /\ via # "tls" BY DEF Schemes
<1>2. x.via = via /\ y.via = via /\ x.host = y.host /\ x.port = y.port /\ x.path = y.path /\ x.method = y.method
  BY DEF Exchange
<1> HIDE DEF x, y
<1>3. Allowed(x) <=> Allowed(y) BY <1>1, <1>2 DEF Allowed, ClauseHolds, HostMatches, Accepts
<1> QED BY <1>3 DEF x, y

LEMMA ResolvedIsGood == ASSUME IInv, NEW c \in Conns, Resolved(c) PROVE Good(c)
<1>1. conn \in [Conns -> ConnSet] /\ ConnOK(c) /\ conn[c].stage \in {"resolve", "resolveAgain"}
  BY DEF IInv, ConnsTyped, Resolved
<1>2. UNCHANGED <<rules, asked, reached>> BY DEF Resolved
<1>3. conn[c] \in ConnSet /\ Via(c) \in Schemes /\ MayAsk(c) BY <1>1 DEF ConnOK
<1>4. PICK a \in Addrs :
        conn' = [conn EXCEPT ![c].dst = a, ![c].stage = IF a \in Guarded THEN "internal" ELSE "dial"]
  BY DEF Resolved
<1> DEFINE to == [conn[c] EXCEPT !.dst = a, !.stage = IF a \in Guarded THEN "internal" ELSE "dial"]
<1>5. conn' = [conn EXCEPT ![c] = to] /\ conn'[c] = to BY <1>1, <1>4
<1>6. to \in ConnSet /\ to.dst = a /\ to.port = conn[c].port /\ to.aimed = conn[c].aimed
      /\ to.sni = conn[c].sni /\ to.hello = conn[c].hello /\ to.req = conn[c].req
      /\ to.stage = IF a \in Guarded THEN "internal" ELSE "dial"
  BY <1>3 DEF ConnSet, Stages
<1> HIDE DEF to
<1>7. CASE a \in Guarded BY <1>1, <1>2, <1>5, <1>6, <1>7, MoveIsGood DEF ConnsTyped
<1>8. CASE a \notin Guarded
  <2>1. ConnsTyped' BY <1>1, <1>5, <1>6 DEF ConnsTyped
  <2>2. Via(c)' = Via(c) BY <1>2, <1>5, <1>6, ViaStays
  <2>3. conn[c].req.host \in Names BY <1>3 DEF MayAsk
  <2> DEFINE x == Exchange(c, Via(c), a, conn[c].req)
  <2>4. x = Exchange(c, Via(c), conn[c].dst, conn[c].req)' BY <1>5, <1>6, <2>2 DEF Exchange
  <2>5. x.host = conn[c].req.host /\ x.addr = a BY <1>3 DEF Exchange, Schemes
  <2>6. Allowed(x) BY <1>3, AddressDoesNotMatter DEF MayAsk
  <2>7. MayGoTo(x) BY <1>8, <2>3, <2>5 DEF MayGoTo
  <2> HIDE DEF x
  <2>8. Allowed(Exchange(c, Via(c), conn[c].dst, conn[c].req))' BY <1>2, <2>4, <2>6 DEF Allowed
  <2>9. MayGoTo(Exchange(c, Via(c), conn[c].dst, conn[c].req))' BY <2>4, <2>7 DEF MayGoTo
  <2>10. ConnOK(c)' BY <1>5, <1>6, <1>8, <2>8, <2>9 DEF ConnOK, MayDial
  <2> QED BY <1>1, <1>2, <1>5, <2>1, <2>10 DEF Good, OnlyMoves
<1> QED BY <1>7, <1>8

LEMMA DialIsGood == ASSUME IInv, NEW c \in Conns, Dial(c) PROVE Good(c)
<1>1. conn \in [Conns -> ConnSet] /\ ConnOK(c) /\ conn[c].stage = "dial"
  BY DEF IInv, ConnsTyped, Dial
<1>2. UNCHANGED <<rules, asked>> BY DEF Dial
<1> DEFINE x == Exchange(c, Via(c), conn[c].dst, conn[c].req)
           to == [conn[c] EXCEPT !.stage = "connect", !.met = Via(c) = "https"]
<1>3. reached' = reached \cup {x} BY DEF Dial
<1>4. Allowed(x) /\ MayGoTo(x) BY <1>1 DEF ConnOK, MayDial
<1> HIDE DEF x
<1>5. EgressNext BY <1>2, <1>3, <1>4 DEF EgressNext, Reach
<1>6. conn' = [conn EXCEPT ![c] = to] BY <1>1 DEF Dial
<1>7. conn[c] \in ConnSet BY <1>1
<1>8. to \in ConnSet /\ to.stage = "connect" BY <1>7 DEF ConnSet, Stages
<1> HIDE DEF to
<1> QED BY <1>1, <1>2, <1>5, <1>6, <1>8, MoveIsGood DEF ConnsTyped

\* The attempts of a connection leave it where it is, or relaying.
LEMMA AttemptIsGood ==
  ASSUME IInv, NEW c \in Conns, Connected(c) \/ AttemptFails(c)
  PROVE  Good(c)
<1>1. conn \in [Conns -> ConnSet] /\ conn[c] \in ConnSet /\ UNCHANGED <<rules, asked, reached>>
  BY DEF IInv, ConnsTyped, Connected, AttemptFails
<1>2. CASE Connected(c)
  <2> DEFINE to == [conn[c] EXCEPT !.stage = "relay", !.tlserr = Dash, !.met = FALSE]
  <2>1. conn' = [conn EXCEPT ![c] = to] BY <1>1, <1>2 DEF Connected
  <2>2. to \in ConnSet /\ to.stage = "relay" BY <1>1 DEF ConnSet, Stages
  <2> HIDE DEF to
  <2> QED BY <1>1, <2>1, <2>2, MoveIsGood DEF ConnsTyped
<1>3. CASE AttemptFails(c)
  <2>1. conn[c].stage = "connect" /\ conn[c].tries <= Retries BY <1>3 DEF AttemptFails
  <2>2. PICK err \in {Dash, "verify"} :
          conn' = [conn EXCEPT ![c].tlserr = err, ![c].tries = @ + 1]
    BY <1>3 DEF AttemptFails
  <2> DEFINE to == [conn[c] EXCEPT !.tlserr = err, !.tries = @ + 1]
  <2>3. conn' = [conn EXCEPT ![c] = to] BY <1>1, <2>2
  <2>4. conn[c].tries + 1 \in 0..(Retries + 1)
    BY <1>1, <2>1, InspectProxyAssumption DEF ConnSet
  <2>5. to \in ConnSet /\ to.stage = "connect" BY <1>1, <2>1, <2>4 DEF ConnSet, Stages
  <2> HIDE DEF to
  <2> QED BY <1>1, <2>3, <2>5, MoveIsGood DEF ConnsTyped
<1> QED BY <1>2, <1>3

\* A connection that is kept for another request is one of an inspected stage.
LEMMA RelayEndsIsGood == ASSUME IInv, NEW c \in Conns, RelayEnds(c) PROVE Good(c)
<1>1. conn \in [Conns -> ConnSet] /\ conn[c] \in ConnSet
  BY DEF IInv, ConnsTyped
<1>2. UNCHANGED <<rules, asked, reached>> BY DEF RelayEnds, End
<1> DEFINE to == [conn[c] EXCEPT !.stage = "request", !.req = NoRequest, !.dst = conn[c].aimed, !.tries = 0]
<1>3. CASE Via(c) \in Schemes /\ conn' = [conn EXCEPT ![c] = to]
  <2>1. 0 \in 0..(Retries + 1)
    BY InspectProxyAssumption
  <2>2. to \in ConnSet /\ to.port = conn[c].port /\ to.aimed = conn[c].aimed /\ to.sni = conn[c].sni
        /\ to.hello = conn[c].hello /\ to.stage = "request"
    BY <1>1, <2>1 DEF ConnSet, Stages
  <2> HIDE DEF to
  <2>3. conn'[c] = to BY <1>1, <1>3
  <2>4. ConnsTyped' BY <1>1, <1>3, <2>2 DEF ConnsTyped
  <2>5. Via(c)' \in Schemes BY <1>2, <1>3, <2>2, <2>3, ViaStays
  <2>6. ConnOK(c)' BY <2>2, <2>3, <2>5 DEF ConnOK, Schemes
  <2> QED BY <1>1, <1>2, <1>3, <2>4, <2>6 DEF Good, OnlyMoves
<1>4. CASE Close(c) BY <1>2, <1>4, CloseIsGood DEF IInv
<1> QED BY <1>1, <1>3, <1>4 DEF RelayEnds

\* A request that no deny stops is one the rules allow, of a host that has a name
\* or an address.
LEMMA NoDenialAllows ==
  ASSUME NEW c \in Conns, Via(c) \in Schemes, NEW req \in Requests, Denial(c, req) = "none", NEW a
  PROVE  Allowed(Exchange(c, Via(c), a, req)) /\ req.host \in Hosts
<1> DEFINE x == Exchange(c, Via(c), a, req)
<1>1. req.host # Dash /\ ~PathDenied(req.path) /\ TxnAllowed(rules, Via(c), req, conn[c].port)
  BY DEF Denial
<1>2. req.host \in Hosts BY <1>1 DEF Requests
<1>3. x.via = Via(c) /\ x.host = req.host /\ x.port = conn[c].port /\ x.path = req.path
      /\ x.method = req.method
  BY DEF Exchange, Schemes
<1> HIDE DEF x
<1>4. Allowed(x)
  BY <1>1, <1>2, <1>3 DEF Allowed, TxnAllowed, ClauseHolds, HostMatches, Accepts
<1> QED BY <1>2, <1>4 DEF x

\* Only a request the rules allow is resolved or dialled.
LEMMA RequestIsGood == ASSUME IInv, NEW c \in Conns, Request(c) PROVE Good(c)
<1>1. conn \in [Conns -> ConnSet] /\ ConnOK(c) /\ conn[c].stage = "request" /\ conn[c] \in ConnSet
  BY DEF IInv, ConnsTyped, Request
<1>2. UNCHANGED <<rules, reached>> BY DEF Request
<1>3. Via(c) \in Schemes BY <1>1 DEF ConnOK
<1>4. PICK req \in Requests :
        \/ /\ Denial(c, req) # "none"
           /\ conn' = [conn EXCEPT ![c].req = req, ![c].stage = Denial(c, req)]
           /\ UNCHANGED asked
        \/ /\ Denial(c, req) = "none" /\ req.host \in Addrs
           /\ conn' = [conn EXCEPT ![c].req = req, ![c].stage = "dial", ![c].dst = req.host]
           /\ UNCHANGED asked
        \/ /\ Denial(c, req) = "none" /\ req.host \notin Addrs
           /\ conn' = [conn EXCEPT ![c].req = req, ![c].stage = "resolve"]
           /\ asked' = asked \cup {Exchange(c, Via(c), Dash, req)}
  BY DEF Request
<1>5. CASE Denial(c, req) # "none"
  <2> DEFINE to == [conn[c] EXCEPT !.req = req, !.stage = Denial(c, req)]
  <2>1. UNCHANGED asked /\ conn' = [conn EXCEPT ![c] = to] BY <1>1, <1>4, <1>5
  <2>2. Denial(c, req) \in {"denied", "missing-host-header"} BY <1>5 DEF Denial
  <2>3. to \in ConnSet /\ to.stage \in {"denied", "missing-host-header"}
    BY <1>1, <2>2 DEF ConnSet, Stages
  <2> HIDE DEF to
  <2> QED BY <1>1, <1>2, <2>1, <2>3, MoveIsGood DEF ConnsTyped
<1>6. CASE Denial(c, req) = "none" /\ req.host \in Addrs
  <2> DEFINE to == [conn[c] EXCEPT !.req = req, !.stage = "dial", !.dst = req.host]
             x == Exchange(c, Via(c), req.host, req)
  <2>1. UNCHANGED asked /\ conn' = [conn EXCEPT ![c] = to] /\ conn'[c] = to BY <1>1, <1>4, <1>6
  <2>2. Allowed(x) BY <1>3, <1>6, NoDenialAllows
  <2>3. to \in ConnSet /\ to.port = conn[c].port /\ to.aimed = conn[c].aimed /\ to.sni = conn[c].sni
        /\ to.hello = conn[c].hello /\ to.stage = "dial" /\ to.req = req /\ to.dst = req.host
    BY <1>1, <1>6 DEF ConnSet, Stages
  <2> HIDE DEF to
  <2>4. ConnsTyped' BY <1>1, <2>1, <2>3 DEF ConnsTyped
  <2>5. Via(c)' = Via(c) BY <1>2, <2>1, <2>3, ViaStays
  <2>6. x = Exchange(c, Via(c), conn[c].dst, conn[c].req)' BY <2>1, <2>3, <2>5 DEF Exchange
  <2>7. x.host = req.host /\ x.addr = req.host BY <1>3 DEF Exchange, Schemes
  <2>8. MayGoTo(x) BY <1>6, <2>7 DEF MayGoTo
  <2> HIDE DEF x
  <2>9. MayDial(c)' BY <1>2, <2>2, <2>6, <2>8 DEF MayDial, Allowed, MayGoTo
  <2>10. ConnOK(c)' BY <2>1, <2>3, <2>9 DEF ConnOK
  <2> QED BY <1>1, <1>2, <2>1, <2>4, <2>10 DEF Good, OnlyMoves
<1>7. CASE Denial(c, req) = "none" /\ req.host \notin Addrs
  <2> DEFINE to == [conn[c] EXCEPT !.req = req, !.stage = "resolve"]
             x == Exchange(c, Via(c), Dash, req)
  <2>1. asked' = asked \cup {x} /\ conn' = [conn EXCEPT ![c] = to] /\ conn'[c] = to BY <1>1, <1>4, <1>7
  <2>2. Allowed(x) /\ req.host \in Names BY <1>3, <1>7, NoDenialAllows DEF Hosts
  <2>3. to \in ConnSet /\ to.port = conn[c].port /\ to.aimed = conn[c].aimed /\ to.sni = conn[c].sni
        /\ to.hello = conn[c].hello /\ to.stage = "resolve" /\ to.req = req
    BY <1>1 DEF ConnSet, Stages
  <2> HIDE DEF to
  <2>4. ConnsTyped' BY <1>1, <2>1, <2>3 DEF ConnsTyped
  <2>5. Via(c)' = Via(c) BY <1>2, <2>1, <2>3, ViaStays
  <2>6. x = Exchange(c, Via(c), Dash, conn[c].req)' BY <2>1, <2>3, <2>5 DEF Exchange
  <2>7. x.host = req.host BY <1>3 DEF Exchange, Schemes
  <2> HIDE DEF x
  <2>8. x \in asked' /\ Ask(x) BY <1>2, <2>1, <2>2, <2>7 DEF Ask
  <2>9. EgressNext BY <2>8 DEF EgressNext
  <2>10. Allowed(Exchange(c, Via(c), Dash, conn[c].req))' BY <1>2, <2>2, <2>6 DEF Allowed
  <2>11. MayAsk(c)' BY <2>1, <2>2, <2>3, <2>10 DEF MayAsk
  <2>12. ConnOK(c)' BY <1>3, <2>1, <2>3, <2>5, <2>11 DEF ConnOK, Schemes
  <2> QED BY <1>1, <1>2, <2>1, <2>4, <2>9, <2>12 DEF Good, OnlyMoves
<1> QED BY <1>4, <1>5, <1>6, <1>7

-----------------------------------------------------------------------------
LEMMA StreamIsGood == ASSUME IInv, NEW c \in Conns, Stream(c) PROVE Good(c)
BY OpenIsGood, DetectIsGood, EndIsGood, LookupAnsweredIsGood, RequestIsGood,
   ResolveFailsIsGood, ResolvedIsGood, DialIsGood, AttemptIsGood, RelayEndsIsGood DEF Stream

\* Every step leaves the invariant, and is a step of Egress or none.
LEMMA StepIsGood ==
  ASSUME IInv, [Next]_vars
  PROVE  IInv' /\ [EgressNext]_<<rules, asked, reached>>
<1>1. ASSUME NEW c \in Conns, Stream(c) PROVE Good(c) BY <1>1, StreamIsGood
<1>2. ASSUME NEW c \in Conns, Good(c)
      PROVE  IInv' /\ [EgressNext]_<<rules, asked, reached>>
  <2>1. ASSUME NEW d \in Conns, d # c PROVE ConnOK(d)'
    BY <1>2, <2>1, OthersStay DEF Good, OnlyMoves, IInv
  <2> QED BY <1>2, <2>1 DEF Good, IInv
<1>3. ASSUME UNCHANGED <<rules, asked, reached, conn>>
      PROVE  IInv' /\ [EgressNext]_<<rules, asked, reached>>
  <2>1. ASSUME NEW d \in Conns PROVE ConnOK(d)'
    BY <1>3, <2>1, OthersStay DEF IInv
  <2> QED BY <1>3, <2>1 DEF IInv, ConnsTyped
<1>4. CASE Lookup BY <1>3, <1>4 DEF Lookup
<1>5. CASE \E c \in Conns : Stream(c) BY <1>1, <1>2, <1>5
<1>6. CASE UNCHANGED vars BY <1>3, <1>6 DEF vars
<1> QED BY <1>4, <1>5, <1>6 DEF Next

LEMMA InitIsGood == ASSUME Init PROVE IInv
<1>1. Idle \in ConnSet
  BY InspectProxyAssumption DEF Idle, Fresh, ConnSet, Stages
<1>2. \A c \in Conns : conn[c] = Idle BY DEF Init
<1>3. ConnsTyped BY <1>1 DEF Init, ConnsTyped
<1>4. \A c \in Conns : ConnOK(c) BY <1>2 DEF ConnOK, Idle, Fresh
<1> QED BY <1>3, <1>4 DEF IInv

\* What the proxy asks of the resolvers, and every connection it makes, is
\* what the rules allow: the detect frontend, the two inspected stages, the
\* guard and the backends together implement Egress.
THEOREM ProxyImplementsEgress == Spec => ImplementsEgress
<1>1. Init => EgressInit BY DEF Init
<1> QED
  BY <1>1, InitIsGood, StepIsGood, PTL DEF Spec, ImplementsEgress, EgressSpec

\* The rules are those the step was started with.
LEMMA RulesStay == ASSUME [Next]_vars PROVE UNCHANGED rules
<1>1. ASSUME NEW c \in Conns, Stream(c) PROVE UNCHANGED rules
  <2>1. CASE Open(c) \/ Detect(c) \/ LookupFails(c) \/ LookupAnswered(c) \/ NoRequestArrives(c) \/ BadRequest(c)
    BY <2>1 DEF Open, Detect, LookupFails, LookupAnswered, NoRequestArrives, BadRequest, End
  <2>2. CASE Request(c) \/ Refuse(c) \/ ResolveFails(c) \/ Resolved(c) \/ Dial(c)
    BY <2>2 DEF Request, Refuse, ResolveFails, Resolved, Dial, End
  <2>3. CASE Connected(c) \/ AttemptFails(c) \/ GiveUp(c) \/ ClientLeaves(c) \/ RelayEnds(c)
    BY <2>3 DEF Connected, AttemptFails, GiveUp, ClientLeaves, RelayEnds, End
  <2> QED BY <1>1, <2>1, <2>2, <2>3 DEF Stream
<1>2. ASSUME Lookup PROVE UNCHANGED rules BY <1>2 DEF Lookup
<1> QED BY <1>1, <1>2 DEF Next, vars

\* The state of a stream, and the verbs of the resolver's log, are those the
\* code writes (TypeOK).
THEOREM ProxyTypeCorrect == Spec => []TypeOK
<1> DEFINE Typed == IInv /\ TypeOK
<1>1. Init => Typed
  BY InitIsGood DEF Init, TypeOK, IInv, ConnsTyped
<1>2. Typed /\ [Next]_vars => Typed'
  <2> SUFFICES ASSUME Typed, [Next]_vars PROVE Typed' OBVIOUS
  <2>1. IInv' BY StepIsGood
  <2>2. UNCHANGED rules BY RulesStay
  <2>3. \A l \in dnsLog' : l.verb \in {"reverse", "discovery", "allowed", "service-denied", "denied"}
    <3>1. CASE Lookup
      <4>1. PICK name \in Names, type \in LookupTypes :
              dnsLog' = dnsLog \cup {[verb |-> Verb(rules, name, type), name |-> name, type |-> type]}
        BY <3>1 DEF Lookup
      <4>2. Verb(rules, name, type) \in {"reverse", "discovery", "allowed", "service-denied", "denied"}
        BY DEF Verb
      <4> QED BY <4>1, <4>2 DEF TypeOK
    <3>2. CASE UNCHANGED dnsLog BY <3>2 DEF TypeOK
    <3>3. ASSUME NEW c \in Conns, Stream(c) PROVE UNCHANGED dnsLog
      BY <3>3 DEF Stream, Open, Detect, LookupFails, LookupAnswered, NoRequestArrives, BadRequest, Request,
         Refuse, ResolveFails, Resolved, Dial, Connected, AttemptFails, GiveUp, ClientLeaves, RelayEnds, End
    <3> QED BY <3>1, <3>2, <3>3 DEF Next, vars
  <2> QED BY <2>1, <2>2, <2>3 DEF TypeOK, IInv, ConnsTyped
<1> QED BY <1>1, <1>2, PTL DEF Spec

-----------------------------------------------------------------------------
(* What the two logs say.  A stream knows, on top of what Egress needs,    *)
(* whether its request is a whole one and whose rule let it pass; its line *)
(* is made of that.                                                        *)

\* A request that no deny stopped.
Passed == {"internal", "resolve", "resolveAgain", "dial", "connect", "relay"}

KnownOf(k, via) ==
  /\ k.stage # "idle" => k.aimed \in Addrs /\ k.dst \in Addrs
  /\ k.stage \in {"detect", "request"} => k.req = NoRequest
  /\ via \in Schemes /\ k.stage \in Passed \cup {"denied"} => k.req \in Requests /\ k.req.host \in Hosts
  /\ via \in Schemes /\ k.stage \in Passed => Audit \/ k.req.host \in ResolverHosts(rules)
  /\ k.stage = "connect" => (k.met <=> via = "https")

Known(c) == KnownOf(conn[c], Via(c))

\* The row of a line: the action is that of its stream's fate, a whole request
\* has a host, and a host let through is one the resolver lets through.
EntryOK(entry) ==
  LET event == ProxyEvent(entry.line, Audit) IN
    /\ event.action \in ActionOf(entry.fate)
    /\ event.action # "incomplete" => event.host # Dash
    /\ event.action \in {"allow", "audit", "failed"} /\ entry.via # "ip" =>
         Audit \/ event.host \in ResolverHosts(rules)

LookupOK(l) == l.name \in Names /\ l.verb = Verb(rules, l.name, l.type)

RulesGiven == rules \in {Compiled(input) : input \in RuleInputs}

LogInv ==
  /\ RulesGiven /\ IInv
  /\ \A c \in Conns : Known(c)
  /\ \A entry \in proxyLog : EntryOK(entry)
  /\ \A l \in dnsLog : LookupOK(l)

-----------------------------------------------------------------------------
\* A line that does not stand for a whole request.
LEMMA IncompleteRow ==
  ASSUME NEW line, NEW audit, line.kind = "request", line.ts.phase = "R", line.ts.cause # "P"
  PROVE  ProxyEvent(line, audit).action = "incomplete"
<1>1. IncompleteReason(line) # Dash BY InspectLogAssumption DEF IncompleteReason
<1> QED BY <1>1 DEF ProxyEvent, RequestEvent

\* The row of a request that has one.
LEMMA RequestRow ==
  ASSUME NEW line, NEW audit, line.kind = "request", line.ts.cause = "P" \/ line.ts.phase # "R",
         line.ts.cause = "P" \/ line.method # BadRequestMethod
  PROVE  LET reason == IF IsRefusal(line.ts) THEN ReasonFor(line, line.scheme = "https") ELSE Dash IN
         /\ ProxyEvent(line, audit).action = ActionFor(reason, audit)
         /\ ProxyEvent(line, audit).host =
              IF reason \in RequestlessReasons THEN HostBeforeRequest(line) ELSE line.host
<1>1. IncompleteReason(line) = Dash BY DEF IncompleteReason
<1> QED BY <1>1 DEF ProxyEvent, RequestEvent

\* The row of a connection passed through.
LEMMA PassRow ==
  ASSUME NEW line, NEW audit, line.kind = "pass"
  PROVE  LET reason == IF IsRefusal(line.ts) THEN ReasonFor(line, FALSE) ELSE Dash IN
         /\ ProxyEvent(line, audit).action = ActionFor(reason, audit)
         /\ ProxyEvent(line, audit).host = IF line.sni = Dash THEN line.dst ELSE line.sni
BY DEF ProxyEvent, PassEvent

\* The fields of a stream's line.
LEMMA LineFields ==
  ASSUME NEW c \in Conns, NEW via, NEW ts, NEW reason
  PROVE  LET line == LineOf(c, via, ts, reason) IN
         /\ line.ts = ts /\ line.reason = reason /\ line.dst = conn[c].dst
         /\ via \in Schemes =>
              /\ line.kind = "request" /\ line.scheme = via /\ line.tlserr = conn[c].tlserr
              /\ line.method = conn[c].req.method /\ line.host = conn[c].req.host
              /\ line.sni = IF via = "https" THEN conn[c].sni ELSE Dash
         /\ via \notin Schemes => line.kind = "pass" /\ line.method = Dash /\ line.sni = conn[c].sni
BY DEF LineOf

LEMMA RequestMethods ==
  ASSUME NEW req \in Requests
  PROVE  req.method \in Methods /\ req.method # BadRequestMethod
BY InspectProxyAssumption DEF Requests

\* A name a rule has is one the resolver lets through.
LEMMA RulesNameHosts ==
  ASSUME NEW rule \in rules.https \cup rules.http \cup rules.tls, NEW n, NEW p, <<n, p>> \in rule.accepts
  PROVE  n \in ResolverHosts(rules)
<1>1. <<n, p>> \in UNION {r.accepts : r \in rules.https \cup rules.http \cup rules.tls} OBVIOUS
<1>2. <<n, p>>[1] = n OBVIOUS
<1> QED BY <1>1, <1>2 DEF ResolverHosts

\* What a tls rule lets through is in the name of the SNI.
LEMMA TlsRuleNames ==
  ASSUME NEW c \in Conns, TlsRule(c)
  PROVE  conn[c].sni # Dash /\ conn[c].sni \in ResolverHosts(rules)
<1>1. PICK rule \in rules.tls : Accepts(rule, conn[c].sni, conn[c].port) BY DEF TlsRule
<1> QED BY <1>1, RulesNameHosts DEF Accepts, TlsRule

\* A request that no deny stops is for a host the resolver lets through.
LEMMA NoDenialNames ==
  ASSUME NEW c \in Conns, Via(c) \in Schemes, NEW req, Denial(c, req) = "none"
  PROVE  Audit \/ req.host \in ResolverHosts(rules)
<1>1. TxnAllowed(rules, Via(c), req, conn[c].port) BY DEF Denial
<1>2. CASE ~Audit
  <2>1. PICK rule \in rules[Via(c)] : ClauseHolds(rule, Via(c), req, conn[c].port)
    BY <1>1, <1>2 DEF TxnAllowed, Audit
  <2>2. rule \in rules.https \cup rules.http \cup rules.tls BY DEF Schemes
  <2>3. PICK p : <<req.host, p>> \in rule.accepts
    BY <2>1 DEF ClauseHolds, HostMatches, Accepts
  <2> QED BY <2>2, <2>3, RulesNameHosts
<1> QED BY <1>2

-----------------------------------------------------------------------------
(* The line of each end of a stream.                                       *)

EntryOf(c, via, ts, reason, fate) ==
  [line |-> LineOf(c, via, ts, reason), via |-> via, fate |-> fate, met |-> conn[c].met]

LEMMA EntriesStay ==
  ASSUME \A entry \in proxyLog : EntryOK(entry), UNCHANGED rules, UNCHANGED proxyLog
  PROVE  \A entry \in proxyLog' : EntryOK(entry)'
BY DEF EntryOK, Audit, ResolverHosts

LEMMA EndLogs ==
  ASSUME \A entry \in proxyLog : EntryOK(entry),
         NEW c \in Conns, NEW via, NEW ts, NEW reason, NEW fate,
         End(c, via, ts, reason, fate), EntryOK(EntryOf(c, via, ts, reason, fate))
  PROVE  \A entry \in proxyLog' : EntryOK(entry)'
<1>1. proxyLog' = proxyLog \cup {EntryOf(c, via, ts, reason, fate)} /\ UNCHANGED rules
  BY DEF End, EntryOf
<1>2. \A entry \in proxyLog' : EntryOK(entry) BY <1>1
<1> QED BY <1>1, <1>2 DEF EntryOK, Audit, ResolverHosts

\* A connection passed through is named by its SNI or its address.
LEMMA PassEntry ==
  ASSUME ConnsTyped, NEW c \in Conns, Known(c), conn[c].stage # "idle", Via(c) \notin Schemes,
         NEW ts, NEW reason, NEW fate,
         LET line == LineOf(c, Via(c), ts, reason) IN
           ActionFor(IF IsRefusal(ts) THEN ReasonFor(line, FALSE) ELSE Dash, Audit) \in ActionOf(fate)
  PROVE  EntryOK(EntryOf(c, Via(c), ts, reason, fate))
<1> DEFINE line == LineOf(c, Via(c), ts, reason)
           entry == EntryOf(c, Via(c), ts, reason, fate)
<1>1. line.kind = "pass" /\ line.ts = ts /\ line.dst = conn[c].dst /\ line.sni = conn[c].sni
  BY LineFields
<1>2. entry.line = line /\ entry.via = Via(c) /\ entry.fate = fate BY DEF EntryOf
<1> HIDE DEF line, entry
<1>3. ProxyEvent(line, Audit).action \in ActionOf(fate)
  BY <1>1, PassRow DEF line
<1>4. ProxyEvent(line, Audit).host = IF conn[c].sni = Dash THEN conn[c].dst ELSE conn[c].sni
  BY <1>1, PassRow
<1>5. conn[c].dst # Dash BY InspectProxyAssumption DEF Known, KnownOf
<1>6. Via(c) # "ip" => conn[c].sni # Dash /\ conn[c].sni \in ResolverHosts(rules)
  BY ViaKinds, TlsRuleNames DEF Schemes
<1>7. EntryOK(entry) BY <1>2, <1>3, <1>4, <1>5, <1>6 DEF EntryOK
<1> QED BY <1>7 DEF entry

\* A request that no deny stopped is named by its Host.
LEMMA PassedEntry ==
  ASSUME NEW c \in Conns, Known(c), conn[c].stage \in Passed, Via(c) \in Schemes,
         NEW ts, NEW reason, NEW fate, ts.cause = "P" \/ ts.phase # "R",
         LET line == LineOf(c, Via(c), ts, reason)
             why == IF IsRefusal(ts) THEN ReasonFor(line, Via(c) = "https") ELSE Dash
         IN  why \notin RequestlessReasons /\ ActionFor(why, Audit) \in ActionOf(fate)
  PROVE  EntryOK(EntryOf(c, Via(c), ts, reason, fate))
<1> DEFINE line == LineOf(c, Via(c), ts, reason)
           entry == EntryOf(c, Via(c), ts, reason, fate)
<1>1. /\ line.kind = "request" /\ line.ts = ts /\ line.scheme = Via(c)
      /\ line.host = conn[c].req.host /\ line.method = conn[c].req.method
  BY LineFields
<1>2. entry.line = line /\ entry.via = Via(c) /\ entry.fate = fate BY DEF EntryOf
<1>3. conn[c].req \in Requests /\ conn[c].req.host \in Hosts
  BY DEF Known, KnownOf
<1>4. Audit \/ conn[c].req.host \in ResolverHosts(rules)
  BY DEF Known, KnownOf
<1>5. line.method # BadRequestMethod BY <1>1, <1>3, RequestMethods
<1> DEFINE why == IF IsRefusal(ts) THEN ReasonFor(line, Via(c) = "https") ELSE Dash
<1>6. why \notin RequestlessReasons /\ ActionFor(why, Audit) \in ActionOf(fate)
  OBVIOUS
<1> HIDE DEF line, entry
<1>7. /\ ProxyEvent(line, Audit).action = ActionFor(why, Audit)
      /\ ProxyEvent(line, Audit).host = line.host
  BY <1>1, <1>5, <1>6, RequestRow
<1> HIDE DEF why
<1>8. conn[c].req.host # Dash BY <1>3, InspectProxyAssumption DEF Hosts
<1>9. EntryOK(entry) BY <1>1, <1>2, <1>4, <1>6, <1>7, <1>8 DEF EntryOK
<1> QED BY <1>9 DEF entry

\* A request refused before it was a whole one, or for what it asks.
LEMMA BlockedEntry ==
  ASSUME NEW c \in Conns, NEW via, NEW ts, NEW reason, NEW fate,
         LET event == ProxyEvent(LineOf(c, via, ts, reason), Audit) IN
           event.action = "block" /\ event.host # Dash,
         "block" \in ActionOf(fate)
  PROVE  EntryOK(EntryOf(c, via, ts, reason, fate))
BY DEF EntryOK, EntryOf

LEMMA HostOfHandshake ==
  ASSUME NEW line, line.dst # Dash
  PROVE  HostBeforeRequest(line) # Dash
BY InspectLogAssumption DEF HostBeforeRequest

\* What is known of a stream in every action.
LEMMA KnownHere ==
  ASSUME LogInv, NEW c \in Conns
  PROVE  /\ ConnsTyped /\ conn[c] \in ConnSet /\ ConnOK(c) /\ Known(c)
         /\ \A entry \in proxyLog : EntryOK(entry)
         /\ conn[c].stage # "idle" => conn[c].dst # Dash
<1>1. ConnsTyped /\ ConnOK(c) /\ Known(c) /\ \A entry \in proxyLog : EntryOK(entry)
  BY DEF LogInv, IInv
<1>2. conn[c] \in ConnSet BY <1>1 DEF ConnsTyped
<1>3. conn[c].stage # "idle" => conn[c].dst # Dash
  BY <1>1, InspectProxyAssumption DEF Known, KnownOf
<1> QED BY <1>1, <1>2, <1>3

LEMMA LookupFailsLogs ==
  ASSUME LogInv, NEW c \in Conns, LookupFails(c) PROVE \A entry \in proxyLog' : EntryOK(entry)'
<1> DEFINE line == LineOf(c, "tls", Ts("P", "R"), "dns-failed")
           entry == EntryOf(c, "tls", Ts("P", "R"), "dns-failed", "dnsFailed")
<1>1. End(c, "tls", Ts("P", "R"), "dns-failed", "dnsFailed") /\ conn[c].stage = "lookup"
  BY DEF LookupFails
<1>2. TlsRule(c) BY <1>1, KnownHere DEF ConnOK
<1>3. Via(c) = "tls" /\ "tls" \notin Schemes BY <1>2, ViaKinds DEF Schemes
<1>4. line.reason = "dns-failed" /\ line.ts.cause = "P"
  BY LineFields DEF Ts
<1> HIDE DEF line
<1>5. ReasonFor(line, FALSE) = "dns-failed" BY <1>4, InspectLogAssumption DEF ReasonFor
<1>6. IsRefusal(Ts("P", "R")) BY DEF IsRefusal, Ts
<1>7. ActionFor("dns-failed", Audit) \in ActionOf("dnsFailed")
  BY InspectLogAssumption DEF ActionFor, ActionOf, FailureReasons
<1>8. EntryOK(entry) BY <1>1, <1>3, <1>5, <1>6, <1>7, KnownHere, PassEntry DEF line
<1> QED BY <1>1, <1>8, KnownHere, EndLogs

LEMMA NoRequestArrivesLogs ==
  ASSUME LogInv, NEW c \in Conns, NoRequestArrives(c) PROVE \A entry \in proxyLog' : EntryOK(entry)'
<1>1. PICK cause \in {"C", "c", "I"} : End(c, Via(c), Ts(cause, "R"), Dash, "noRequest")
  BY DEF NoRequestArrives
<1>2. Via(c) \in Schemes BY KnownHere DEF NoRequestArrives, ConnOK, Schemes
<1> DEFINE line == LineOf(c, Via(c), Ts(cause, "R"), Dash)
           entry == EntryOf(c, Via(c), Ts(cause, "R"), Dash, "noRequest")
<1>3. line.kind = "request" /\ line.ts.cause = cause /\ line.ts.phase = "R"
  BY <1>2, LineFields DEF Ts
<1>4. entry.line = line /\ entry.fate = "noRequest" BY DEF EntryOf
<1> HIDE DEF line, entry
<1>5. ProxyEvent(line, Audit).action = "incomplete" BY <1>3, IncompleteRow
<1>6. EntryOK(entry) BY <1>4, <1>5 DEF EntryOK, ActionOf
<1> QED BY <1>1, <1>6, KnownHere, EndLogs DEF entry

LEMMA BadRequestLogs ==
  ASSUME LogInv, NEW c \in Conns, BadRequest(c) PROVE \A entry \in proxyLog' : EntryOK(entry)'
<1>1. conn[c].stage = "request" /\ End(c, Via(c), Ts("P", "R"), Dash, "refused")
  BY DEF BadRequest
<1>2. Via(c) \in Schemes BY <1>1, KnownHere DEF ConnOK, Schemes
<1>3. conn[c].req.method = BadRequestMethod
  BY <1>1, KnownHere DEF Known, KnownOf, NoRequest
<1> DEFINE line == LineOf(c, Via(c), Ts("P", "R"), Dash)
<1>4. /\ line.kind = "request" /\ line.ts.cause = "P" /\ line.reason = Dash
      /\ line.method = BadRequestMethod /\ line.dst = conn[c].dst
  BY <1>2, <1>3, LineFields DEF Ts
<1>5. line.dst # Dash BY <1>1, <1>4, KnownHere
<1> HIDE DEF line
<1>6. IsRefusal(line.ts) BY <1>4 DEF IsRefusal
<1>7. ReasonFor(line, line.scheme = "https") = "bad-request" BY <1>4 DEF ReasonFor
<1>8. ProxyEvent(line, Audit).action = "block"
  BY <1>4, <1>6, <1>7, RequestRow, InspectLogAssumption DEF ActionFor, FailureReasons
<1>9. ProxyEvent(line, Audit).host # Dash
  BY <1>4, <1>5, <1>6, <1>7, RequestRow, HostOfHandshake DEF RequestlessReasons
<1>10. "block" \in ActionOf("refused") BY DEF ActionOf
<1>11. EntryOK(EntryOf(c, Via(c), Ts("P", "R"), Dash, "refused"))
  BY <1>8, <1>9, <1>10, BlockedEntry DEF line
<1> QED BY <1>1, <1>11, KnownHere, EndLogs

LEMMA RefuseLogs ==
  ASSUME LogInv, NEW c \in Conns, Refuse(c) PROVE \A entry \in proxyLog' : EntryOK(entry)'
<1> DEFINE reason == IF conn[c].stage = "internal" THEN "internal-address"
                     ELSE IF conn[c].stage = "denied" THEN Dash ELSE "missing-host-header"
           line == LineOf(c, Via(c), Ts("P", "R"), reason)
<1>1. /\ conn[c].stage \in {"denied", "missing-host-header", "internal"}
      /\ End(c, Via(c), Ts("P", "R"), reason, "refused")
  BY DEF Refuse
<1>2. line.ts = Ts("P", "R") /\ line.reason = reason /\ line.dst = conn[c].dst
  BY LineFields
<1>3. IsRefusal(Ts("P", "R")) /\ Ts("P", "R").cause = "P" BY DEF IsRefusal, Ts
<1>4. reason \in {"internal-address", Dash, "missing-host-header"} OBVIOUS
<1>5. ActionFor("internal-address", Audit) = "block" /\ ActionFor("missing-host-header", Audit) = "block"
      /\ ActionFor("not-allowed", Audit) = "block" /\ ActionFor("bad-request", Audit) = "block"
  BY InspectLogAssumption DEF ActionFor, FailureReasons
<1>6. "block" \in ActionOf("refused") BY DEF ActionOf
<1>7. CASE Via(c) \notin Schemes
  <2>1. ReasonFor(line, FALSE) \in {"internal-address", "missing-host-header", "not-allowed", "bad-request"}
    BY <1>2, <1>3, <1>4 DEF ReasonFor
  <2> HIDE DEF line
  <2>2. ActionFor(ReasonFor(line, FALSE), Audit) = "block" BY <1>5, <2>1
  <2> HIDE DEF reason
  <2>3. EntryOK(EntryOf(c, Via(c), Ts("P", "R"), reason, "refused"))
    BY <1>1, <1>3, <1>6, <1>7, <2>2, KnownHere, PassEntry DEF line
  <2> QED BY <1>1, <2>3, KnownHere, EndLogs
<1>8. CASE Via(c) \in Schemes
  <2>1. line.kind = "request" /\ line.method = conn[c].req.method /\ line.host = conn[c].req.host
    BY <1>8, LineFields
  <2>2. line.dst # Dash BY <1>1, <1>2, KnownHere
  <2> DEFINE why == ReasonFor(line, line.scheme = "https")
  <2>3. why \in {"internal-address", "missing-host-header", "not-allowed", "bad-request"}
    BY <1>2, <1>3, <1>4 DEF ReasonFor
  <2>4. conn[c].stage # "missing-host-header" => why \notin RequestlessReasons /\ conn[c].req.host # Dash
    <3> SUFFICES ASSUME conn[c].stage \in {"denied", "internal"}
                 PROVE  why \notin RequestlessReasons /\ conn[c].req.host # Dash
      BY <1>1
    <3>1. conn[c].req \in Requests /\ conn[c].req.host \in Hosts
      BY <1>8, KnownHere DEF Known, KnownOf, Passed
    <3>2. line.method # BadRequestMethod BY <2>1, <3>1, RequestMethods
    <3>3. why \in {"internal-address", "not-allowed"}
      BY <1>1, <1>2, <1>3, <3>2 DEF ReasonFor
    <3>4. conn[c].req.host # Dash BY <3>1, InspectProxyAssumption DEF Hosts
    <3> HIDE DEF why
    <3> QED BY <3>3, <3>4 DEF RequestlessReasons
  <2>5. conn[c].stage = "missing-host-header" => why = "missing-host-header"
    BY <1>2, InspectLogAssumption DEF ReasonFor
  <2> HIDE DEF line
  <2>6. /\ ProxyEvent(line, Audit).action = ActionFor(why, Audit)
        /\ ProxyEvent(line, Audit).host = IF why \in RequestlessReasons THEN HostBeforeRequest(line) ELSE line.host
    BY <1>2, <1>3, <2>1, RequestRow
  <2> HIDE DEF why
  <2>7. ProxyEvent(line, Audit).action = "block" BY <1>5, <2>3, <2>6
  <2>8. ProxyEvent(line, Audit).host # Dash
    BY <2>1, <2>2, <2>4, <2>5, <2>6, HostOfHandshake DEF RequestlessReasons
  <2> HIDE DEF reason
  <2>9. EntryOK(EntryOf(c, Via(c), Ts("P", "R"), reason, "refused"))
    BY <1>6, <2>7, <2>8, BlockedEntry DEF line
  <2> QED BY <1>1, <2>9, KnownHere, EndLogs
<1> QED BY <1>7, <1>8

LEMMA ResolveFailsLogs ==
  ASSUME LogInv, NEW c \in Conns, ResolveFails(c) PROVE \A entry \in proxyLog' : EntryOK(entry)'
<1>1. CASE UNCHANGED <<rules, proxyLog, dnsLog>> BY <1>1, KnownHere, EntriesStay
<1>2. CASE conn[c].stage = "resolveAgain" /\ End(c, Via(c), Ts("P", "R"), "dns-failed", "dnsFailed")
  <2> DEFINE line == LineOf(c, Via(c), Ts("P", "R"), "dns-failed")
  <2>1. Via(c) \in Schemes BY <1>2, KnownHere DEF ConnOK, Schemes
  <2>2. line.reason = "dns-failed" BY LineFields
  <2> HIDE DEF line
  <2>3. ReasonFor(line, Via(c) = "https") = "dns-failed" BY <2>2, InspectLogAssumption DEF ReasonFor
  <2>4. IsRefusal(Ts("P", "R")) /\ Ts("P", "R").cause = "P" BY DEF IsRefusal, Ts
  <2>5. ActionFor("dns-failed", Audit) \in ActionOf("dnsFailed")
    BY InspectLogAssumption DEF ActionFor, ActionOf, FailureReasons
  <2>6. "dns-failed" \notin RequestlessReasons /\ "resolveAgain" \in Passed BY DEF RequestlessReasons, Passed
  <2>7. EntryOK(EntryOf(c, Via(c), Ts("P", "R"), "dns-failed", "dnsFailed"))
    BY <1>2, <2>1, <2>3, <2>4, <2>5, <2>6, KnownHere, PassedEntry DEF line
  <2> QED BY <1>2, <2>7, KnownHere, EndLogs
<1> QED BY <1>1, <1>2 DEF ResolveFails

\* The reason a failed connection is given, and what becomes of the row.
LEMMA ReasonsOfConnect ==
  ASSUME NEW line, NEW checked \in BOOLEAN, line.ts.cause \in {"S", "s"}, line.ts.phase = "C", line.reason = Dash
  PROVE  /\ ReasonFor(line, checked) \in {"origin-unreachable", "origin-untrusted", "origin-connect-failed"}
         /\ ActionFor(ReasonFor(line, checked), Audit) = IF checked THEN "block" ELSE "failed"
<1>1. line.ts.phase # "H" /\ line.ts.phase \notin {"D", "L"} OBVIOUS
<1>2. CASE checked
  <2>1. ReasonFor(line, checked) \in {"origin-untrusted", "origin-connect-failed"}
    BY <1>1, <1>2 DEF ReasonFor
  <2> QED BY <1>2, <2>1, InspectLogAssumption DEF ActionFor, FailureReasons
<1>3. CASE ~checked
  <2>1. ReasonFor(line, checked) = "origin-unreachable"
    BY <1>1, <1>3 DEF ReasonFor
  <2> QED BY <1>3, <2>1, InspectLogAssumption DEF ActionFor, FailureReasons
<1> QED BY <1>2, <1>3

LEMMA GiveUpLogs ==
  ASSUME LogInv, NEW c \in Conns, GiveUp(c) PROVE \A entry \in proxyLog' : EntryOK(entry)'
<1> DEFINE fate == IF conn[c].met THEN "unauthenticated" ELSE "unreachable"
<1>1. conn[c].stage = "connect"
      /\ \E cause \in IF conn[c].tlserr = Dash THEN {"S", "s"} ELSE {"S"} : End(c, Via(c), Ts(cause, "C"), Dash, fate)
  BY DEF GiveUp
<1>2. PICK cause \in {"S", "s"} : End(c, Via(c), Ts(cause, "C"), Dash, fate)
  BY <1>1
<1> DEFINE ts == Ts(cause, "C")
           line == LineOf(c, Via(c), ts, Dash)
<1>3. ts.cause \in {"S", "s"} /\ ts.phase = "C" /\ IsRefusal(ts) BY DEF Ts, IsRefusal
<1>4. line.ts = ts /\ line.reason = Dash BY LineFields
<1> HIDE DEF ts, line
<1>5. conn[c].met <=> Via(c) = "https"
  BY <1>1, KnownHere DEF Known, KnownOf
<1>6. CASE Via(c) \notin Schemes
  <2>1. fate = "unreachable" BY <1>5, <1>6 DEF Schemes
  <2>2. ActionFor(ReasonFor(line, FALSE), Audit) \in ActionOf(fate)
    BY <1>3, <1>4, <2>1, ReasonsOfConnect DEF ActionOf
  <2> HIDE DEF fate
  <2>3. EntryOK(EntryOf(c, Via(c), ts, Dash, fate))
    BY <1>1, <1>3, <1>6, <2>2, KnownHere, PassEntry DEF line
  <2> QED BY <1>2, <2>3, KnownHere, EndLogs DEF ts
<1>7. CASE Via(c) \in Schemes
  <2> DEFINE why == ReasonFor(line, Via(c) = "https")
  <2>1. (Via(c) = "https") \in BOOLEAN OBVIOUS
  <2>2. /\ why \in {"origin-unreachable", "origin-untrusted", "origin-connect-failed"}
        /\ ActionFor(why, Audit) = IF Via(c) = "https" THEN "block" ELSE "failed"
    BY <1>3, <1>4, <2>1, ReasonsOfConnect
  <2> HIDE DEF why
  <2>3. ActionFor(why, Audit) \in ActionOf(fate)
    BY <1>5, <2>2 DEF ActionOf
  <2>4. why \notin RequestlessReasons /\ conn[c].stage \in Passed
    BY <1>1, <2>2 DEF RequestlessReasons, Passed
  <2> HIDE DEF fate
  <2>5. EntryOK(EntryOf(c, Via(c), ts, Dash, fate))
    BY <1>3, <1>7, <2>3, <2>4, KnownHere, PassedEntry DEF line, why
  <2> QED BY <1>2, <2>5, KnownHere, EndLogs DEF ts
<1> QED BY <1>6, <1>7

\* An end that is no refusal of this proxy's leaves no reason.
LEMMA NoRefusalLogs ==
  ASSUME LogInv, NEW c \in Conns, conn[c].stage \in {"connect", "relay"}, NEW ts, NEW fate,
         ~IsRefusal(ts), ts.phase # "R", ActionOf(fate) = {"allow", "audit"},
         End(c, Via(c), ts, Dash, fate)
  PROVE  \A entry \in proxyLog' : EntryOK(entry)'
<1>1. ActionFor(Dash, Audit) \in ActionOf(fate) BY DEF ActionFor
<1>2. Dash \notin RequestlessReasons /\ conn[c].stage \in Passed /\ conn[c].stage # "idle"
  BY InspectLogAssumption DEF RequestlessReasons, Passed
<1>3. EntryOK(EntryOf(c, Via(c), ts, Dash, fate))
  <2>1. CASE Via(c) \in Schemes BY <1>1, <1>2, <2>1, KnownHere, PassedEntry
  <2>2. CASE Via(c) \notin Schemes BY <1>1, <1>2, <2>2, KnownHere, PassEntry
  <2> QED BY <2>1, <2>2
<1> QED BY <1>3, KnownHere, EndLogs

LEMMA ClientLeavesLogs ==
  ASSUME LogInv, NEW c \in Conns, ClientLeaves(c) PROVE \A entry \in proxyLog' : EntryOK(entry)'
<1> DEFINE ts == Ts("C", "C")
<1>1. conn[c].stage = "connect" /\ End(c, Via(c), ts, Dash, "clientLeft") BY DEF ClientLeaves
<1>2. ~IsRefusal(ts) /\ ts.phase # "R" BY DEF IsRefusal, Ts
<1>3. ActionOf("clientLeft") = {"allow", "audit"} BY DEF ActionOf
<1> QED BY <1>1, <1>2, <1>3, NoRefusalLogs

LEMMA RelayEndsLogs ==
  ASSUME LogInv, NEW c \in Conns, RelayEnds(c) PROVE \A entry \in proxyLog' : EntryOK(entry)'
<1>1. PICK e \in Ends(Via(c)) : End(c, Via(c), e[1], Dash, e[2])
  BY DEF RelayEnds
<1>2. conn[c].stage = "relay" BY DEF RelayEnds
<1> DEFINE ts == e[1]
           fate == e[2]
<1>3. CASE e \in {<<Ts("-", "-"), "relayed">>, <<Ts("s", "D"), "cutShort">>,
                  <<Ts("C", "D"), "clientLeft">>, <<Ts("c", "D"), "clientLeft">>}
  <2>1. ~IsRefusal(ts) /\ ts.phase # "R" /\ ActionOf(fate) = {"allow", "audit"}
    BY <1>3 DEF IsRefusal, Ts, ActionOf
  <2> HIDE DEF ts, fate
  <2>2. End(c, Via(c), ts, Dash, fate) BY <1>1 DEF ts, fate
  <2> QED BY <1>2, <2>1, <2>2, NoRefusalLogs
<1>4. CASE ~(e \in {<<Ts("-", "-"), "relayed">>, <<Ts("s", "D"), "cutShort">>,
                    <<Ts("C", "D"), "clientLeft">>, <<Ts("c", "D"), "clientLeft">>})
  <2>1. \/ e = <<Ts("S", "D"), "originFailed">>
        \/ Via(c) \in Schemes /\ e \in {<<Ts("S", "H"), "originFailed">>, <<Ts("s", "H"), "originFailed">>,
                                        <<Ts("P", "H"), "refused">>}
    BY <1>1, <1>4 DEF Ends
  <2>2. IsRefusal(ts) /\ ts.phase # "R" BY <2>1 DEF IsRefusal, Ts
  <2> DEFINE line == LineOf(c, Via(c), ts, Dash)
  <2>3. line.ts = ts /\ line.reason = Dash BY LineFields
  <2>4. "relay" \in Passed BY DEF Passed
  <2>5. CASE e = <<Ts("S", "D"), "originFailed">>
    <3>1. ts.cause = "S" /\ ts.phase = "D" /\ fate = "originFailed" BY <2>5 DEF Ts
    <3> HIDE DEF line, ts, fate
    <3>2. \A checked \in BOOLEAN : ReasonFor(line, checked) = "origin-aborted"
      BY <2>3, <3>1 DEF ReasonFor
    <3>3. ReasonFor(line, Via(c) = "https") = "origin-aborted" /\ ReasonFor(line, FALSE) = "origin-aborted"
      BY <3>2
    <3>4. ActionFor("origin-aborted", Audit) \in ActionOf(fate) /\ "origin-aborted" \notin RequestlessReasons
      BY <3>1, InspectLogAssumption DEF ActionFor, FailureReasons, ActionOf, RequestlessReasons
    <3>5. EntryOK(EntryOf(c, Via(c), ts, Dash, fate))
      <4>1. CASE Via(c) \in Schemes
        BY <1>2, <2>2, <2>4, <3>3, <3>4, <4>1, KnownHere, PassedEntry DEF line
      <4>2. CASE Via(c) \notin Schemes
        BY <1>2, <2>2, <3>3, <3>4, <4>2, KnownHere, PassEntry DEF line
      <4> QED BY <4>1, <4>2
    <3>6. End(c, Via(c), ts, Dash, fate) BY <1>1 DEF ts, fate
    <3> QED BY <3>5, <3>6, KnownHere, EndLogs
  <2>6. CASE Via(c) \in Schemes /\ e \in {<<Ts("S", "H"), "originFailed">>, <<Ts("s", "H"), "originFailed">>}
    <3>1. ts.cause \in {"S", "s"} /\ ts.phase = "H" /\ fate = "originFailed" BY <2>6 DEF Ts
    <3> HIDE DEF line, ts, fate
    <3>2. ReasonFor(line, Via(c) = "https") = "origin-no-response"
      BY <2>3, <3>1 DEF ReasonFor
    <3>3. ActionFor("origin-no-response", Audit) \in ActionOf(fate) /\ "origin-no-response" \notin RequestlessReasons
      BY <3>1, InspectLogAssumption DEF ActionFor, FailureReasons, ActionOf, RequestlessReasons
    <3>4. EntryOK(EntryOf(c, Via(c), ts, Dash, fate))
      BY <1>2, <2>2, <2>4, <2>6, <3>2, <3>3, KnownHere, PassedEntry DEF line
    <3>5. End(c, Via(c), ts, Dash, fate) BY <1>1 DEF ts, fate
    <3> QED BY <3>4, <3>5, KnownHere, EndLogs
  <2>7. CASE Via(c) \in Schemes /\ e = <<Ts("P", "H"), "refused">>
    <3>1. ts.cause = "P" /\ ts.phase = "H" /\ fate = "refused" BY <2>7 DEF Ts
    <3>2. conn[c].req \in Requests BY <1>2, <2>4, <2>7, KnownHere DEF Known, KnownOf
    <3>3. line.method # BadRequestMethod BY <2>7, <3>2, LineFields, RequestMethods
    <3> HIDE DEF line, ts, fate
    <3>4. ReasonFor(line, Via(c) = "https") = "not-allowed"
      BY <2>3, <3>1, <3>3 DEF ReasonFor
    <3>5. ActionFor("not-allowed", Audit) \in ActionOf(fate) /\ "not-allowed" \notin RequestlessReasons
      BY <3>1, InspectLogAssumption DEF ActionFor, FailureReasons, ActionOf, RequestlessReasons
    <3>6. EntryOK(EntryOf(c, Via(c), ts, Dash, fate))
      BY <1>2, <2>2, <2>4, <2>7, <3>4, <3>5, KnownHere, PassedEntry DEF line
    <3>7. End(c, Via(c), ts, Dash, fate) BY <1>1 DEF ts, fate
    <3> QED BY <3>6, <3>7, KnownHere, EndLogs
  <2> QED BY <2>1, <2>5, <2>6, <2>7
<1> QED BY <1>3, <1>4

-----------------------------------------------------------------------------
(* What a stream knows, kept by every step of it.                          *)

\* A stream that moves is the stream of the same connection.
LEMMA MovesKnown ==
  ASSUME ConnsTyped, UNCHANGED rules, NEW c \in Conns, NEW to, conn' = [conn EXCEPT ![c] = to],
         to.aimed = conn[c].aimed, to.port = conn[c].port, to.sni = conn[c].sni, to.hello = conn[c].hello,
         KnownOf(to, Via(c))
  PROVE  Known(c)'
<1>1. conn'[c] = to BY DEF ConnsTyped
<1>2. Via(c)' = Via(c) BY <1>1, ViaStays
<1>3. KnownOf(conn'[c], Via(c)) BY <1>1
<1> QED BY <1>2, <1>3 DEF Known, KnownOf, Audit, ResolverHosts

LEMMA OthersKnown ==
  ASSUME NEW d \in Conns, Known(d), UNCHANGED rules, conn'[d] = conn[d]
  PROVE  Known(d)'
<1>1. Via(d)' = Via(d) BY ViaStays
<1> QED BY <1>1 DEF Known, KnownOf, Audit, ResolverHosts

LEMMA CloseKnown ==
  ASSUME ConnsTyped, NEW c \in Conns, Close(c)
  PROVE  Known(c)'
<1>1. conn'[c] = Idle BY DEF ConnsTyped, Close
<1> QED BY <1>1 DEF Known, KnownOf, Idle, Fresh, Passed

LEMMA OpenKnown == ASSUME LogInv, NEW c \in Conns, Open(c) PROVE Known(c)'
<1>1. PICK a \in Addrs, p \in Ports,
           first \in {<<"tls", s>> : s \in Names \cup {Dash}} \cup {<<"plain", Dash>>, <<"silent", Dash>>} :
        conn' = [conn EXCEPT ![c] = Fresh("detect", a, p, first[1], first[2])]
  BY DEF Open
<1>2. conn'[c] = Fresh("detect", a, p, first[1], first[2])
  BY <1>1, KnownHere DEF ConnsTyped
<1> QED BY <1>2 DEF Known, KnownOf, Fresh, Passed

\* The steps that only change the stage, or what no line is named by.
LEMMA StageKnown ==
  ASSUME LogInv, NEW c \in Conns,
         Detect(c) \/ (ResolveFails(c) /\ conn[c].stage = "resolve") \/ Dial(c) \/ Connected(c) \/ AttemptFails(c)
  PROVE  Known(c)'
<1>1. ConnsTyped /\ conn[c] \in ConnSet /\ Known(c) BY KnownHere
<1>2. UNCHANGED rules
  BY DEF Detect, ResolveFails, Dial, Connected, AttemptFails, End
<1>3. CASE Detect(c)
  <2>1. PICK stage \in {"lookup", "dial", "request"} :
          Goto(c, stage) /\ (stage = "dial" => Via(c) \notin Schemes)
    BY <1>3, ViaKinds DEF Detect
  <2> DEFINE to == [conn[c] EXCEPT !.stage = stage]
  <2>2. conn' = [conn EXCEPT ![c] = to] BY <1>1, <2>1 DEF Goto, ConnsTyped
  <2>3. /\ to.aimed = conn[c].aimed /\ to.port = conn[c].port /\ to.sni = conn[c].sni
        /\ to.hello = conn[c].hello /\ to.dst = conn[c].dst /\ to.req = conn[c].req /\ to.stage = stage
    BY <1>1 DEF ConnSet
  <2> HIDE DEF to
  <2>4. KnownOf(to, Via(c)) BY <1>1, <1>3, <2>1, <2>3 DEF Known, KnownOf, Passed, Detect
  <2> QED BY <1>1, <1>2, <2>2, <2>3, <2>4, MovesKnown
<1>4. CASE ResolveFails(c) /\ conn[c].stage = "resolve"
  <2> DEFINE to == [conn[c] EXCEPT !.stage = "resolveAgain"]
  <2>1. conn' = [conn EXCEPT ![c] = to] BY <1>1, <1>4 DEF ResolveFails, Goto, ConnsTyped
  <2>2. /\ to.aimed = conn[c].aimed /\ to.port = conn[c].port /\ to.sni = conn[c].sni
        /\ to.hello = conn[c].hello /\ to.dst = conn[c].dst /\ to.req = conn[c].req /\ to.stage = "resolveAgain"
    BY <1>1 DEF ConnSet
  <2> HIDE DEF to
  <2>3. KnownOf(to, Via(c)) BY <1>1, <1>4, <2>2 DEF Known, KnownOf, Passed
  <2> QED BY <1>1, <1>2, <2>1, <2>2, <2>3, MovesKnown
<1>5. CASE Dial(c)
  <2> DEFINE to == [conn[c] EXCEPT !.stage = "connect", !.met = Via(c) = "https"]
  <2>1. conn' = [conn EXCEPT ![c] = to] BY <1>1, <1>5 DEF Dial, ConnsTyped
  <2>2. /\ to.aimed = conn[c].aimed /\ to.port = conn[c].port /\ to.sni = conn[c].sni
        /\ to.hello = conn[c].hello /\ to.dst = conn[c].dst /\ to.req = conn[c].req
        /\ to.stage = "connect" /\ (to.met <=> Via(c) = "https")
    BY <1>1 DEF ConnSet
  <2> HIDE DEF to
  <2>3. KnownOf(to, Via(c)) BY <1>1, <1>5, <2>2 DEF Known, KnownOf, Passed, Dial
  <2> QED BY <1>1, <1>2, <2>1, <2>2, <2>3, MovesKnown
<1>6. CASE Connected(c)
  <2> DEFINE to == [conn[c] EXCEPT !.stage = "relay", !.tlserr = Dash, !.met = FALSE]
  <2>1. conn' = [conn EXCEPT ![c] = to] BY <1>1, <1>6 DEF Connected, ConnsTyped
  <2>2. /\ to.aimed = conn[c].aimed /\ to.port = conn[c].port /\ to.sni = conn[c].sni
        /\ to.hello = conn[c].hello /\ to.dst = conn[c].dst /\ to.req = conn[c].req /\ to.stage = "relay"
    BY <1>1 DEF ConnSet
  <2> HIDE DEF to
  <2>3. KnownOf(to, Via(c)) BY <1>1, <1>6, <2>2 DEF Known, KnownOf, Passed, Connected
  <2> QED BY <1>1, <1>2, <2>1, <2>2, <2>3, MovesKnown
<1>7. CASE AttemptFails(c)
  <2>1. PICK err : conn' = [conn EXCEPT ![c].tlserr = err, ![c].tries = @ + 1]
    BY <1>7 DEF AttemptFails
  <2> DEFINE to == [conn[c] EXCEPT !.tlserr = err, !.tries = @ + 1]
  <2>2. conn' = [conn EXCEPT ![c] = to] BY <1>1, <2>1 DEF ConnsTyped
  <2>3. /\ to.aimed = conn[c].aimed /\ to.port = conn[c].port /\ to.sni = conn[c].sni
        /\ to.hello = conn[c].hello /\ to.dst = conn[c].dst /\ to.req = conn[c].req
        /\ to.stage = conn[c].stage /\ to.met = conn[c].met
    BY <1>1 DEF ConnSet
  <2> HIDE DEF to
  <2>4. KnownOf(to, Via(c)) BY <1>1, <2>3 DEF Known, KnownOf
  <2> QED BY <1>1, <1>2, <2>2, <2>3, <2>4, MovesKnown
<1> QED BY <1>3, <1>4, <1>5, <1>6, <1>7

LEMMA AnswerKnown ==
  ASSUME LogInv, NEW c \in Conns, LookupAnswered(c) \/ Resolved(c) PROVE Known(c)'
<1>1. ConnsTyped /\ conn[c] \in ConnSet /\ Known(c) /\ ConnOK(c) BY KnownHere
<1>2. UNCHANGED rules BY DEF LookupAnswered, Resolved
<1>3. PICK a \in Addrs :
        conn' = [conn EXCEPT ![c].dst = a, ![c].stage = IF a \in Guarded THEN "internal" ELSE "dial"]
  BY DEF LookupAnswered, Resolved
<1> DEFINE to == [conn[c] EXCEPT !.dst = a, !.stage = IF a \in Guarded THEN "internal" ELSE "dial"]
<1>4. conn' = [conn EXCEPT ![c] = to] BY <1>1, <1>3 DEF ConnsTyped
<1>5. /\ to.aimed = conn[c].aimed /\ to.port = conn[c].port /\ to.sni = conn[c].sni
      /\ to.hello = conn[c].hello /\ to.dst = a /\ to.req = conn[c].req
      /\ to.stage \in {"internal", "dial"}
  BY <1>1 DEF ConnSet
<1> HIDE DEF to
<1>6. conn[c].stage \in {"lookup", "resolve", "resolveAgain"} BY DEF LookupAnswered, Resolved
<1>7. conn[c].stage = "lookup" => Via(c) \notin Schemes
  BY <1>1, ViaKinds DEF ConnOK, Pass
<1>8. KnownOf(to, Via(c)) BY <1>1, <1>5, <1>6, <1>7 DEF Known, KnownOf, Passed
<1> QED BY <1>1, <1>2, <1>4, <1>5, <1>8, MovesKnown

LEMMA RequestKnown == ASSUME LogInv, NEW c \in Conns, Request(c) PROVE Known(c)'
<1>1. ConnsTyped /\ conn[c] \in ConnSet /\ Known(c) /\ ConnOK(c) /\ conn[c].stage = "request"
  BY KnownHere DEF Request
<1>2. UNCHANGED rules /\ Via(c) \in Schemes BY <1>1 DEF Request, ConnOK, Schemes
<1>3. PICK req \in Requests :
        \/ /\ Denial(c, req) # "none"
           /\ conn' = [conn EXCEPT ![c].req = req, ![c].stage = Denial(c, req)]
        \/ /\ Denial(c, req) = "none" /\ req.host \in Addrs
           /\ conn' = [conn EXCEPT ![c].req = req, ![c].stage = "dial", ![c].dst = req.host]
        \/ /\ Denial(c, req) = "none" /\ req.host \notin Addrs
           /\ conn' = [conn EXCEPT ![c].req = req, ![c].stage = "resolve"]
  BY DEF Request
<1>4. Denial(c, req) \in {"none", "denied", "missing-host-header"} BY DEF Denial
<1>5. Denial(c, req) # "missing-host-header" => req.host # Dash BY DEF Denial
<1>6. req.host # Dash => req.host \in Hosts BY DEF Requests
<1>7. Denial(c, req) = "none" => Audit \/ req.host \in ResolverHosts(rules)
  BY <1>2, NoDenialNames
<1> DEFINE stage == IF Denial(c, req) # "none" THEN Denial(c, req)
                    ELSE IF req.host \in Addrs THEN "dial" ELSE "resolve"
           dst == IF Denial(c, req) = "none" /\ req.host \in Addrs THEN req.host ELSE conn[c].dst
<1>8. /\ conn' = [conn EXCEPT ![c] = [conn[c] EXCEPT !.req = req, !.stage = stage, !.dst = dst]]
      /\ dst \in Addrs
      /\ stage = Denial(c, req) \/ (Denial(c, req) = "none" /\ stage \in {"dial", "resolve"})
  <2>1. conn[c].dst \in Addrs BY <1>1 DEF Known, KnownOf
  <2>2. [conn[c] EXCEPT !.dst = conn[c].dst] = conn[c] BY <1>1 DEF ConnSet
  <2>3. CASE Denial(c, req) # "none"
    <3>1. stage = Denial(c, req) /\ dst = conn[c].dst BY <2>3
    <3>2. conn' = [conn EXCEPT ![c].req = req, ![c].stage = Denial(c, req)] BY <1>3, <2>3
    <3> HIDE DEF stage, dst
    <3> QED BY <1>1, <2>1, <3>1, <3>2 DEF ConnsTyped, ConnSet
  <2>4. CASE Denial(c, req) = "none" /\ req.host \in Addrs
    BY <1>1, <1>3, <2>4 DEF ConnsTyped, ConnSet
  <2>5. CASE Denial(c, req) = "none" /\ req.host \notin Addrs
    BY <1>1, <1>3, <2>1, <2>2, <2>5 DEF ConnsTyped, ConnSet
  <2> QED BY <2>3, <2>4, <2>5
<1> HIDE DEF stage, dst
<1> DEFINE to == [conn[c] EXCEPT !.req = req, !.stage = stage, !.dst = dst]
<1>9. conn' = [conn EXCEPT ![c] = to] BY <1>1, <1>8 DEF ConnsTyped
<1>10. /\ to.aimed = conn[c].aimed /\ to.port = conn[c].port /\ to.sni = conn[c].sni
       /\ to.hello = conn[c].hello /\ to.dst = dst /\ to.req = req /\ to.stage = stage
  BY <1>1 DEF ConnSet
<1> HIDE DEF to
<1>11. KnownOf(to, Via(c))
  BY <1>1, <1>4, <1>5, <1>6, <1>7, <1>8, <1>10 DEF Known, KnownOf, Passed
<1> QED BY <1>1, <1>2, <1>9, <1>10, <1>11, MovesKnown

LEMMA RelayEndsKnown == ASSUME LogInv, NEW c \in Conns, RelayEnds(c) PROVE Known(c)'
<1>1. ConnsTyped /\ conn[c] \in ConnSet /\ Known(c) /\ conn[c].stage = "relay"
  BY KnownHere DEF RelayEnds
<1>2. UNCHANGED rules BY DEF RelayEnds, End
<1> DEFINE to == [conn[c] EXCEPT !.stage = "request", !.req = NoRequest, !.dst = conn[c].aimed, !.tries = 0]
<1>3. CASE conn' = [conn EXCEPT ![c] = to]
  <2>1. /\ to.aimed = conn[c].aimed /\ to.port = conn[c].port /\ to.sni = conn[c].sni
        /\ to.hello = conn[c].hello /\ to.dst = conn[c].aimed /\ to.req = NoRequest /\ to.stage = "request"
    BY <1>1 DEF ConnSet
  <2> HIDE DEF to
  <2>2. KnownOf(to, Via(c)) BY <1>1, <2>1 DEF Known, KnownOf, Passed
  <2> QED BY <1>1, <1>2, <1>3, <2>1, <2>2, MovesKnown
<1>4. CASE Close(c) BY <1>1, <1>4, CloseKnown
<1>5. conn' = [conn EXCEPT ![c] = to] \/ Close(c)
  BY <1>1 DEF RelayEnds, ConnsTyped
<1> QED BY <1>3, <1>4, <1>5

LEMMA StreamKnown == ASSUME LogInv, NEW c \in Conns, Stream(c) PROVE \A d \in Conns : Known(d)'
<1>1. Good(c) BY StreamIsGood DEF LogInv
<1>2. ASSUME NEW d \in Conns \ {c} PROVE Known(d)'
  BY <1>1, OthersKnown DEF Good, OnlyMoves, LogInv
<1>3. Known(c)'
  <2>1. CASE Close(c) BY <2>1, KnownHere, CloseKnown
  <2>2. CASE ResolveFails(c)
    BY <2>1, <2>2, StageKnown DEF ResolveFails
  <2>3. CASE LookupFails(c) \/ NoRequestArrives(c) \/ BadRequest(c) \/ Refuse(c) \/ GiveUp(c) \/ ClientLeaves(c)
    BY <2>1, <2>3 DEF LookupFails, NoRequestArrives, BadRequest, Refuse, GiveUp, ClientLeaves
  <2> QED
    BY <2>2, <2>3, OpenKnown, StageKnown, AnswerKnown, RequestKnown, RelayEndsKnown DEF Stream
<1> QED BY <1>2, <1>3

LEMMA StreamLogs ==
  ASSUME LogInv, NEW c \in Conns, Stream(c)
  PROVE  \A entry \in proxyLog' : EntryOK(entry)'
<1>1. CASE Open(c) \/ Detect(c) \/ LookupAnswered(c) \/ Request(c) \/ Resolved(c) \/ Dial(c)
           \/ Connected(c) \/ AttemptFails(c)
  <2>1. UNCHANGED rules /\ UNCHANGED proxyLog
    BY <1>1 DEF Open, Detect, LookupAnswered, Request, Resolved, Dial, Connected, AttemptFails
  <2> QED BY <2>1, KnownHere, EntriesStay
<1> QED
  BY <1>1, LookupFailsLogs, NoRequestArrivesLogs, BadRequestLogs, RefuseLogs, ResolveFailsLogs,
     GiveUpLogs, ClientLeavesLogs, RelayEndsLogs DEF Stream

LEMMA StepKeepsLogs == ASSUME LogInv, [Next]_vars PROVE LogInv'
<1>1. IInv' BY StepIsGood DEF LogInv
<1>2. UNCHANGED rules BY RulesStay
<1>3. RulesGiven' BY <1>2 DEF LogInv, RulesGiven
<1>4. CASE Lookup
  <2>1. UNCHANGED conn /\ UNCHANGED proxyLog BY <1>4 DEF Lookup
  <2>2. \A c \in Conns : Known(c)' BY <1>2, <2>1, OthersKnown DEF LogInv
  <2>3. \A entry \in proxyLog' : EntryOK(entry)' BY <1>2, <2>1, EntriesStay DEF LogInv
  <2>4. \A l \in dnsLog' : LookupOK(l)
    <3>1. PICK name \in Names, type \in LookupTypes :
            dnsLog' = dnsLog \cup {[verb |-> Verb(rules, name, type), name |-> name, type |-> type]}
      BY <1>4 DEF Lookup
    <3>2. LookupOK([verb |-> Verb(rules, name, type), name |-> name, type |-> type]) BY DEF LookupOK
    <3> QED BY <3>1, <3>2 DEF LogInv
  <2>5. \A l \in dnsLog' : LookupOK(l)' BY <1>2, <2>4 DEF LookupOK
  <2> QED BY <1>1, <1>3, <2>2, <2>3, <2>5 DEF LogInv
<1>5. ASSUME NEW c \in Conns, Stream(c) PROVE LogInv'
  <2>1. UNCHANGED dnsLog
    BY <1>5 DEF Stream, Open, Detect, LookupFails, LookupAnswered, NoRequestArrives, BadRequest, Request,
       Refuse, ResolveFails, Resolved, Dial, Connected, AttemptFails, GiveUp, ClientLeaves, RelayEnds, End
  <2>2. \A l \in dnsLog' : LookupOK(l)' BY <1>2, <2>1 DEF LogInv, LookupOK
  <2> QED BY <1>1, <1>3, <1>5, <2>2, StreamKnown, StreamLogs DEF LogInv
<1>6. CASE UNCHANGED vars
  <2>1. UNCHANGED conn /\ UNCHANGED proxyLog /\ UNCHANGED dnsLog BY <1>6 DEF vars
  <2>2. \A c \in Conns : Known(c)' BY <1>2, <2>1, OthersKnown DEF LogInv
  <2>3. \A entry \in proxyLog' : EntryOK(entry)' BY <1>2, <2>1, EntriesStay DEF LogInv
  <2>4. \A l \in dnsLog' : LookupOK(l)' BY <1>2, <2>1 DEF LogInv, LookupOK
  <2> QED BY <1>1, <1>3, <2>2, <2>3, <2>4 DEF LogInv
<1> QED BY <1>4, <1>5, <1>6 DEF Next

LEMMA InitLogs == ASSUME Init PROVE LogInv
<1>1. \A c \in Conns : conn[c] = Idle BY DEF Init
<1>2. \A c \in Conns : Known(c) BY <1>1 DEF Known, KnownOf, Idle, Fresh, Passed
<1> QED BY <1>2, InitIsGood DEF Init, LogInv, RulesGiven

LEMMA LogInvariance == Spec => []LogInv
BY InitLogs, StepKeepsLogs, PTL DEF Spec

-----------------------------------------------------------------------------
(* The report.                                                             *)

\* In restrict the rules are as they were given, and each is for a host.
LEMMA RestrictRules ==
  ASSUME RulesGiven
  PROVE  /\ rules.mode \in {"restrict", "audit"}
         /\ ~Audit => \A rule \in rules.https \cup rules.http \cup rules.tls :
              rule.accepts \subseteq Hosts \X (Ports \cup {AnyPort, BarePort})
<1> DEFINE Rules == SUBSET [accepts : SUBSET (Hosts \X (Ports \cup {AnyPort, BarePort})),
                            prefix : Seq(Seq(STRING)), methods : SUBSET Methods]
           Given == [mode : {"restrict", "audit"}, ip : Rules, tls : Rules, https : Rules, http : Rules]
<1>1. PICK input \in RuleInputs : rules = Compiled(input) BY DEF RulesGiven
<1>2. input \in Given BY InspectProxyAssumption
<1>3. rules.mode = input.mode BY <1>1, <1>2 DEF Compiled
<1>4. ~Audit => rules = input BY <1>1, <1>3 DEF Compiled, Audit
<1> QED BY <1>2, <1>3, <1>4

\* The resolver lets through, in restrict, the names of the rules.
LEMMA ResolverHostsAreNamed ==
  ASSUME RulesGiven, ~Audit, NEW n \in ResolverHosts(rules)
  PROVE  Named(n)
<1>1. PICK pair \in UNION {rule.accepts : rule \in rules.https \cup rules.http \cup rules.tls} : n = pair[1]
  BY DEF ResolverHosts
<1>2. PICK rule \in rules.https \cup rules.http \cup rules.tls : pair \in rule.accepts
  BY <1>1
<1>3. pair \in Hosts \X (Ports \cup {AnyPort, BarePort}) BY <1>2, RestrictRules
<1>4. pair = <<n, pair[2]>> /\ pair[2] \in Ports \cup {AnyPort, BarePort} BY <1>1, <1>3
<1> QED BY <1>2, <1>4 DEF Named

\* The verbs of a name no rule has.
LEMMA RefusedVerb ==
  ASSUME RulesGiven, ~Audit, NEW name \in Names, NEW type, name \notin ReverseNames, ~Named(name),
         ~(name \in ServiceNames /\ type \in DiscoveryTypes /\ Named(ParentOf[name]))
  PROVE  Verb(rules, name, type) \in {"denied", "service-denied"}
<1>1. name \notin ResolverHosts(rules) BY ResolverHostsAreNamed
<1>2. ~(name \in ServiceNames /\ type \in DiscoveryTypes /\ ParentOf[name] \in ResolverHosts(rules))
  BY ResolverHostsAreNamed
<1>3. rules.mode # "audit" BY DEF Audit
<1> QED BY <1>1, <1>2, <1>3 DEF Verb

LEMMA AllowedVerb ==
  ASSUME RulesGiven, ~Audit, NEW name \in Names, NEW type, Verb(rules, name, type) = "allowed"
  PROVE  Named(name)
<1>1. name \in ResolverHosts(rules) \/ rules.mode = "audit" BY DEF Verb
<1> QED BY <1>1, ResolverHostsAreNamed DEF Audit

LEMMA DeniedVerb ==
  ASSUME NEW name, NEW type, Verb(rules, name, type) = "denied"
  PROVE  ~Audit /\ name \notin ResolverHosts(rules)
BY DEF Verb, Audit

\* A refused connection takes the place of a refused lookup in the blocked table.
LEMMA BlockedEventIsReported ==
  ASSUME NEW timeline, NEW event \in timeline, event.action = "block"
  PROVE  \E row \in Tables(timeline).blocked : row.host = event.host
<1> DEFINE rows == {e \in timeline : e.action \notin {"discovery", "incomplete"} /\ ~Redundant(e, timeline)}
<1>1. Tables(timeline).blocked = {e \in rows : e.action = "block"} BY DEF Tables
<1>2. CASE ~Redundant(event, timeline) BY <1>1, <1>2
<1>3. CASE Redundant(event, timeline)
  <2>1. PICK e \in timeline : e.protocol # "dns" /\ e.host = event.host /\ e.action = "block"
    BY <1>3 DEF Redundant
  <2>2. ~Redundant(e, timeline) BY <2>1 DEF Redundant
  <2> QED BY <1>1, <2>1, <2>2
<1> QED BY <1>2, <1>3

\* A name that was refused and never allowed is an event of its own.
LEMMA RefusedNameIsAnEvent ==
  ASSUME NEW dns, NEW l \in dns, NEW audit, ~audit,
         \/ l.verb = "denied" /\ \A d \in dns : d.name = l.name => d.verb # "allowed"
         \/ l.verb = "service-denied"
  PROVE  \E event \in DnsEvents(dns, audit) : event.action = "block" /\ event.host = l.name
<1> DEFINE looked(verb) == {d.name : d \in {k \in dns : k.verb = verb}}
<1>1. CASE l.verb = "denied" /\ \A d \in dns : d.name = l.name => d.verb # "allowed"
  <2> DEFINE event == DnsEvent(ActionFor("dns-not-allowed", audit), l.name, "dns-not-allowed")
  <2>1. l.name \in looked("denied") \ looked("allowed") BY <1>1
  <2>2. event \in DnsEvents(dns, audit) BY <2>1 DEF DnsEvents
  <2>3. event.action = "block" /\ event.host = l.name
    BY InspectLogAssumption DEF ActionFor, FailureReasons, DnsEvent
  <2> HIDE DEF event
  <2> QED BY <2>2, <2>3
<1>2. CASE l.verb = "service-denied"
  <2> DEFINE event == DnsEvent(ActionFor("dns-service-not-allowed", audit), l.name, "dns-service-not-allowed")
  <2>1. l.name \in looked("service-denied") BY <1>2
  <2>2. event \in DnsEvents(dns, audit) BY <2>1 DEF DnsEvents
  <2>3. event.action = "block" /\ event.host = l.name
    BY InspectLogAssumption DEF ActionFor, FailureReasons, DnsEvent
  <2> HIDE DEF event
  <2> QED BY <2>2, <2>3
<1> QED BY <1>1, <1>2

LEMMA DnsEventsAreNamed ==
  ASSUME NEW dns, NEW audit, NEW event \in DnsEvents(dns, audit)
  PROVE  \E l \in dns : event.host = l.name
BY DEF DnsEvents, DnsEvent

LEMMA LogsGiveReport == LogInv => RowsAreNamed /\ LookupsAreReported /\ JudgedNamesAgree
<1> SUFFICES ASSUME LogInv PROVE RowsAreNamed /\ LookupsAreReported /\ JudgedNamesAgree
  OBVIOUS
<1> DEFINE lines == {entry.line : entry \in proxyLog}
           timeline == Timeline(lines, dnsLog, Audit)
<1>1. \A entry \in proxyLog : EntryOK(entry) BY DEF LogInv
<1>2. \A l \in dnsLog : LookupOK(l) BY DEF LogInv
<1>3. Report = Tables(timeline) BY DEF Report
<1>4. timeline = {ProxyEvent(line, Audit) : line \in lines} \cup DnsEvents(dnsLog, Audit) BY DEF Timeline
<1>5. RowsAreNamed
  <2> SUFFICES ASSUME NEW row \in Report.blocked \cup Report.failed \cup Report.passed
               PROVE  row.host # Dash
    BY DEF RowsAreNamed
  <2>1. row \in timeline /\ row.action # "incomplete"
    BY <1>3 DEF Tables
  <2>2. CASE row \in DnsEvents(dnsLog, Audit)
    BY <1>2, <2>2, DnsEventsAreNamed, InspectProxyAssumption DEF LookupOK
  <2>3. CASE row \in {ProxyEvent(line, Audit) : line \in lines}
    <3>1. PICK entry \in proxyLog : row = ProxyEvent(entry.line, Audit) BY <2>3
    <3> QED BY <1>1, <2>1, <3>1 DEF EntryOK
  <2> QED BY <1>4, <2>1, <2>2, <2>3
<1>6. LookupsAreReported
  <2> SUFFICES ASSUME ~Audit, NEW l \in dnsLog, l.name \notin ReverseNames, ~Named(l.name),
                      ~(l.name \in ServiceNames /\ l.type \in DiscoveryTypes /\ Named(ParentOf[l.name]))
               PROVE  \E row \in Report.blocked : row.host = l.name
    BY DEF LookupsAreReported
  <2>1. l.verb \in {"denied", "service-denied"} BY <1>2, RefusedVerb DEF LookupOK, LogInv
  <2>2. \A d \in dnsLog : d.name = l.name => d.verb # "allowed"
    BY <1>2, AllowedVerb DEF LookupOK, LogInv
  <2>3. PICK event \in DnsEvents(dnsLog, Audit) : event.action = "block" /\ event.host = l.name
    BY <2>1, <2>2, RefusedNameIsAnEvent
  <2>4. event \in timeline BY <1>4, <2>3
  <2> HIDE DEF timeline
  <2> QED BY <1>3, <2>3, <2>4, BlockedEventIsReported
<1>7. JudgedNamesAgree
  <2> SUFFICES ASSUME NEW entry \in proxyLog, NEW l \in dnsLog, Disagree(entry, l), entry.via # "ip"
               PROVE  FALSE
    BY DEF JudgedNamesAgree
  <2>1. ~Audit /\ l.name \notin ResolverHosts(rules)
    BY <1>2, DeniedVerb DEF Disagree, LookupOK
  <2>2. ProxyEvent(entry.line, Audit).host \in ResolverHosts(rules)
    BY <1>1, <2>1 DEF Disagree, LetThrough, EntryOK
  <2> QED BY <2>1, <2>2 DEF Disagree
<1> QED BY <1>5, <1>6, <1>7

\* The row of each stream has the action of what became of it: a refusal is
\* blocked, a failure of the origin or of a resolver is failed, and nothing else
\* is either, in both modes and for any number of streams and retries.
THEOREM ReportsTellWhatHappened == Spec => []ReportTellsWhatHappened
<1>1. LogInv => ReportTellsWhatHappened BY DEF LogInv, EntryOK, ReportTellsWhatHappened
<1> QED BY <1>1, LogInvariance, PTL

\* No row of the report is named by the `-` of a Host that did not come.
THEOREM RowsOfReportsAreNamed == Spec => []RowsAreNamed
<1>1. LogInv => RowsAreNamed BY LogsGiveReport
<1> QED BY <1>1, LogInvariance, PTL

\* A lookup of a name no rule has is in the blocked table, whatever else was
\* looked up or connected to.
THEOREM RefusedLookupsAreReported == Spec => []LookupsAreReported
<1>1. LogInv => LookupsAreReported BY LogsGiveReport
<1> QED BY <1>1, LogInvariance, PTL

\* What the resolver's log refuses and what the proxy lets through, but for an
\* ip rule, are never the same name: the two configurations are made of the same
\* rules, and each judges by them.
THEOREM JudgesAgree == Spec => []JudgedNamesAgree
<1>1. LogInv => JudgedNamesAgree BY LogsGiveReport
<1> QED BY <1>1, LogInvariance, PTL
=============================================================================
