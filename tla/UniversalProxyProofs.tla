------------------------ MODULE UniversalProxyProofs ------------------------
(***************************************************************************)
(* The proxy of the universal engine, for any rules, names, addresses and  *)
(* connections: what it asks and dials is what Egress allows, the report's *)
(* tables say what happened, and an address dialled for a name is recent.  *)
(***************************************************************************)
EXTENDS UniversalProxy, TLAPS

Stages == {"idle", "detect", "request", "firstTry", "lastTry", "dial", "relay"}

ConnSet ==
  [stage : Stages, aimed : Addrs \cup {Dash}, dst : Addrs \cup {Dash}, port : Ports \cup {Dash},
   hello : {"tls", "plain", Dash}, sni : Hosts \cup {Dash}, host : Hosts \cup {Dash},
   decision : {"BLOCKED", "AUDIT", "ALLOWED"}, type : {"UNKNOWN", "IP", "HTTPS", "HTTP"},
   reason : {Dash}, age : Nat]

\* The list that a line of a kind is about.
ListOf(type) == IF type = "HTTPS" THEN rules.https ELSE IF type = "HTTP" THEN rules.http ELSE rules.ip

\* What each stage knows of its stream.
Judged(k) ==
  /\ Listed(ListOf(k.type), Target(k), k.port)
  /\ k.type # "IP" => Target(k) \in Hosts

StreamOK(k) ==
  /\ k.stage # "idle" => k.aimed \in Addrs /\ k.port \in Ports
  /\ k.stage \in {"detect", "request"} =>
       k.decision = "BLOCKED" /\ k.type = "UNKNOWN" /\ k.host = Dash /\ k.dst = k.aimed
  /\ k.stage \in {"firstTry", "lastTry"} =>
       k.decision = "BLOCKED" /\ k.type \in {"HTTPS", "HTTP"} /\ Judged(k)
  /\ k.stage \in {"dial", "relay"} =>
       /\ k.decision = DecisionLabel /\ k.type \in {"IP", "HTTPS", "HTTP"} /\ Judged(k)
       /\ IF k.type = "IP" THEN k.dst = k.aimed /\ k.host = Dash
          ELSE Target(k) \in Names /\ k.dst \notin Guarded /\ k.age < Hold

RulesGiven == rules \in {Converted(input) : input \in RuleInputs}
ConnsTyped == conn \in [Conns -> ConnSet]
StreamsOK == \A c \in Conns : StreamOK(conn[c])

\* A held answer was the name's own at most Hold before it runs out.
HeldTyped ==
  /\ held \in [Names -> [addr : Addrs \cup {Dash}, left : Nat]]
  /\ current \in [Names -> [Addrs -> Nat]]
HeldIsRecent ==
  \A n \in Names : held[n].left > 0 =>
    held[n].addr \in Addrs /\ current[n][held[n].addr] + held[n].left <= Hold

IInv ==
  RulesGiven /\ ConnsTyped /\ StreamsOK /\ HeldTyped /\ HeldIsRecent /\ TablesTellWhatHappened

\* What is said of a line and of the fate of its stream.
Tells(line, fate) ==
  /\ Table(line) = IF fate \in {"refused", "noRequest"} THEN "blocked"
                   ELSE IF fate = "dnsFailed" THEN "failed" ELSE "passed"
  /\ line.reason \in {"not-allowed", "ip-not-allowed"} => ~Listed(ListOf(line.type), line.host, line.port)

\* What a step of c has to give of the streams and of the report.
Good == ConnsTyped' /\ StreamsOK' /\ TablesTellWhatHappened'

-----------------------------------------------------------------------------
(* The rules and the streams.                                              *)

\* A rule of this engine says nothing of paths and methods.
LEMMA RulesSayHostsOnly ==
  ASSUME RulesGiven
  PROVE  /\ rules.mode \in {"restrict", "audit"}
         /\ rules.ip \subseteq HostRules /\ rules.https \subseteq HostRules /\ rules.http \subseteq HostRules
<1>1. PICK input \in RuleInputs : rules = Converted(input) BY DEF RulesGiven
<1> DEFINE Given == [mode : {"restrict", "audit"}, ip : SUBSET HostRules, tls : {{}},
                     https : SUBSET HostRules, http : SUBSET HostRules]
<1>2. input \in Given BY UniversalProxyAssumption
<1>3. {<<h, AnyPort>> : h \in Hosts} \in SUBSET (Hosts \X (Ports \cup {AnyPort})) OBVIOUS
<1>4. Everything \in HostRules BY <1>3 DEF Everything, HostRules
<1> HIDE DEF HostRules, Everything
<1>5. Converted(input) \in Given BY <1>2, <1>4 DEF Converted
<1> QED BY <1>1, <1>5

\* A line's row stays as long as the line and the rules do.
LEMMA TellsStays ==
  ASSUME TablesTellWhatHappened, UNCHANGED rules, UNCHANGED last
  PROVE  TablesTellWhatHappened'
BY DEF TablesTellWhatHappened, Table, Audit, Accepts

\* A stream that moves on and knows what its stage has to know.
LEMMA MoveIsGood ==
  ASSUME IInv, NEW c \in Conns, NEW to \in ConnSet, StreamOK(to),
         conn' = [conn EXCEPT ![c] = to], UNCHANGED rules
  PROVE  ConnsTyped' /\ StreamsOK'
<1>1. ConnsTyped' BY DEF IInv, ConnsTyped
<1>2. ASSUME NEW d \in Conns PROVE StreamOK(conn[d])'
  <2>1. conn'[d] = IF d = c THEN to ELSE conn[d] BY DEF IInv, ConnsTyped
  <2>2. StreamOK(conn'[d])
    <3>1. CASE d = c BY <3>1, <2>1
    <3>2. CASE d # c BY <3>2, <2>1 DEF IInv, StreamsOK
    <3> QED BY <3>1, <3>2
  <2> QED
    BY <2>2 DEF StreamOK, Judged, Listed, Accepts, ListOf, Target, DecisionLabel, Audit
<1> QED BY <1>1, <1>2 DEF StreamsOK

LEMMA IdleIsOK == Idle \in ConnSet /\ StreamOK(Idle)
BY DEF Idle, Fresh, ConnSet, Stages, StreamOK

\* A stream that ends leaves the line it should, and a free connection.
LEMMA EndIsGood ==
  ASSUME IInv, NEW c \in Conns, NEW k, NEW fate, End(c, k, fate), Tells(LineOf(k), fate), UNCHANGED rules
  PROVE  Good
<1>1. ConnsTyped' /\ StreamsOK'
  BY IdleIsOK, MoveIsGood DEF End
<1>2. last'.line = LineOf(k) /\ last'.fate = fate
  BY DEF End
<1>3. Tells(last.line, last.fate)'
  BY <1>2 DEF Tells, Table, Audit, Listed, ListOf, Accepts
<1>4. TablesTellWhatHappened'
  BY <1>3 DEF TablesTellWhatHappened, Tells, Listed, ListOf
<1> QED BY <1>1, <1>4 DEF Good


-----------------------------------------------------------------------------
(* One action at a time.                                                   *)

LEMMA OpenIsGood == ASSUME IInv, NEW c \in Conns, Open(c) PROVE Good
<1>1. PICK a \in Addrs, p \in Ports :
        \E first \in {<<"tls", s>> : s \in Hosts \cup {Dash}} \cup {<<"plain", Dash>>} :
          conn' = [conn EXCEPT ![c] = Fresh("detect", a, p, first[1], first[2])]
  BY DEF Open
<1>2. PICK first \in {<<"tls", s>> : s \in Hosts \cup {Dash}} \cup {<<"plain", Dash>>} :
        conn' = [conn EXCEPT ![c] = Fresh("detect", a, p, first[1], first[2])]
  BY <1>1
<1>3. first[1] \in {"tls", "plain"} /\ first[2] \in Hosts \cup {Dash}
  OBVIOUS
<1> DEFINE to == Fresh("detect", a, p, first[1], first[2])
<1>4. to \in ConnSet BY <1>3 DEF Fresh, ConnSet, Stages
<1>5. StreamOK(to) BY DEF Fresh, StreamOK
<1>6. UNCHANGED rules /\ UNCHANGED last BY DEF Open, World, Log
<1> HIDE DEF to
<1>7. conn' = [conn EXCEPT ![c] = to] BY <1>2 DEF to
<1> QED BY <1>4, <1>5, <1>6, <1>7, MoveIsGood, TellsStays DEF Good, IInv

LEMMA NothingArrivesIsGood == ASSUME IInv, NEW c \in Conns, NothingArrives(c) PROVE Good
<1> DEFINE k == [conn[c] EXCEPT !.sni = Dash]
<1>1. conn[c] \in ConnSet /\ StreamOK(conn[c]) BY DEF IInv, ConnsTyped, StreamsOK
<1>2. k.decision = "BLOCKED" /\ k.reason = Dash
  BY <1>1 DEF NothingArrives, StreamOK, ConnSet
<1> HIDE DEF k
<1>3. Tells(LineOf(k), "noRequest")
  BY <1>2, UniversalProxyAssumption DEF Tells, LineOf, Table
<1>4. End(c, k, "noRequest") /\ UNCHANGED rules
  BY DEF NothingArrives, k, World
<1> QED BY <1>3, <1>4, EndIsGood

LEMMA DetectDirectIsGood == ASSUME IInv, NEW c \in Conns, DetectDirect(c) PROVE Good
<1> DEFINE k == [conn[c] EXCEPT !.type = "IP"]
<1>1. conn[c] \in ConnSet /\ StreamOK(conn[c]) /\ conn[c].stage = "detect"
  BY DEF IInv, ConnsTyped, StreamsOK, DetectDirect
<1>2. UNCHANGED rules BY DEF DetectDirect, World
<1>3. CASE Listed(rules.ip, Target(k), k.port)
  <2> DEFINE to == [k EXCEPT !.decision = DecisionLabel, !.stage = "dial"]
  <2>1. conn' = [conn EXCEPT ![c] = to] /\ UNCHANGED last
    BY <1>3 DEF DetectDirect, Log
  <2>2. to \in ConnSet BY <1>1 DEF ConnSet, Stages, DecisionLabel
  <2>3. /\ to.stage = "dial" /\ to.type = "IP" /\ to.dst = to.aimed /\ to.decision = DecisionLabel
        /\ to.aimed \in Addrs /\ to.port \in Ports /\ to.port = k.port /\ Target(to) = Target(k)
        /\ to.host = Dash
    BY <1>1 DEF StreamOK, ConnSet, Target
  <2> HIDE DEF to, k
  <2>4. StreamOK(to)
    BY <1>3, <2>3 DEF StreamOK, Judged, ListOf
  <2> QED BY <1>2, <2>1, <2>2, <2>4, MoveIsGood, TellsStays DEF Good, IInv
<1>4. CASE ~Listed(rules.ip, Target(k), k.port)
  <2> DEFINE j == [k EXCEPT !.reason = "ip-not-allowed"]
  <2>1. End(c, j, "refused") BY <1>4 DEF DetectDirect, Refuse
  <2>2. /\ j.decision = "BLOCKED" /\ j.reason = "ip-not-allowed" /\ j.type = "IP"
        /\ Target(j) = Target(k) /\ j.port = k.port
    BY <1>1 DEF StreamOK, ConnSet, Target
  <2> HIDE DEF j, k
  <2>3. Tells(LineOf(j), "refused")
    BY <1>4, <2>2 DEF Tells, LineOf, Table, ListOf
  <2> QED BY <1>2, <2>1, <2>3, EndIsGood
<1> QED BY <1>3, <1>4

LEMMA DetectTlsIsGood == ASSUME IInv, NEW c \in Conns, DetectTls(c) PROVE Good
<1> DEFINE k == [conn[c] EXCEPT !.type = "HTTPS"]
<1>1. conn[c] \in ConnSet /\ StreamOK(conn[c]) /\ conn[c].stage = "detect"
  BY DEF IInv, ConnsTyped, StreamsOK, DetectTls
<1>2. UNCHANGED rules BY DEF DetectTls, World
<1>3. CASE k.sni = Dash
  <2> DEFINE j == [k EXCEPT !.reason = "missing-sni"]
  <2>1. End(c, j, "refused") BY <1>3 DEF DetectTls, Refuse
  <2>2. j.decision = "BLOCKED" /\ j.reason = "missing-sni"
    BY <1>1 DEF StreamOK, ConnSet
  <2> HIDE DEF j, k
  <2>3. Tells(LineOf(j), "refused") BY <2>2 DEF Tells, LineOf, Table
  <2> QED BY <1>2, <2>1, <2>3, EndIsGood
<1>4. CASE k.sni # Dash /\ ~Listed(rules.https, k.sni, k.port)
  <2> DEFINE j == [k EXCEPT !.reason = "not-allowed"]
  <2>1. End(c, j, "refused") BY <1>4 DEF DetectTls, Refuse
  <2>2. /\ j.decision = "BLOCKED" /\ j.reason = "not-allowed" /\ j.type = "HTTPS"
        /\ Target(j) = k.sni /\ j.port = k.port
    BY <1>1, <1>4 DEF StreamOK, ConnSet, Target
  <2> HIDE DEF j, k
  <2>3. Tells(LineOf(j), "refused")
    BY <1>4, <2>2 DEF Tells, LineOf, Table, ListOf
  <2> QED BY <1>2, <2>1, <2>3, EndIsGood
<1>5. CASE k.sni # Dash /\ Listed(rules.https, k.sni, k.port)
  <2> DEFINE to == [k EXCEPT !.stage = "lastTry"]
  <2>1. conn' = [conn EXCEPT ![c] = to] /\ UNCHANGED last
    BY <1>5 DEF DetectTls, Log
  <2>2. to \in ConnSet BY <1>1 DEF ConnSet, Stages
  <2>3. /\ to.stage = "lastTry" /\ to.type = "HTTPS" /\ to.decision = "BLOCKED" /\ to.aimed \in Addrs
        /\ to.port \in Ports /\ to.port = k.port /\ Target(to) = k.sni /\ k.sni \in Hosts
    BY <1>1, <1>5 DEF StreamOK, ConnSet, Target
  <2> HIDE DEF to, k
  <2>4. StreamOK(to) BY <1>5, <2>3 DEF StreamOK, Judged, ListOf
  <2> QED BY <1>2, <2>1, <2>2, <2>4, MoveIsGood, TellsStays DEF Good, IInv
<1> QED BY <1>3, <1>4, <1>5

LEMMA DetectHttpIsGood == ASSUME IInv, NEW c \in Conns, DetectHttp(c) PROVE Good
<1> DEFINE to == [conn[c] EXCEPT !.stage = "request"]
<1>1. conn[c] \in ConnSet /\ StreamOK(conn[c]) /\ conn[c].stage = "detect"
  BY DEF IInv, ConnsTyped, StreamsOK, DetectHttp
<1>2. conn' = [conn EXCEPT ![c] = to] /\ UNCHANGED last /\ UNCHANGED rules
  BY DEF DetectHttp, Log, World
<1>3. to \in ConnSet BY <1>1 DEF ConnSet, Stages
<1>4. /\ to.stage = "request" /\ to.decision = "BLOCKED" /\ to.type = "UNKNOWN" /\ to.host = Dash
      /\ to.dst = to.aimed /\ to.aimed \in Addrs /\ to.port \in Ports
  BY <1>1 DEF ConnSet, StreamOK
<1> HIDE DEF to
<1>5. StreamOK(to) BY <1>4 DEF StreamOK
<1> QED BY <1>2, <1>3, <1>5, MoveIsGood, TellsStays DEF Good, IInv

LEMMA RequestIsGood == ASSUME IInv, NEW c \in Conns, Request(c) PROVE Good
<1>1. conn[c] \in ConnSet /\ StreamOK(conn[c]) /\ conn[c].stage = "request"
  BY DEF IInv, ConnsTyped, StreamsOK, Request
<1>2. UNCHANGED rules BY DEF Request, World
<1>3. CASE End(c, conn[c], "refused")
  <2>1. conn[c].decision = "BLOCKED" /\ conn[c].reason = Dash
    BY <1>1 DEF StreamOK, ConnSet
  <2>2. Tells(LineOf(conn[c]), "refused")
    BY <2>1, UniversalProxyAssumption DEF Tells, LineOf, Table
  <2> QED BY <1>2, <1>3, <2>2, EndIsGood
<1>4. ASSUME NEW host \in Hosts \cup {Dash},
             LET k == [conn[c] EXCEPT !.type = "HTTP", !.host = host] IN
               IF host = Dash THEN Refuse(c, k, "missing-host-header") /\ UNCHANGED asked
               ELSE IF ~Listed(rules.http, host, k.port) THEN Refuse(c, k, "not-allowed") /\ UNCHANGED asked
               ELSE /\ conn' = [conn EXCEPT ![c] = [k EXCEPT !.stage = "firstTry"]]
                    /\ asked' = AskedWith(Exchange("http", k, Dash))
                    /\ UNCHANGED Log
      PROVE  Good
  <2> DEFINE k == [conn[c] EXCEPT !.type = "HTTP", !.host = host]
  <2>1. CASE host = Dash
    <3> DEFINE j == [k EXCEPT !.reason = "missing-host-header"]
    <3>1. End(c, j, "refused") BY <1>4, <2>1 DEF Refuse
    <3>2. j.decision = "BLOCKED" /\ j.reason = "missing-host-header"
      BY <1>1 DEF StreamOK, ConnSet
    <3> HIDE DEF j, k
    <3>3. Tells(LineOf(j), "refused") BY <3>2 DEF Tells, LineOf, Table
    <3> QED BY <1>2, <3>1, <3>3, EndIsGood
  <2>2. CASE host # Dash /\ ~Listed(rules.http, host, k.port)
    <3> DEFINE j == [k EXCEPT !.reason = "not-allowed"]
    <3>1. End(c, j, "refused") BY <1>4, <2>2 DEF Refuse
    <3>2. /\ j.decision = "BLOCKED" /\ j.reason = "not-allowed" /\ j.type = "HTTP"
          /\ Target(j) = host /\ j.port = k.port
      BY <1>1, <2>2 DEF StreamOK, ConnSet, Target
    <3> HIDE DEF j, k
    <3>3. Tells(LineOf(j), "refused")
      BY <2>2, <3>2 DEF Tells, LineOf, Table, ListOf
    <3> QED BY <1>2, <3>1, <3>3, EndIsGood
  <2>3. CASE host # Dash /\ Listed(rules.http, host, k.port)
    <3> DEFINE to == [k EXCEPT !.stage = "firstTry"]
    <3>1. conn' = [conn EXCEPT ![c] = to] /\ UNCHANGED last
      BY <1>4, <2>3 DEF Log
    <3>2. to \in ConnSet BY <1>1 DEF ConnSet, Stages
    <3>3. /\ to.stage = "firstTry" /\ to.type = "HTTP" /\ to.decision = "BLOCKED" /\ to.aimed \in Addrs
          /\ to.port \in Ports /\ to.port = k.port /\ Target(to) = host /\ host \in Hosts
      BY <1>1, <2>3 DEF StreamOK, ConnSet, Target
    <3> HIDE DEF to, k
    <3>4. StreamOK(to) BY <2>3, <3>3 DEF StreamOK, Judged, ListOf
    <3> QED BY <1>2, <3>1, <3>2, <3>4, MoveIsGood, TellsStays DEF Good, IInv
  <2> QED BY <2>1, <2>2, <2>3
<1> QED BY <1>3, <1>4 DEF Request

LEMMA ResolveFailsIsGood == ASSUME IInv, NEW c \in Conns, ResolveFails(c) PROVE Good
<1>1. conn[c] \in ConnSet /\ StreamOK(conn[c]) BY DEF IInv, ConnsTyped, StreamsOK
<1>2. UNCHANGED rules BY DEF ResolveFails, World
<1>3. CASE /\ conn[c].stage = "firstTry"
           /\ conn' = [conn EXCEPT ![c].stage = "lastTry"] /\ UNCHANGED Log
  <2> DEFINE to == [conn[c] EXCEPT !.stage = "lastTry"]
  <2>1. conn' = [conn EXCEPT ![c] = to] /\ UNCHANGED last BY <1>3 DEF Log
  <2>2. to \in ConnSet BY <1>1 DEF ConnSet, Stages
  <2>3. /\ to.stage = "lastTry" /\ to.aimed \in Addrs /\ to.port \in Ports /\ to.decision = "BLOCKED"
        /\ to.type \in {"HTTPS", "HTTP"}
    BY <1>1, <1>3 DEF StreamOK, ConnSet
  <2>4. to.type = conn[c].type /\ to.port = conn[c].port /\ Target(to) = Target(conn[c])
    BY <1>1 DEF ConnSet, Target
  <2> HIDE DEF to
  <2>5. Judged(to) BY <1>1, <1>3, <2>4 DEF StreamOK, Judged
  <2>6. StreamOK(to) BY <2>3, <2>5 DEF StreamOK
  <2> QED BY <1>2, <2>1, <2>2, <2>6, MoveIsGood, TellsStays DEF Good, IInv
<1>4. CASE conn[c].stage = "lastTry" /\ End(c, [conn[c] EXCEPT !.reason = "dns-failed"], "dnsFailed")
  <2> DEFINE j == [conn[c] EXCEPT !.reason = "dns-failed"]
  <2>1. j.decision = "BLOCKED" /\ j.reason = "dns-failed"
    BY <1>1, <1>4 DEF StreamOK, ConnSet
  <2> HIDE DEF j
  <2>2. Tells(LineOf(j), "dnsFailed") BY <2>1 DEF Tells, LineOf, Table
  <2>3. End(c, j, "dnsFailed") BY <1>4 DEF j
  <2> QED BY <1>2, <2>2, <2>3, EndIsGood
<1> QED BY <1>3, <1>4 DEF ResolveFails

\* An answer within Hold of its rotation, and the guard in front of set-dst.
LEMMA AnswerIsGood ==
  ASSUME IInv, NEW c \in Conns, Resolving(c), NEW addr \in Addrs, Answer(c, addr), UNCHANGED rules,
         Target(conn[c]) \in Names, current[Target(conn[c])][addr] < Hold
  PROVE  Good
<1>1. conn[c] \in ConnSet /\ StreamOK(conn[c]) BY DEF IInv, ConnsTyped, StreamsOK
<1>2. /\ conn[c].decision = "BLOCKED" /\ conn[c].type \in {"HTTPS", "HTTP"} /\ Judged(conn[c])
      /\ conn[c].aimed \in Addrs /\ conn[c].port \in Ports
  BY <1>1 DEF Resolving, StreamOK
<1>3. CASE Guard(addr)
  <2> DEFINE j == [conn[c] EXCEPT !.reason = "internal-address"]
  <2>1. End(c, j, "refused") BY <1>3 DEF Answer, Refuse
  <2>2. j.decision = "BLOCKED" /\ j.reason = "internal-address" BY <1>1, <1>2 DEF ConnSet
  <2> HIDE DEF j
  <2>3. Tells(LineOf(j), "refused") BY <2>2 DEF Tells, LineOf, Table
  <2> QED BY <2>1, <2>3, EndIsGood
<1>4. CASE ~Guard(addr)
  <2> DEFINE age == current[Target(conn[c])][addr]
             to == [conn[c] EXCEPT !.dst = addr, !.stage = "dial", !.decision = DecisionLabel, !.age = age]
  <2>1. conn' = [conn EXCEPT ![c] = to] /\ UNCHANGED last BY <1>4 DEF Answer, Log
  <2>3. age \in Nat BY DEF IInv, HeldTyped
  <2>4. age < Hold OBVIOUS
  <2> HIDE DEF age
  <2>5. to \in ConnSet
    <3>1. "dial" \in Stages /\ DecisionLabel \in {"BLOCKED", "AUDIT", "ALLOWED"} BY DEF Stages, DecisionLabel
    <3> QED BY <1>1, <2>3, <3>1 DEF ConnSet
  <2>6. /\ to.stage = "dial" /\ to.type = conn[c].type /\ to.port = conn[c].port /\ to.aimed = conn[c].aimed
        /\ to.decision = DecisionLabel /\ to.dst = addr /\ to.age = age /\ Target(to) = Target(conn[c])
    BY <1>1 DEF ConnSet, Target
  <2> HIDE DEF to
  <2>7. Judged(to) BY <1>2, <2>6 DEF Judged
  <2>8. StreamOK(to) BY <1>2, <1>4, <2>4, <2>6, <2>7 DEF StreamOK, Guard
  <2> QED BY <2>1, <2>5, <2>8, MoveIsGood, TellsStays DEF Good, IInv
<1> QED BY <1>3, <1>4

LEMMA ResolveHeldIsGood == ASSUME IInv, NEW c \in Conns, ResolveHeld(c) PROVE Good
<1> DEFINE name == Target(conn[c])
<1>1. name \in Names BY DEF ResolveHeld
<1>2. held[name].left > 0 /\ Answer(c, held[name].addr) /\ Resolving(c) /\ UNCHANGED rules
  BY DEF ResolveHeld
<1> HIDE DEF name
<1>3. held[name].left \in Nat BY <1>1 DEF IInv, HeldTyped
<1>4. held[name].addr \in Addrs /\ current[name][held[name].addr] + held[name].left <= Hold
  BY <1>1, <1>2 DEF IInv, HeldIsRecent
<1>5. current[name][held[name].addr] \in Nat BY <1>1, <1>4 DEF IInv, HeldTyped
<1>6. current[name][held[name].addr] < Hold
  BY <1>2, <1>3, <1>4, <1>5, UniversalProxyAssumption
<1> QED BY <1>1, <1>2, <1>4, <1>6, AnswerIsGood DEF name

LEMMA ResolveAsksIsGood == ASSUME IInv, NEW c \in Conns, ResolveAsks(c) PROVE Good
<1>1. PICK addr \in Addrs :
        Target(conn[c]) \in Names /\ current[Target(conn[c])][addr] = 0 /\ Answer(c, addr)
  BY DEF ResolveAsks
<1>2. Resolving(c) /\ UNCHANGED rules BY DEF ResolveAsks
<1>3. current[Target(conn[c])][addr] < Hold BY <1>1, UniversalProxyAssumption
<1> QED BY <1>1, <1>2, <1>3, AnswerIsGood

LEMMA DialIsGood == ASSUME IInv, NEW c \in Conns, Dial(c) PROVE Good
<1> DEFINE to == [conn[c] EXCEPT !.stage = "relay"]
<1>1. conn[c] \in ConnSet /\ StreamOK(conn[c]) /\ conn[c].stage = "dial"
  BY DEF IInv, ConnsTyped, StreamsOK, Dial
<1>2. conn' = [conn EXCEPT ![c] = to] /\ UNCHANGED last /\ UNCHANGED rules
  BY DEF Dial, Log, World
<1>3. to \in ConnSet BY <1>1 DEF ConnSet, Stages
<1>4. /\ to.stage = "relay" /\ to.type = conn[c].type /\ to.port = conn[c].port /\ to.aimed = conn[c].aimed
      /\ to.decision = conn[c].decision /\ to.dst = conn[c].dst /\ to.host = conn[c].host /\ to.age = conn[c].age
      /\ Target(to) = Target(conn[c])
  BY <1>1 DEF ConnSet, Target
<1> HIDE DEF to
<1>5. Judged(to) BY <1>1, <1>4 DEF StreamOK, Judged
<1>6. StreamOK(to) BY <1>1, <1>4, <1>5 DEF StreamOK
<1> QED BY <1>2, <1>3, <1>6, MoveIsGood, TellsStays DEF Good, IInv

LEMMA StreamEndsIsGood == ASSUME IInv, NEW c \in Conns, StreamEnds(c) PROVE Good
<1>1. conn[c] \in ConnSet /\ StreamOK(conn[c]) /\ conn[c].stage = "relay"
  BY DEF IInv, ConnsTyped, StreamsOK, StreamEnds
<1>2. UNCHANGED rules BY DEF StreamEnds, World
<1>3. PICK fate \in {"relayed", "unreachable"} :
        /\ last' = [line |-> LineOf(conn[c]), fate |-> fate, aimed |-> conn[c].aimed]
        /\ conn' = [conn EXCEPT ![c] =
             IF conn[c].type = "HTTP" /\ fate = "relayed" /\ streams + 1 < MaxStreams
             THEN NextStream(conn[c]) ELSE Idle]
  BY DEF StreamEnds
<1>4. NextStream(conn[c]) \in ConnSet /\ StreamOK(NextStream(conn[c]))
  BY <1>1 DEF NextStream, Fresh, ConnSet, Stages, StreamOK
<1>5. ConnsTyped' /\ StreamsOK'
  <2> DEFINE to == IF conn[c].type = "HTTP" /\ fate = "relayed" /\ streams + 1 < MaxStreams
                   THEN NextStream(conn[c]) ELSE Idle
  <2>1. to \in ConnSet /\ StreamOK(to) BY <1>4, IdleIsOK
  <2>2. conn' = [conn EXCEPT ![c] = to] BY <1>3
  <2> HIDE DEF to
  <2> QED BY <1>2, <2>1, <2>2, MoveIsGood
<1>6. conn[c].decision = DecisionLabel /\ conn[c].reason = Dash
  BY <1>1 DEF StreamOK, ConnSet
<1>7. Tells(LineOf(conn[c]), fate)
  BY <1>6, UniversalProxyAssumption DEF Tells, LineOf, Table, DecisionLabel
<1>8. last'.line = LineOf(conn[c]) /\ last'.fate = fate BY <1>3
<1>9. Tells(last.line, last.fate)'
  BY <1>2, <1>7, <1>8 DEF Tells, Table, Audit, Listed, ListOf, Accepts
<1>10. TablesTellWhatHappened'
  BY <1>9 DEF TablesTellWhatHappened, Tells, Listed, ListOf
<1> QED BY <1>5, <1>10 DEF Good

LEMMA TickIsGood == ASSUME IInv, Tick PROVE Good
<1>1. UNCHANGED rules /\ UNCHANGED conn /\ UNCHANGED last BY DEF Tick, Log
<1>2. ConnsTyped' BY <1>1 DEF IInv, ConnsTyped
<1>3. StreamsOK'
  BY <1>1 DEF IInv, StreamsOK, StreamOK, Judged, Listed, Accepts, ListOf, Target, DecisionLabel, Audit
<1> QED BY <1>1, <1>2, <1>3, TellsStays DEF Good, IInv

-----------------------------------------------------------------------------
(* The answers held.                                                       *)

LEMMA HeldStays ==
  ASSUME IInv, UNCHANGED <<held, current>>
  PROVE  HeldTyped' /\ HeldIsRecent'
BY DEF IInv, HeldTyped, HeldIsRecent

LEMMA ResolveAsksHolds ==
  ASSUME IInv, NEW c \in Conns, ResolveAsks(c)
  PROVE  HeldTyped' /\ HeldIsRecent'
<1> DEFINE name == Target(conn[c])
<1>1. name \in Names BY DEF ResolveAsks
<1>2. PICK addr \in Addrs :
        /\ current[name][addr] = 0
        /\ held' = [held EXCEPT ![name] = [addr |-> addr, left |-> Hold]]
  BY DEF ResolveAsks
<1>3. UNCHANGED current BY DEF ResolveAsks
<1> HIDE DEF name
<1>4. Hold \in Nat BY UniversalProxyAssumption
<1>5. HeldTyped' BY <1>2, <1>3, <1>4 DEF IInv, HeldTyped
<1>6. ASSUME NEW n \in Names, held'[n].left > 0
      PROVE  held'[n].addr \in Addrs /\ current'[n][held'[n].addr] + held'[n].left <= Hold
  <2>1. CASE n = name
    BY <1>1, <1>2, <1>3, <1>4, <2>1 DEF IInv, HeldTyped
  <2>2. CASE n # name
    <3>1. held'[n] = held[n] BY <1>2, <2>2 DEF IInv, HeldTyped
    <3> QED BY <1>3, <1>6, <3>1 DEF IInv, HeldIsRecent
  <2> QED BY <2>1, <2>2
<1> QED BY <1>5, <1>6 DEF HeldIsRecent

LEMMA TickHolds ==
  ASSUME IInv, Tick
  PROVE  HeldTyped' /\ HeldIsRecent'
<1>1. PICK r \in Rotating, a \in Addrs :
        current' = [m \in Names |-> [b \in Addrs |->
          IF (IF m = r THEN b = a ELSE current[m][b] = 0) THEN 0
          ELSE IF current[m][b] = NeverAged THEN NeverAged ELSE current[m][b] + 1]]
  BY DEF Tick
<1>2. held' = [n \in Names |-> [held[n] EXCEPT !.left = IF @ = 0 THEN 0 ELSE @ - 1]]
  BY DEF Tick
<1>3. Hold \in Nat BY UniversalProxyAssumption
<1>4. ASSUME NEW n \in Names
      PROVE  /\ held'[n].addr = held[n].addr /\ held[n].left \in Nat
             /\ held'[n].left = IF held[n].left = 0 THEN 0 ELSE held[n].left - 1
             /\ held'[n] \in [addr : Addrs \cup {Dash}, left : Nat]
  <2>1. held[n] \in [addr : Addrs \cup {Dash}, left : Nat] BY DEF IInv, HeldTyped
  <2>2. held'[n] = [held[n] EXCEPT !.left = IF @ = 0 THEN 0 ELSE @ - 1] BY <1>2
  <2> QED BY <2>1, <2>2
<1>5. ASSUME NEW n \in Names, NEW b \in Addrs
      PROVE  /\ current[n][b] \in Nat /\ current'[n][b] \in Nat
             /\ current[n][b] < Hold => current'[n][b] <= current[n][b] + 1
  <2>1. current[n][b] \in Nat BY DEF IInv, HeldTyped
  <2>2. current'[n][b] \in {0, NeverAged, current[n][b] + 1} BY <1>1
  <2>3. current'[n][b] = NeverAged => current[n][b] = NeverAged \/ NeverAged = current[n][b] + 1 \/ NeverAged = 0
    BY <1>1
  <2> QED BY <1>3, <2>1, <2>2, <2>3 DEF NeverAged
<1>6. HeldTyped'
  <2>1. held' \in [Names -> [addr : Addrs \cup {Dash}, left : Nat]] BY <1>2, <1>4
  <2>2. current' \in [Names -> [Addrs -> Nat]] BY <1>1, <1>5
  <2> QED BY <2>1, <2>2 DEF HeldTyped
<1>7. ASSUME NEW n \in Names, held'[n].left > 0
      PROVE  held'[n].addr \in Addrs /\ current'[n][held'[n].addr] + held'[n].left <= Hold
  <2> DEFINE b == held[n].addr
  <2>1. held[n].left > 0 BY <1>4, <1>7
  <2>2. b \in Addrs /\ current[n][b] + held[n].left <= Hold
    BY <2>1 DEF IInv, HeldIsRecent
  <2>3. held'[n].addr = b /\ held'[n].left = held[n].left - 1 /\ held[n].left \in Nat BY <1>4, <2>1
  <2> HIDE DEF b
  <2>4. current[n][b] \in Nat /\ current'[n][b] \in Nat
        /\ (current[n][b] < Hold => current'[n][b] <= current[n][b] + 1)
    BY <1>5, <2>2
  <2>5. current[n][b] < Hold BY <1>3, <2>1, <2>2, <2>3, <2>4
  <2>6. current'[n][b] + held'[n].left <= Hold BY <1>3, <2>1, <2>2, <2>3, <2>4, <2>5
  <2> QED BY <2>2, <2>3, <2>6
<1> QED BY <1>6, <1>7 DEF HeldIsRecent

-----------------------------------------------------------------------------
(* The promise to the world outside.                                       *)

LEMMA EmptyPathPasses ==
  /\ ~PathDenied(AnyPath)
  /\ \A rule \in HostRules : PathMatches(rule, AnyPath)
<1>1. DOMAIN AnyPath = {} /\ Len(AnyPath) = 0
  BY DEF AnyPath
<1>2. Parts(AnyPath) = {} BY <1>1 DEF Parts
<1>3. AnyPath # NoPath BY DEF AnyPath, NoPath
<1>4. ASSUME NEW rule \in HostRules PROVE IsPrefix(rule.prefix, AnyPath)
  <2>1. rule.prefix = AnyPath BY DEF HostRules
  <2> QED BY <1>1, <2>1 DEF IsPrefix, AnyPath
<1> QED BY <1>2, <1>3, <1>4 DEF PathDenied, PathMatches

\* The rules say the same of what was reached and of what was claimed.
LEMMA ClaimsAreJudgedAlike ==
  ASSUME NEW x
  PROVE  /\ Allowed(x) => Claimed!Allowed(x)
         /\ MayGoTo(x) => Claimed!MayGoTo(x)
<1>1. ASSUME NEW rule, NEW h, NEW p PROVE Accepts(rule, h, p) <=> Claimed!Accepts(rule, h, p)
  BY DEF Accepts, Claimed!Accepts
<1>2. Schemes = Claimed!Schemes /\ Hosts = Claimed!Hosts
  BY DEF Schemes, Claimed!Schemes, Hosts, Claimed!Hosts
<1>3. ASSUME NEW path PROVE PathDenied(path) <=> Claimed!PathDenied(path)
  BY DEF PathDenied, Claimed!PathDenied, Parts, Claimed!Parts, Range, Claimed!Range
<1>4. ASSUME NEW rule, NEW path PROVE PathMatches(rule, path) <=> Claimed!PathMatches(rule, path)
  BY DEF PathMatches, Claimed!PathMatches, NoPath, Claimed!NoPath, IsPrefix, Claimed!IsPrefix
<1>5. ASSUME NEW rule, NEW scheme, NEW h, NEW p
      PROVE  HostMatches(rule, scheme, h, p) <=> Claimed!HostMatches(rule, scheme, h, p)
  BY <1>1 DEF HostMatches, Claimed!HostMatches
<1>6. ASSUME NEW rule, NEW scheme, NEW p
      PROVE  ClauseHolds(rule, scheme, x, p) <=> Claimed!ClauseHolds(rule, scheme, x, p)
  BY <1>4, <1>5 DEF ClauseHolds, Claimed!ClauseHolds
<1> QED
  BY <1>1, <1>2, <1>3, <1>6 DEF Allowed, Claimed!Allowed, MayGoTo, Claimed!MayGoTo

\* What the host rules accept, Egress allows.
LEMMA JudgedIsAllowed ==
  ASSUME RulesGiven, NEW via \in Schemes, NEW k, NEW addr,
         Target(k) \in Hosts, Listed(rules[via], Target(k), k.port)
  PROVE  Allowed(Exchange(via, k, addr))
<1> DEFINE m == CHOOSE m \in Methods : TRUE
           x == Exchange(via, k, addr)
<1>1. m \in Methods BY UniversalProxyAssumption
<1>2. via # "ip" /\ via # "tls" BY DEF Schemes
<1> HIDE DEF m
<1>3. x = [via |-> via, addr |-> addr, port |-> k.port, path |-> AnyPath, method |-> m, host |-> Target(k)]
  BY <1>2 DEF Exchange, m
<1>4. x.via = via /\ x.host = Target(k) /\ x.port = k.port /\ x.path = AnyPath /\ x.method = m
  BY <1>3
<1> HIDE DEF x
<1>5. PICK rule \in rules[via] : Accepts(rule, Target(k), k.port) BY DEF Listed
<1>6. rule \in HostRules BY RulesSayHostsOnly DEF Schemes
<1>7. rule.methods = Methods BY <1>6 DEF HostRules
<1>8. ClauseHolds(rule, via, x, x.port)
  BY <1>1, <1>4, <1>5, <1>6, <1>7, EmptyPathPasses DEF ClauseHolds, HostMatches
<1>9. x.host \in Hosts /\ ~PathDenied(x.path) BY <1>4, EmptyPathPasses
<1>10. Allowed(x) BY <1>4, <1>8, <1>9 DEF Allowed
<1> QED BY <1>10 DEF x

\* What the proxy has reached, as its clients claimed it.
ReachedAsClaimed == {AsClaimed(x) : x \in reached}
Promised == <<rules, asked, ReachedAsClaimed>>

\* A name is asked about once its list accepts it, and the text of an address never.
LEMMA AskIsAllowed ==
  ASSUME RulesGiven, NEW via \in Schemes, NEW k, Target(k) \in Hosts,
         Listed(rules[via], Target(k), k.port),
         asked' = AskedWith(Exchange(via, k, Dash)), UNCHANGED <<rules, reached>>
  PROVE  [Claimed!EgressNext]_Promised
<1> DEFINE x == Exchange(via, k, Dash)
<1>1. Claimed!Allowed(x) BY JudgedIsAllowed, ClaimsAreJudgedAlike
<1>2. UNCHANGED ReachedAsClaimed BY DEF ReachedAsClaimed, AsClaimed
<1> HIDE DEF x
<1>3. CASE x.host \in Names
  <2>1. asked' = asked \cup {x} BY <1>3 DEF AskedWith, x
  <2>2. Claimed!Ask(x) BY <1>1, <1>2, <1>3, <2>1 DEF Claimed!Ask, ReachedAsClaimed
  <2>3. Claimed!EgressNext BY <2>1, <2>2 DEF Claimed!EgressNext
  <2> QED BY <2>3
<1>4. CASE x.host \notin Names
  <2>1. asked' = asked BY <1>4 DEF AskedWith, x
  <2> QED BY <1>2, <2>1 DEF Promised
<1> QED BY <1>3, <1>4

\* A connection that goes where it was judged to, or past the gateway where its SNI
\* claims to go.
LEMMA DialIsAllowed ==
  ASSUME IInv, NEW c \in Conns, Dial(c)
  PROVE  [Claimed!EgressNext]_Promised
<1> DEFINE k == conn[c]
           x == Exchange(Via(k), k, k.dst)
           y == AsClaimed(x)
<1>1. k \in ConnSet /\ StreamOK(k) /\ k.stage = "dial" BY DEF IInv, ConnsTyped, StreamsOK, Dial
<1>2. reached' = reached \cup {x} /\ UNCHANGED <<rules, asked>> BY DEF Dial, World
<1> HIDE DEF k
<1>3. Judged(k) /\ k.type \in {"IP", "HTTPS", "HTTP"} /\ k.aimed \in Addrs /\ k.port \in Ports
  BY <1>1 DEF StreamOK
<1>4. Allowed(y) /\ MayGoTo(y)
  <2>1. CASE k.type = "IP"
    <3>1. k.dst = k.aimed /\ k.host = Dash
      BY <1>1, <2>1 DEF StreamOK
    <3>2. /\ x.via = "ip" /\ x.addr = k.dst /\ x.port = k.port /\ x.host = k.sni
          /\ DOMAIN x = {"via", "addr", "port", "path", "method", "host"}
      BY <2>1 DEF Exchange, Via
    <3> HIDE DEF x
    <3>3. y.via = "ip" /\ y.port = k.port /\ y.addr = IF k.sni # Dash THEN k.sni ELSE k.dst
      BY <3>2 DEF AsClaimed
    <3> HIDE DEF y
    <3>4. y.addr = Target(k) BY <3>1, <3>3 DEF Target
    <3>5. PICK rule \in rules.ip : Accepts(rule, Target(k), k.port)
      BY <1>3, <2>1 DEF Judged, Listed, ListOf
    <3> QED BY <3>3, <3>4, <3>5 DEF Allowed, MayGoTo
  <2>2. CASE k.type # "IP"
    <3> DEFINE via == Via(k)
    <3>1. via \in Schemes /\ rules[via] = ListOf(k.type)
      BY <1>3, <2>2 DEF Via, Schemes, ListOf
    <3>2. Target(k) \in Names /\ Listed(rules[via], Target(k), k.port)
      BY <1>1, <1>3, <2>2, <3>1 DEF Judged, StreamOK
    <3>3. x.host = Target(k) /\ x.addr = k.dst /\ x.via # "ip"
      BY <3>1 DEF Exchange, Schemes
    <3>4. k.dst \notin Guarded BY <1>1, <2>2 DEF StreamOK
    <3> HIDE DEF via
    <3>5. Allowed(x) BY <3>1, <3>2, JudgedIsAllowed DEF IInv, via, Hosts
    <3> HIDE DEF x
    <3>6. y = x BY <3>3 DEF AsClaimed
    <3> HIDE DEF y
    <3> QED BY <3>2, <3>3, <3>4, <3>5, <3>6 DEF MayGoTo
  <2> QED BY <2>1, <2>2
<1> HIDE DEF x
<1>5. ReachedAsClaimed' = ReachedAsClaimed \cup {y} BY <1>2 DEF ReachedAsClaimed, AsClaimed
<1> HIDE DEF y
<1>6. Claimed!Allowed(y) /\ Claimed!MayGoTo(y) BY <1>4, ClaimsAreJudgedAlike
<1>7. Claimed!Reach(y) BY <1>2, <1>5, <1>6 DEF Claimed!Reach, ReachedAsClaimed
<1>8. y \in ReachedAsClaimed' BY <1>5
<1>9. Claimed!EgressNext BY <1>7, <1>8 DEF Claimed!EgressNext, ReachedAsClaimed
<1> QED BY <1>9

LEMMA DetectTlsAsks ==
  ASSUME IInv, NEW c \in Conns, DetectTls(c)
  PROVE  [Claimed!EgressNext]_Promised
<1> DEFINE k == [conn[c] EXCEPT !.type = "HTTPS"]
<1>1. conn[c] \in ConnSet /\ StreamOK(conn[c]) /\ conn[c].stage = "detect"
  BY DEF IInv, ConnsTyped, StreamsOK, DetectTls
<1>2. UNCHANGED <<rules, reached>> BY DEF DetectTls, World
<1>3. CASE k.sni # Dash /\ Listed(rules.https, k.sni, k.port)
  <2>1. asked' = AskedWith(Exchange("https", k, Dash)) BY <1>3 DEF DetectTls
  <2>2. Target(k) = k.sni /\ k.sni \in Hosts
    BY <1>1, <1>3 DEF StreamOK, ConnSet, Target
  <2> HIDE DEF k
  <2>3. "https" \in Schemes BY DEF Schemes
  <2>4. Listed(rules["https"], Target(k), k.port) BY <1>3, <2>2
  <2> QED BY <1>2, <2>1, <2>2, <2>3, <2>4, AskIsAllowed DEF IInv
<1>4. CASE ~(k.sni # Dash /\ Listed(rules.https, k.sni, k.port))
  BY <1>2, <1>4 DEF DetectTls, Promised, ReachedAsClaimed, AsClaimed
<1> QED BY <1>3, <1>4

LEMMA RequestAsks ==
  ASSUME IInv, NEW c \in Conns, Request(c)
  PROVE  [Claimed!EgressNext]_Promised
<1>1. conn[c] \in ConnSet /\ StreamOK(conn[c]) /\ conn[c].stage = "request"
  BY DEF IInv, ConnsTyped, StreamsOK, Request
<1>2. UNCHANGED <<rules, reached>> BY DEF Request, World
<1>3. UNCHANGED asked => UNCHANGED Promised BY <1>2 DEF Promised, ReachedAsClaimed, AsClaimed
<1>4. ASSUME NEW host \in Hosts \cup {Dash},
             LET k == [conn[c] EXCEPT !.type = "HTTP", !.host = host] IN
               IF host = Dash THEN Refuse(c, k, "missing-host-header") /\ UNCHANGED asked
               ELSE IF ~Listed(rules.http, host, k.port) THEN Refuse(c, k, "not-allowed") /\ UNCHANGED asked
               ELSE /\ conn' = [conn EXCEPT ![c] = [k EXCEPT !.stage = "firstTry"]]
                    /\ asked' = AskedWith(Exchange("http", k, Dash))
                    /\ UNCHANGED Log
      PROVE  [Claimed!EgressNext]_Promised
  <2> DEFINE k == [conn[c] EXCEPT !.type = "HTTP", !.host = host]
  <2>1. CASE host # Dash /\ Listed(rules.http, host, k.port)
    <3>1. asked' = AskedWith(Exchange("http", k, Dash)) BY <1>4, <2>1
    <3>2. Target(k) = host /\ host \in Hosts
      BY <1>1, <2>1 DEF StreamOK, ConnSet, Target
    <3> HIDE DEF k
    <3>3. "http" \in Schemes BY DEF Schemes
    <3>4. Listed(rules["http"], Target(k), k.port) BY <2>1, <3>2
    <3> QED BY <1>2, <3>1, <3>2, <3>3, <3>4, AskIsAllowed DEF IInv
  <2>2. CASE ~(host # Dash /\ Listed(rules.http, host, k.port))
    <3>1. UNCHANGED asked BY <1>4, <2>2
    <3> QED BY <1>3, <3>1
  <2> QED BY <2>1, <2>2
<1>5. CASE UNCHANGED asked BY <1>3, <1>5
<1> QED BY <1>4, <1>5 DEF Request

-----------------------------------------------------------------------------
(* The theorems.                                                           *)

LEMMA InitEstablishes == ASSUME Init PROVE IInv
<1>1. ConnsTyped /\ StreamsOK BY IdleIsOK DEF Init, ConnsTyped, StreamsOK
<1>2. HeldTyped BY UniversalProxyAssumption DEF Init, HeldTyped, NeverAged
<1>3. HeldIsRecent BY DEF Init, HeldIsRecent
<1> QED BY <1>1, <1>2, <1>3 DEF Init, IInv, RulesGiven, TablesTellWhatHappened

LEMMA StepPreserves == ASSUME IInv, Next PROVE IInv'
<1>1. Good
  BY OpenIsGood, NothingArrivesIsGood, DetectDirectIsGood, DetectTlsIsGood, DetectHttpIsGood,
     RequestIsGood, ResolveFailsIsGood, ResolveHeldIsGood, ResolveAsksIsGood, DialIsGood,
     StreamEndsIsGood, TickIsGood DEF Next, Stream
<1>2. UNCHANGED rules
  BY DEF Next, Stream, Open, NothingArrives, DetectDirect, DetectTls, DetectHttp, Request,
         ResolveFails, ResolveHeld, ResolveAsks, Dial, StreamEnds, Tick, World
<1>3. HeldTyped' /\ HeldIsRecent'
  <2>1. CASE Tick BY <2>1, TickHolds
  <2>2. CASE \E c \in Conns : ResolveAsks(c) BY <2>2, ResolveAsksHolds
  <2>3. CASE ~Tick /\ ~(\E c \in Conns : ResolveAsks(c))
    <3>1. UNCHANGED <<held, current>>
      BY <2>3 DEF Next, Stream, Open, NothingArrives, DetectDirect, DetectTls, DetectHttp, Request,
             ResolveFails, ResolveHeld, HeldAfterUse, Dial, StreamEnds, World
    <3> QED BY <3>1, HeldStays
  <2> QED BY <2>1, <2>2, <2>3
<1> QED BY <1>1, <1>2, <1>3 DEF Good, IInv, RulesGiven

LEMMA StutterPreserves == ASSUME IInv, UNCHANGED vars PROVE IInv'
<1>1. UNCHANGED rules /\ UNCHANGED conn /\ UNCHANGED last /\ UNCHANGED <<held, current>> BY DEF vars
<1>2. StreamsOK'
  BY <1>1 DEF IInv, StreamsOK, StreamOK, Judged, Listed, Accepts, ListOf, Target, DecisionLabel, Audit
<1> QED BY <1>1, <1>2, HeldStays, TellsStays DEF IInv, RulesGiven, ConnsTyped

LEMMA Invariance == Spec => []IInv
<1>1. IInv /\ [Next]_vars => IInv' BY StepPreserves, StutterPreserves
<1> QED BY <1>1, InitEstablishes, PTL DEF Spec

\* Every row of the report is in the table of what happened to its stream, in
\* restrict and in audit: refused, failed upstream, or let through; and a row
\* that gives the rules for its reason is one no rule of its kind covers.
THEOREM TablesAreTold == Spec => []TablesTellWhatHappened
<1>1. IInv => TablesTellWhatHappened BY DEF IInv
<1> QED BY <1>1, Invariance, PTL

\* What is dialled for a name was its address less than `hold valid` ago, for any
\* number of uses of the held answer and any rotation.
THEOREM DialledAddressesAreRecent == Spec => []DialledAddressIsRecent
<1>1. IInv => DialledAddressIsRecent
  BY DEF IInv, StreamsOK, StreamOK, DialledAddressIsRecent
<1> QED BY <1>1, Invariance, PTL

\* Every step of the proxy is a step of Egress or changes nothing outside: a name
\* is asked about, and a connection made, only as the rules and the guard allow,
\* past the gateway for the destination that the client's SNI claims.
THEOREM UniversalProxyImplementsEgress == Spec => ImplementsEgress
<1>1. Init => Claimed!EgressInit BY DEF Init, EgressInit, Claimed!EgressInit
<1>2. IInv /\ [Next]_vars => [Claimed!EgressNext]_Promised
  <2> SUFFICES ASSUME IInv, [Next]_vars PROVE [Claimed!EgressNext]_Promised
    OBVIOUS
  <2>1. CASE \E c \in Conns : Dial(c) BY <2>1, DialIsAllowed
  <2>2. CASE \E c \in Conns : DetectTls(c) BY <2>2, DetectTlsAsks
  <2>3. CASE \E c \in Conns : Request(c) BY <2>3, RequestAsks
  <2>4. CASE UNCHANGED <<rules, asked, reached>> BY <2>4 DEF Promised, ReachedAsClaimed, AsClaimed
  <2>5. \/ \E c \in Conns : Dial(c) \/ DetectTls(c) \/ Request(c)
        \/ UNCHANGED <<rules, asked, reached>>
    BY DEF vars, Next, Stream, Open, NothingArrives, DetectDirect, DetectHttp,
           ResolveFails, ResolveHeld, ResolveAsks, StreamEnds, Tick, World
  <2> QED BY <2>1, <2>2, <2>3, <2>4, <2>5
<1>3. IInv /\ [Next]_vars => [Claimed!EgressNext]_<<rules, asked, {AsClaimed(x) : x \in reached}>>
  BY <1>2 DEF Promised, ReachedAsClaimed
<1> QED BY <1>1, <1>3, Invariance, PTL DEF Spec, ImplementsEgress, Claimed!EgressSpec

=============================================================================
