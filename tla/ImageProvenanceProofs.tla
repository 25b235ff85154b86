------------------------ MODULE ImageProvenanceProofs ------------------------
(***************************************************************************)
(* For every set of releases, refs and engines, and every number of        *)
(* builds, writes and failed responses: what a step starts is signed, and  *)
(* is the one pinned and of the engine asked for but for the two exceptions*)
(* the properties name; a signed release is started; and an outage is not  *)
(* taken for a missing image.                                              *)
(***************************************************************************)
EXTENDS ImageProvenance, SequenceTheorems, TLAPS

(***************************************************************************)
(* Names                                                                   *)
(***************************************************************************)
LEMMA PrefixElements ==
  ASSUME NEW S, NEW s \in Seq(S), NEW t \in Seq(S)
  PROVE  IsPrefix(s, t) <=> Len(s) <= Len(t) /\ \A i \in 1..Len(s) : s[i] = t[i]
BY DEF IsPrefix

\* The certificate's version is matched as whole dot-separated parts.
LEMMA WholeParts ==
  ASSUME NEW S, NEW dot \in S, NEW a \in Seq(S), NEW b \in Seq(S)
  PROVE  IsPrefix(Append(a, dot), Append(b, dot)) <=>
           IsPrefix(a, b) /\ (Len(b) > Len(a) => b[Len(a) + 1] = dot)
<1>1. /\ Append(a, dot) \in Seq(S) /\ Len(Append(a, dot)) = Len(a) + 1
      /\ \A i \in 1..Len(a) : Append(a, dot)[i] = a[i]
      /\ Append(a, dot)[Len(a) + 1] = dot
  BY AppendProperties
<1>2. /\ Append(b, dot) \in Seq(S) /\ Len(Append(b, dot)) = Len(b) + 1
      /\ \A i \in 1..Len(b) : Append(b, dot)[i] = b[i]
      /\ Append(b, dot)[Len(b) + 1] = dot
  BY AppendProperties
<1>3. IsPrefix(Append(a, dot), Append(b, dot)) <=>
        Len(a) <= Len(b) /\ \A i \in 1..Len(a) + 1 : Append(a, dot)[i] = Append(b, dot)[i]
  <2>1. IsPrefix(Append(a, dot), Append(b, dot)) <=>
          /\ Len(Append(a, dot)) <= Len(Append(b, dot))
          /\ \A i \in 1..Len(Append(a, dot)) : Append(a, dot)[i] = Append(b, dot)[i]
    <3>1. Append(a, dot) \in Seq(S) /\ Append(b, dot) \in Seq(S) BY <1>1, <1>2
    <3>2. \A u, w \in Seq(S) :
            IsPrefix(u, w) <=> Len(u) <= Len(w) /\ \A i \in 1..Len(u) : u[i] = w[i]
      BY PrefixElements
    <3> DEFINE u == Append(a, dot)
               w == Append(b, dot)
    <3>3. u \in Seq(S) /\ w \in Seq(S) BY <3>1
    <3> HIDE DEF u, w
    <3>4. IsPrefix(u, w) <=> Len(u) <= Len(w) /\ \A i \in 1..Len(u) : u[i] = w[i]
      BY <3>2, <3>3
    <3> QED BY <3>4 DEF u, w
  <2>2. Len(Append(a, dot)) <= Len(Append(b, dot)) <=> Len(a) <= Len(b) BY <1>1, <1>2
  <2> QED BY <1>1, <2>1, <2>2
<1>4. IsPrefix(a, b) <=> Len(a) <= Len(b) /\ \A i \in 1..Len(a) : a[i] = b[i]
  BY PrefixElements
<1>5. Len(a) <= Len(b) /\ Append(a, dot)[Len(a) + 1] = Append(b, dot)[Len(a) + 1] <=>
        Len(a) <= Len(b) /\ (Len(b) > Len(a) => b[Len(a) + 1] = dot)
  BY <1>1, <1>2
<1>6. Len(a) <= Len(b) =>
        ((\A i \in 1..Len(a) : Append(a, dot)[i] = Append(b, dot)[i]) <=>
         \A i \in 1..Len(a) : a[i] = b[i])
  BY <1>1, <1>2
<1>7. 1..Len(a) + 1 = 1..Len(a) \cup {Len(a) + 1} OBVIOUS
<1>8. (\A i \in 1..Len(a) + 1 : Append(a, dot)[i] = Append(b, dot)[i]) <=>
        /\ \A i \in 1..Len(a) : Append(a, dot)[i] = Append(b, dot)[i]
        /\ Append(a, dot)[Len(a) + 1] = Append(b, dot)[Len(a) + 1]
  BY <1>7
<1> QED BY <1>3, <1>4, <1>5, <1>6, <1>8

LEMMA OneToken == ASSUME NEW S, NEW t \in S PROVE <<t>> \in Seq(S)
OBVIOUS

\* A suffix of one token is the last token.
LEMMA OneTokenSuffix ==
  ASSUME NEW S, NEW t \in S, NEW s \in Seq(S)
  PROVE  IsSuffix(<<t>>, s) <=> s # <<>> /\ s[Len(s)] = t
<1>0. \A u, w \in Seq(S) : IsPrefix(u, w) <=> Len(u) <= Len(w) /\ \A i \in 1..Len(u) : u[i] = w[i]
  BY PrefixElements
<1>1. Reverse(<<t>>) = <<t>> BY DEF Reverse
<1>2. /\ Reverse(s) \in Seq(S) /\ Len(Reverse(s)) = Len(s)
      /\ Len(s) > 0 => Reverse(s)[1] = s[Len(s)]
  BY DEF Reverse
<1>3. <<t>> \in Seq(S) /\ Len(<<t>>) = 1 /\ <<t>>[1] = t
  OBVIOUS
<1>4. IsPrefix(<<t>>, Reverse(s)) <=>
        Len(<<t>>) <= Len(Reverse(s)) /\ \A i \in 1..Len(<<t>>) : <<t>>[i] = Reverse(s)[i]
  BY <1>0, <1>2, <1>3
<1>5. IsPrefix(<<t>>, Reverse(s)) <=> 1 <= Len(s) /\ t = Reverse(s)[1]
  BY <1>2, <1>3, <1>4
<1>6. s # <<>> <=> 1 <= Len(s) BY EmptySeq
<1> QED BY <1>1, <1>2, <1>5, <1>6 DEF IsSuffix

LEMMA NoSuffix == ASSUME NEW S, NEW s \in Seq(S) PROVE IsSuffix(<<>>, s)
<1>0. \A u, w \in Seq(S) : IsPrefix(u, w) <=> Len(u) <= Len(w) /\ \A i \in 1..Len(u) : u[i] = w[i]
  BY PrefixElements
<1>1. /\ Reverse(s) \in Seq(S) /\ Len(Reverse(s)) = Len(s)
      /\ Reverse(<<>>) = <<>>
  BY DEF Reverse
<1>2. <<>> \in Seq(S) /\ Len(<<>>) = 0 OBVIOUS
<1>3. Len(<<>>) <= Len(Reverse(s)) /\ 1..Len(<<>>) = {} BY <1>1, <1>2
<1>4. IsPrefix(<<>>, Reverse(s)) BY <1>0, <1>1, <1>2, <1>3
<1> QED BY <1>1, <1>4 DEF IsSuffix

\* A version ends in none of the engines' suffixes.
LEMMA VersionsEnd ==
  ASSUME NEW S, NEW s \in Seq(S), IsReleaseVersion(s), s # <<>>
  PROVE  s[Len(s)] \in Digits \cup {".", "-rc1"}
<1>1. CASE s[Len(s)] = "-rc1" BY <1>1
<1>2. CASE s[Len(s)] # "-rc1"
  <2>1. Range(s) \subseteq Digits \cup {"."} BY <1>2 DEF IsReleaseVersion, Last
  <2> QED BY <2>1 DEF Range
<1> QED BY <1>1, <1>2

LEMMA WithSuffix ==
  ASSUME NEW v \in Seq(STRING), NEW f \in Engines, f # "universal"
  PROVE  /\ v \o <<EngineToken(f)>> \in Seq(STRING)
         /\ v \o <<EngineToken(f)>> # <<>>
         /\ Len(v \o <<EngineToken(f)>>) = Len(v) + 1
         /\ (v \o <<EngineToken(f)>>)[Len(v) + 1] = EngineToken(f)
         /\ SubSeq(v \o <<EngineToken(f)>>, 1, Len(v)) = v
         /\ SubSeq(v \o <<EngineToken(f)>>, 1, Len(v) + 1) = v \o <<EngineToken(f)>>
BY ProvenanceAssumption

\* The label of a release version's build passes for that build's engine.
LEMMA LabelsPass ==
  ASSUME NEW v \in Seq(STRING), IsReleaseVersion(v), NEW e \in Engines
  PROVE  CheckImageEngine(v \o EngineTagSuffix(e), e)
<1> USE ProvenanceAssumption
<1>1. CASE e = "universal"
  <2>1. v \o <<>> = v /\ SubSeq(v, 1, Len(v) - Len(<<>>)) = v OBVIOUS
  <2> QED BY <1>1, <2>1, NoSuffix DEF CheckImageEngine, EngineTagSuffix
<1>2. CASE e # "universal"
  <2>1. /\ v \o <<EngineToken(e)>> \in Seq(STRING)
        /\ v \o <<EngineToken(e)>> # <<>>
        /\ Len(v \o <<EngineToken(e)>>) = Len(v) + 1
        /\ (v \o <<EngineToken(e)>>)[Len(v) + 1] = EngineToken(e)
        /\ SubSeq(v \o <<EngineToken(e)>>, 1, Len(v)) = v
    BY <1>2, WithSuffix
  <2>2. IsSuffix(<<EngineToken(e)>>, v \o <<EngineToken(e)>>) BY <1>2, <2>1, OneTokenSuffix
  <2>3. Len(v \o <<EngineToken(e)>>) - Len(<<EngineToken(e)>>) = Len(v) BY <2>1
  <2> QED BY <1>2, <2>1, <2>2, <2>3 DEF CheckImageEngine, EngineTagSuffix
<1> QED BY <1>1, <1>2

\* A label that passes names the build's engine, whatever the version is, unless
\* the version itself ends like an engine's suffix.
LEMMA LabelsNameTheEngine ==
  ASSUME NEW v \in Seq(STRING), NEW e \in Engines, NEW f \in Engines,
         CheckImageEngine(v \o EngineTagSuffix(f), e)
  PROVE  e = f \/ EndsAsAnEngine(v)
<1> USE ProvenanceAssumption
<1>1. CASE e = "universal" /\ f = "universal" BY <1>1
<1>2. CASE e # "universal" /\ f = "universal"
  <2>1. v \o <<>> = v OBVIOUS
  <2> QED BY <1>2, <2>1 DEF CheckImageEngine, EngineTagSuffix, EndsAsAnEngine
<1>3. CASE e = "universal" /\ f # "universal"
  <2> DEFINE s == v \o <<EngineToken(f)>>
  <2>1. ~IsReleaseVersion(s)
    <3>1. s \in Seq(STRING) /\ s # <<>> /\ s[Len(s)] = EngineToken(f) BY <1>3, WithSuffix
    <3>2. EngineToken(f) \notin Digits \cup {".", "-rc1"} BY <1>3
    <3> HIDE DEF s
    <3> QED BY <3>1, <3>2, VersionsEnd
  <2>2. Len(s) - Len(<<>>) = Len(v) + 1 BY <1>3, WithSuffix
  <2>3. SubSeq(s, 1, Len(s) - Len(<<>>)) = s BY <1>3, <2>2, WithSuffix
  <2> QED BY <1>3, <2>1, <2>3 DEF CheckImageEngine, EngineTagSuffix
<1>4. CASE e # "universal" /\ f # "universal"
  <2>1. /\ v \o <<EngineToken(f)>> \in Seq(STRING)
        /\ v \o <<EngineToken(f)>> # <<>>
        /\ Len(v \o <<EngineToken(f)>>) = Len(v) + 1
        /\ (v \o <<EngineToken(f)>>)[Len(v) + 1] = EngineToken(f)
        /\ SubSeq(v \o <<EngineToken(f)>>, 1, Len(v)) = v
    BY <1>4, WithSuffix
  <2>2. IsSuffix(<<EngineToken(e)>>, v \o <<EngineToken(f)>>) <=> EngineToken(f) = EngineToken(e)
    BY <1>4, <2>1, OneTokenSuffix
  <2> QED BY <1>4, <2>2 DEF CheckImageEngine, EngineTagSuffix
<1> QED BY <1>1, <1>2, <1>3, <1>4

LEMMA ImageParts ==
  ASSUME NEW image \in Images
  PROVE  /\ image.release \in Seq(STRING)
         /\ image.commit \in Seq(STRING) /\ image.engine \in Engines
BY ProvenanceAssumption DEF Images

LEMMA SuffixesAreTokens == ASSUME NEW e \in Engines PROVE EngineTagSuffix(e) \in Seq(STRING)
<1>1. <<>> \in Seq(STRING) OBVIOUS
<1>2. e # "universal" => <<EngineToken(e)>> \in Seq(STRING) BY OneToken, ProvenanceAssumption
<1> QED BY <1>1, <1>2 DEF EngineTagSuffix

LEMMA TagsAreTokens ==
  ASSUME NEW ref \in Refs, NEW e \in Engines
  PROVE  ImageTagFromRef(ref, e) \in Seq(STRING)
<1>1. ref.text \in Seq(STRING) BY ProvenanceAssumption
<1>2. <<"sha-">> \in Seq(STRING) BY OneToken, ProvenanceAssumption
<1>3. \A p \in Seq(STRING) : p \o ref.text \in Seq(STRING) BY <1>1
<1>4. (IF ref.kind = "sha" THEN <<"sha-">> \o ref.text ELSE ref.text) \in Seq(STRING)
  BY <1>1, <1>2, <1>3
<1> QED BY <1>4, SuffixesAreTokens DEF ImageTagFromRef

LEMMA LabelsAreTokens ==
  ASSUME NEW image \in Images PROVE LabelOf(image) \in Seq(STRING)
BY ImageParts, SuffixesAreTokens DEF LabelOf

\* What a certificate of the release workflow names is accepted exactly for the
\* images the pin stands for.
LEMMA PolicyMeans ==
  ASSUME NEW ref \in Refs, Verifiable(ref), NEW image \in Images, NEW bundle,
         bundle.san.kind = "tag", bundle.san.text = image.release, bundle.commit = image.commit
  PROVE  PolicyHolds(ref, bundle) <=> Accepts(ref, image)
<1> USE ProvenanceAssumption
<1>0. ref.text \in Seq(STRING) OBVIOUS
<1>1. image.release \in Seq(STRING) BY ImageParts
<1>4. "." \in STRING BY ProvenanceAssumption
<1>2. CASE ref.kind = "sha" BY <1>2 DEF PolicyHolds, SanMatches, Accepts
<1>3. CASE ref.kind = "tag"
  <2>1. Accepts(ref, image) <=>
          /\ IsPrefix(ref.text, image.release)
          /\ Len(image.release) > Len(ref.text) => image.release[Len(ref.text) + 1] = "."
    BY <1>0, <1>1, <1>3, <1>4, WholeParts DEF Accepts
  <2> QED BY <1>3, <2>1 DEF PolicyHolds, SanMatches
<1> QED BY <1>2, <1>3 DEF Verifiable

-----------------------------------------------------------------------------
(***************************************************************************)
(* The invariant                                                           *)
(***************************************************************************)
Bundles == [subject : Images, san : [kind : {"tag", "branch"}, text : Seq(STRING)],
            commit : Seq(STRING)]
Descriptors == [says : {"", "bundle", "empty"}, holds : {"", "bundle", "other"},
                bundle : Bundles \cup {NoBundle}]

Looking == {"referrers", "fallback", "scan", "bundle", "blob", "labels", "verify"}
Places == {"start", "token", "resolve", "verified", "started", "failed"} \cup Looking
Codes == {"", "UNVERIFIABLE_REF", "TOKEN_ERROR", "TRANSIENT", "NOT_FOUND", "VERIFY_FAILED"}

RegistryTypeOK ==
  /\ DOMAIN attached \subseteq Images
  /\ attached \in [DOMAIN attached -> Seq(Descriptors)]
  /\ tags \in [DOMAIN tags -> DOMAIN attached]
  /\ signed \subseteq Bundles
  /\ scheme \in {"referrers", "fallback"}

StepTypeOK ==
  step \in [ref : Refs, engine : Engines,
            at : Places,
            tag : Seq(STRING), digest : Images \cup {Missing}, ready : BOOLEAN,
            index : Seq(Descriptors), found : Descriptors, label : Seq(STRING),
            code : Codes, pulled : Images \cup {Missing}]

\* What may be attached to an image, by whomever.
Attachable(d) ==
  /\ d.bundle \in signed \cup {NoBundle}
  /\ d.says = "bundle" => d.holds = "bundle"
  /\ scheme = "referrers" /\ d.holds = "bundle" => d.says = "bundle"

RegistryOK ==
  \A image \in DOMAIN attached : \A i \in DOMAIN attached[image] : Attachable(attached[image][i])

\* What the step found was attached to the image its tag led to.
Found(d) == \E i \in DOMAIN attached[step.digest] : d = attached[step.digest][i]

FindingsOK ==
  /\ step.at \in Looking => step.digest \in DOMAIN attached
  /\ step.at = "scan" => \A i \in DOMAIN step.index : Found(step.index[i])
  /\ step.at \in {"bundle", "blob", "labels", "verify"} => Found(step.found)
  /\ step.at = "bundle" => step.found.says = "bundle"
  /\ step.at \in {"blob", "labels", "verify"} => step.found.holds = "bundle"
  /\ step.at = "verify" => step.label = LabelOf(step.digest)
  /\ step.at \notin {"start", "failed"} => Verifiable(step.ref)

\* What is verified is a signature on the digest itself.
VerifiedOK ==
  /\ step.at \in {"verified", "started"} =>
       \E b \in signed : /\ b.subject = step.digest
                         /\ PolicyHolds(step.ref, b)
                         /\ CheckImageEngine(LabelOf(step.digest), step.engine)
  /\ step.at = "started" => step.pulled = step.digest

\* An image noted as signed stays so.
ReadyOK ==
  /\ step.at \in {"start", "token", "resolve"} => ~step.ready
  /\ step.ready => /\ step.digest \in DOMAIN attached
                   /\ \E i \in DOMAIN attached[step.digest] :
                        attached[step.digest][i].holds = "bundle"

\* A step that nothing stands in the way of.
Unhindered ==
  /\ faults = {} /\ step.ready /\ IsReleaseVersion(step.digest.release)
  /\ Accepts(step.ref, step.digest) /\ step.digest.engine = step.engine
  /\ \A i \in DOMAIN attached[step.digest] :
       LET d == attached[step.digest][i] IN
       "bundle" \in {d.says, d.holds} => d.bundle.subject = step.digest /\ OfItsOwnTag(d.bundle)

UnhinderedOK ==
  Unhindered =>
    /\ step.at # "failed"
    /\ step.at = "fallback" => scheme = "fallback"
    /\ step.at = "scan" => \E i \in DOMAIN step.index : step.index[i].holds = "bundle"

OutagesAtEntries == \A f \in faults : f[2] = "outage" => f[1] = "entry"
CodeOK == step.at # "failed" \/ step.code = "NOT_FOUND" => OutagesAtEntries

IInv == /\ RegistryTypeOK /\ StepTypeOK
        /\ RegistryOK /\ FindingsOK /\ VerifiedOK /\ ReadyOK /\ UnhinderedOK /\ CodeOK

-----------------------------------------------------------------------------
(***************************************************************************)
(* The registry only grows                                                 *)
(***************************************************************************)
\* A descriptor put at either end of a sequence leaves the others in it.
LEMMA Longer ==
  ASSUME NEW S, NEW s \in Seq(S), NEW d \in S, NEW t, t = Append(s, d) \/ t = <<d>> \o s
  PROVE  /\ t \in Seq(S)
         /\ \A i \in DOMAIN t : t[i] = d \/ \E j \in DOMAIN s : t[i] = s[j]
         /\ \A j \in DOMAIN s : \E i \in DOMAIN t : t[i] = s[j]
<1>1. CASE t = Append(s, d)
  <2>1. /\ t \in Seq(S) /\ Len(t) = Len(s) + 1 /\ t[Len(s) + 1] = d
        /\ \A i \in 1..Len(s) : t[i] = s[i]
    BY <1>1, AppendProperties
  <2>2. Len(s) \in Nat /\ DOMAIN s = 1..Len(s) /\ DOMAIN t = 1..(Len(s) + 1) BY <2>1, LenProperties
  <2>3. \A i \in DOMAIN t : i = Len(s) + 1 \/ i \in DOMAIN s BY <2>2
  <2>4. \A j \in DOMAIN s : j \in DOMAIN t BY <2>2
  <2> QED BY <2>1, <2>2, <2>3, <2>4, Zenon
<1>2. CASE t = <<d>> \o s
  <2>1. /\ t \in Seq(S) /\ Len(t) = Len(s) + 1 /\ t[1] = d
        /\ \A i \in 1..Len(s) : t[i + 1] = s[i]
    BY <1>2
  <2>2. \A i \in DOMAIN t : i # 1 => i - 1 \in DOMAIN s /\ t[i] = s[i - 1]
    <3>1. Len(s) \in Nat /\ DOMAIN s = 1..Len(s) /\ DOMAIN t = 1..(Len(s) + 1) BY <2>1, LenProperties
    <3>2. ASSUME NEW i \in DOMAIN t, i # 1 PROVE i - 1 \in 1..Len(s) /\ (i - 1) + 1 = i BY <3>1, <3>2
    <3> QED BY <2>1, <3>1, <3>2
  <2>3. \A j \in DOMAIN s : j + 1 \in DOMAIN t /\ t[j + 1] = s[j] BY <2>1
  <2> QED BY <2>1, <2>2, <2>3
<1> QED BY <1>1, <1>2

\* Nothing is detached, and no signature is taken back.
Grows ==
  /\ DOMAIN attached \subseteq DOMAIN attached'
  /\ signed \subseteq signed'
  /\ \A image \in DOMAIN attached : \A i \in DOMAIN attached[image] :
       \E j \in DOMAIN attached'[image] : attached'[image][j] = attached[image][i]

\* One more descriptor on an image.
LEMMA AttachOne ==
  ASSUME RegistryTypeOK, RegistryOK, NEW image \in DOMAIN attached, NEW d \in Descriptors, NEW t,
         t = Append(attached[image], d) \/ t = <<d>> \o attached[image],
         attached' = [attached EXCEPT ![image] = t],
         signed \subseteq signed', signed' \subseteq Bundles,
         Attachable(d)', UNCHANGED <<tags, scheme>>
  PROVE  RegistryTypeOK' /\ RegistryOK' /\ Grows
<1>1. attached[image] \in Seq(Descriptors) BY DEF RegistryTypeOK
<1>2. /\ t \in Seq(Descriptors)
      /\ \A i \in DOMAIN t : t[i] = d \/ \E j \in DOMAIN attached[image] : t[i] = attached[image][j]
      /\ \A j \in DOMAIN attached[image] : \E i \in DOMAIN t : t[i] = attached[image][j]
  BY <1>1, Longer
<1>3. /\ DOMAIN attached' = DOMAIN attached
      /\ attached'[image] = t
      /\ \A k \in DOMAIN attached : k # image => attached'[k] = attached[k]
  OBVIOUS
<1>4. attached' \in [DOMAIN attached -> Seq(Descriptors)] BY <1>2 DEF RegistryTypeOK
<1>5. RegistryTypeOK' BY <1>3, <1>4 DEF RegistryTypeOK
<1>6. Grows BY <1>2, <1>3 DEF Grows
<1>7. \A c : Attachable(c) => Attachable(c)' BY DEF Attachable
<1>8. \A k \in DOMAIN attached' : \A i \in DOMAIN attached'[k] :
        \E c : c = attached'[k][i] /\ Attachable(c)'
  <2> TAKE k \in DOMAIN attached'
  <2>0. k \in DOMAIN attached /\ \A i \in DOMAIN attached[k] : Attachable(attached[k][i])
    BY <1>3 DEF RegistryOK
  <2>1. CASE k = image
    <3>1. \A i \in DOMAIN t : t[i] = d \/ Attachable(t[i]) BY <1>2, <2>0, <2>1
    <3> QED BY <1>3, <1>7, <2>1, <3>1
  <2>2. CASE k # image BY <1>3, <1>7, <2>0, <2>2
  <2> QED BY <2>1, <2>2
<1>9. RegistryOK' BY <1>8 DEF RegistryOK, Attachable
<1> QED BY <1>5, <1>6, <1>9

\* Tags that lead to pushed images keep the rest as it is.
LEMMA MoveTags ==
  ASSUME RegistryTypeOK, RegistryOK, UNCHANGED <<attached, signed, scheme>>,
         tags' \in [DOMAIN tags' -> DOMAIN attached]
  PROVE  RegistryTypeOK' /\ RegistryOK' /\ Grows
BY DEF RegistryTypeOK, RegistryOK, Attachable, Grows

\* Whatever the writers do, the registry keeps its shape and what it held.
LEMMA WritersGrow ==
  ASSUME RegistryTypeOK, RegistryOK, Writers
  PROVE  /\ RegistryTypeOK' /\ RegistryOK' /\ Grows
         /\ UNCHANGED <<scheme, faults, step>> /\ ~Over
<1> USE ProvenanceAssumption
<1>1. ASSUME NEW r \in Releases, MoveSeriesTag(r)
      PROVE  RegistryTypeOK' /\ RegistryOK' /\ Grows /\ UNCHANGED <<scheme, faults, step>> /\ ~Over
  <2>1. UNCHANGED <<attached, signed, scheme, faults, step>> /\ ~Over
    BY <1>1 DEF MoveSeriesTag, Write
  <2>2. tags' \in [DOMAIN tags' -> DOMAIN attached] BY <1>1 DEF MoveSeriesTag, RegistryTypeOK
  <2> QED BY <2>1, <2>2, MoveTags
<1>2. ASSUME NEW r \in Releases, NEW e \in Engines, Push(r, e)
      PROVE  RegistryTypeOK' /\ RegistryOK' /\ Grows /\ UNCHANGED <<scheme, faults, step>> /\ ~Over
  <2>1. UNCHANGED <<signed, scheme, faults, step>> /\ ~Over BY <1>2 DEF Push, Write
  <2>2. PICK build \in 1..MaxBuilds :
          LET image == ImageOf(r, e, build) IN
          /\ image \notin DOMAIN attached
          /\ tags' = [t \in DOMAIN tags \cup {VersionTag(r, e), CommitTag(r, e)} |->
                        IF t \in {VersionTag(r, e), CommitTag(r, e)} THEN image ELSE tags[t]]
          /\ attached' = [i \in DOMAIN attached \cup {image} |->
                            IF i = image THEN <<>> ELSE attached[i]]
    BY <1>2 DEF Push
  <2> DEFINE image == ImageOf(r, e, build)
  <2>3. image \in Images BY DEF ImageOf, Images
  <2>4. <<>> \in Seq(Descriptors) /\ DOMAIN <<>> = {} BY EmptySeq
  <2> HIDE DEF image
  <2>5. /\ DOMAIN attached' = DOMAIN attached \cup {image}
        /\ attached'[image] = <<>>
        /\ \A k \in DOMAIN attached : attached'[k] = attached[k]
        /\ attached' \in [DOMAIN attached' -> Seq(Descriptors)]
    BY <2>2, <2>4 DEF RegistryTypeOK, image
  <2>6. tags' \in [DOMAIN tags' -> DOMAIN attached'] BY <2>2, <2>5 DEF RegistryTypeOK, image
  <2>7. RegistryTypeOK' BY <2>1, <2>3, <2>5, <2>6 DEF RegistryTypeOK
  <2>8. Grows BY <2>1, <2>5 DEF Grows
  <2>9. RegistryOK' BY <2>1, <2>4, <2>5 DEF RegistryOK, Attachable
  <2> QED BY <2>1, <2>7, <2>8, <2>9
<1>3. ASSUME NEW image \in DOMAIN attached, Sign(image)
      PROVE  RegistryTypeOK' /\ RegistryOK' /\ Grows /\ UNCHANGED <<scheme, faults, step>> /\ ~Over
  <2>1. UNCHANGED <<tags, scheme, faults, step>> /\ ~Over BY <1>3 DEF Sign, Write
  <2> DEFINE runs == {Bundle(image, [kind |-> "tag", text |-> r.text], r.commit) : r \in Releases}
                       \cup {Bundle(image, [kind |-> "branch", text |-> <<"main">>], <<"m">>)}
  <2>2. PICK run \in runs, says \in IF scheme = "referrers" THEN {"bundle"} ELSE {"bundle", "empty"} :
          /\ signed' = signed \cup {run}
          /\ attached' = [attached EXCEPT ![image] = Append(@, Descriptor(says, "bundle", run))]
    BY <1>3 DEF Sign
  <2>3. image \in Images BY DEF RegistryTypeOK
  <2>4. <<"main">> \in Seq(STRING) /\ <<"m">> \in Seq(STRING)
    <3>1. "main" \in STRING /\ "m" \in STRING BY ProvenanceAssumption
    <3> QED BY <3>1, OneToken
  <2>5. run \in Bundles
    <3>1. CASE \E r \in Releases : run = Bundle(image, [kind |-> "tag", text |-> r.text], r.commit)
      BY <2>3, <3>1 DEF Bundle, Bundles
    <3>2. CASE run = Bundle(image, [kind |-> "branch", text |-> <<"main">>], <<"m">>)
      BY <2>3, <2>4, <3>2 DEF Bundle, Bundles
    <3> QED BY <2>2, <3>1, <3>2
  <2> HIDE DEF runs
  <2> DEFINE d == Descriptor(says, "bundle", run)
  <2>6. d \in Descriptors BY <2>5 DEF Descriptor, Descriptors
  <2>7. says = "bundle" \/ scheme # "referrers" BY <2>2
  <2>8. Attachable(d)' BY <2>1, <2>2, <2>7 DEF Attachable, Descriptor
  <2> HIDE DEF d
  <2>9. attached' = [attached EXCEPT ![image] = Append(attached[image], d)] BY <2>2 DEF d
  <2>10. signed \subseteq signed' /\ signed' \subseteq Bundles BY <2>2, <2>5 DEF RegistryTypeOK
  <2> QED BY <2>1, <2>6, <2>8, <2>9, <2>10, AttachOne
<1>4. ASSUME Repoint
      PROVE  RegistryTypeOK' /\ RegistryOK' /\ Grows /\ UNCHANGED <<scheme, faults, step>> /\ ~Over
  <2>1. UNCHANGED <<attached, signed, scheme, faults, step>> /\ ~Over BY <1>4 DEF Repoint, Write
  <2>2. tags' \in [DOMAIN tags' -> DOMAIN attached] BY <1>4 DEF Repoint, RegistryTypeOK
  <2> QED BY <2>1, <2>2, MoveTags
<1>5. ASSUME Attach
      PROVE  RegistryTypeOK' /\ RegistryOK' /\ Grows /\ UNCHANGED <<scheme, faults, step>> /\ ~Over
  <2>1. UNCHANGED <<tags, signed, scheme, faults, step>> /\ ~Over BY <1>5 DEF Attach, Write
  <2>2. PICK image \in DOMAIN attached, front \in BOOLEAN,
             d \in {Descriptor("empty", "other", NoBundle)}
                     \cup {Descriptor("bundle", "bundle", b) : b \in signed} :
          attached' = [attached EXCEPT ![image] = IF front THEN <<d>> \o @ ELSE Append(@, d)]
    BY <1>5 DEF Attach
  <2>3. d \in Descriptors /\ Attachable(d)'
    <3>1. CASE d = Descriptor("empty", "other", NoBundle)
      BY <2>1, <3>1 DEF Descriptor, Descriptors, Attachable
    <3>2. CASE d # Descriptor("empty", "other", NoBundle)
      <4>1. PICK b \in signed : d = Descriptor("bundle", "bundle", b) BY <2>2, <3>2
      <4>2. b \in Bundles BY DEF RegistryTypeOK
      <4> QED BY <2>1, <4>1, <4>2 DEF Descriptor, Descriptors, Attachable
    <3> QED BY <3>1, <3>2
  <2> DEFINE t == IF front THEN <<d>> \o attached[image] ELSE Append(attached[image], d)
  <2>4. attached' = [attached EXCEPT ![image] = t] BY <2>2
  <2>5. t = Append(attached[image], d) \/ t = <<d>> \o attached[image] OBVIOUS
  <2>6. signed \subseteq signed' /\ signed' \subseteq Bundles BY <2>1 DEF RegistryTypeOK
  <2> HIDE DEF t
  <2> QED BY <2>1, <2>3, <2>4, <2>5, <2>6, AttachOne
<1> QED BY <1>1, <1>2, <1>3, <1>4, <1>5 DEF Writers

-----------------------------------------------------------------------------
(***************************************************************************)
(* The step                                                                *)
(***************************************************************************)
LEMMA StepLeavesRegistry == ASSUME Step PROVE UNCHANGED Registry
BY DEF Step, BuildVerifyOptions, FetchRegistryToken, FetchManifestDigest, BundleFromReferrers,
       BundleFromFallbackTag, ScanFallbackIndex, BundleFromManifest, BundleBlob,
       FetchImageConfigLabels, VerifyBundle, Pull

\* Only the honest answer is "ok", and none else leaves `faults` empty.
LEMMA Response ==
  ASSUME NEW request, NEW honest, NEW status, Responds(request, honest, status)
  PROVE  /\ status = "ok" => honest = "ok"
         /\ faults' = {} => faults = {} /\ status = honest
         /\ OutagesAtEntries /\ (status = "outage" => honest = "outage" \/ request = "entry")
              => OutagesAtEntries'
<1>1. CASE status = honest /\ UNCHANGED faults BY <1>1 DEF OutagesAtEntries
<1>2. CASE status \in Failures \ {honest} /\ faults' = faults \cup {<<request, status>>}
  <2>1. status # "ok" /\ faults' # {} BY <1>2 DEF Failures
  <2>2. ASSUME OutagesAtEntries, status = "outage" => honest = "outage" \/ request = "entry"
        PROVE  OutagesAtEntries'
    <3> DEFINE new == <<request, status>>
    <3>1. new[1] = request /\ new[2] = status OBVIOUS
    <3> HIDE DEF new
    <3>2. faults' = faults \cup {new} BY <1>2 DEF new
    <3> QED BY <1>2, <2>2, <3>1, <3>2 DEF OutagesAtEntries
  <2> QED BY <2>1, <2>2
<1> QED BY <1>1, <1>2 DEF Responds

LEMMA Moves ==
  ASSUME StepTypeOK
  PROVE  /\ \A place : Go(place) =>
              /\ step'.at = place
              /\ step'.ref = step.ref /\ step'.engine = step.engine /\ step'.digest = step.digest
              /\ step'.ready = step.ready /\ step'.index = step.index /\ step'.found = step.found
              /\ step'.label = step.label /\ step'.code = step.code /\ step'.pulled = step.pulled
         /\ \A code : Fail(code) =>
              /\ step'.at = "failed" /\ step'.code = code
              /\ step'.ref = step.ref /\ step'.engine = step.engine /\ step'.digest = step.digest
              /\ step'.ready = step.ready
BY DEF StepTypeOK, Go, Fail

LEMMA MovesTyped ==
  ASSUME StepTypeOK
  PROVE  /\ \A place \in Places : Go(place) => StepTypeOK'
         /\ \A code \in Codes : Fail(code) => StepTypeOK'
BY DEF StepTypeOK, Go, Fail, Places

LEMMA Laddered == \A status, code : Ladder(status, code) \in {"TRANSIENT", code}
BY DEF Ladder

LEMMA WhatIsAttached ==
  ASSUME RegistryTypeOK
  PROVE  /\ \A image \in DOMAIN attached : \A i \in DOMAIN attached[image] :
              attached[image][i] \in Descriptors
         /\ DOMAIN <<>> = {}
<1>1. <<>> \in Seq({}) /\ Len(<<>>) = 0 BY EmptySeq
<1>2. \A image \in DOMAIN attached : attached[image] \in Seq(Descriptors) BY DEF RegistryTypeOK
<1>3. \A s \in Seq(Descriptors) : \A i \in DOMAIN s : s[i] \in Descriptors
  BY ElementOfSeq
<1> QED BY <1>1, <1>2, <1>3

LEMMA StepTypes ==
  ASSUME RegistryTypeOK, StepTypeOK, FindingsOK, Step PROVE StepTypeOK'
<1> USE MovesTyped, Laddered DEF Places, Looking, Codes
<1>1. CASE BuildVerifyOptions
  <2>1. step.ref \in Refs /\ step.engine \in Engines BY DEF StepTypeOK
  <2>2. ImageTagFromRef(step.ref, step.engine) \in Seq(STRING) BY <2>1, TagsAreTokens
  <2> QED BY <1>1, <2>2 DEF BuildVerifyOptions, StepTypeOK
<1>2. CASE FetchRegistryToken BY <1>2 DEF FetchRegistryToken
<1>3. CASE FetchManifestDigest
  <2>1. Lookup(step.tag) \in Images \cup {Missing} BY DEF Lookup, RegistryTypeOK
  <2>2. ASSUME NEW ready \in BOOLEAN, NEW digest \in Images \cup {Missing},
               step' = [step EXCEPT !.at = "referrers", !.digest = digest, !.ready = ready]
        PROVE  StepTypeOK'
    BY <2>2 DEF StepTypeOK
  <2> QED BY <1>3, <2>1, <2>2 DEF FetchManifestDigest
<1>4. CASE BundleFromReferrers
  <2>1. ASSUME NEW d \in Descriptors, step' = [step EXCEPT !.at = "bundle", !.found = d]
        PROVE  StepTypeOK'
    BY <2>1 DEF StepTypeOK
  <2>2. step.digest \in DOMAIN attached BY <1>4 DEF BundleFromReferrers, At, FindingsOK
  <2>3. \A i \in DOMAIN attached[step.digest] : attached[step.digest][i] \in Descriptors
    BY <2>2, WhatIsAttached
  <2>4. DOMAIN <<>> = {} BY WhatIsAttached
  <2>5. CASE Go("fallback") BY <2>5
  <2>6. CASE Fail("TRANSIENT") BY <2>6
  <2>7. CASE \E i \in DOMAIN attached[step.digest] :
               step' = [step EXCEPT !.at = "bundle", !.found = attached[step.digest][i]]
    BY <2>1, <2>3, <2>7
  <2> QED BY <1>4, <2>4, <2>5, <2>6, <2>7 DEF BundleFromReferrers
<1>5. CASE BundleFromFallbackTag
  <2>1. ASSUME NEW index \in Seq(Descriptors), step' = [step EXCEPT !.at = "scan", !.index = index]
        PROVE  StepTypeOK'
    BY <2>1 DEF StepTypeOK
  <2>2. step.digest \in DOMAIN attached BY <1>5 DEF BundleFromFallbackTag, At, FindingsOK
  <2>3. attached[step.digest] \in Seq(Descriptors) BY <2>2 DEF RegistryTypeOK
  <2> QED BY <1>5, <2>1, <2>3 DEF BundleFromFallbackTag
<1>6. CASE ScanFallbackIndex
  <2>1. ASSUME NEW d \in Descriptors, NEW place \in {"bundle", "blob"},
               step' = [step EXCEPT !.at = place, !.found = d]
        PROVE  StepTypeOK'
    BY <2>1 DEF StepTypeOK
  <2>2. ASSUME NEW index \in Seq(Descriptors), step' = [step EXCEPT !.index = index]
        PROVE  StepTypeOK'
    BY <2>2 DEF StepTypeOK
  <2>3. step.index \in Seq(Descriptors) BY DEF StepTypeOK
  <2>4. step.index # <<>> =>
          Head(step.index) \in Descriptors /\ Tail(step.index) \in Seq(Descriptors)
    BY <2>3, HeadTailProperties
  <2> QED BY <1>6, <2>1, <2>2, <2>4 DEF ScanFallbackIndex
<1>7. CASE BundleFromManifest BY <1>7 DEF BundleFromManifest
<1>8. CASE BundleBlob BY <1>8 DEF BundleBlob
<1>9. CASE FetchImageConfigLabels
  <2>1. ASSUME NEW label \in Seq(STRING), step' = [step EXCEPT !.at = "verify", !.label = label]
        PROVE  StepTypeOK'
    BY <2>1 DEF StepTypeOK
  <2>2. step.digest \in Images BY <1>9 DEF FetchImageConfigLabels, At, FindingsOK, RegistryTypeOK
  <2>3. LabelOf(step.digest) \in Seq(STRING) BY <2>2, LabelsAreTokens
  <2> QED BY <1>9, <2>1, <2>3 DEF FetchImageConfigLabels
<1>10. CASE VerifyBundle BY <1>10 DEF VerifyBundle
<1>11. CASE Pull
  <2> QED BY <1>11 DEF Pull, ImageRef, StepTypeOK
<1> QED BY <1>1, <1>2, <1>3, <1>4, <1>5, <1>6, <1>7, <1>8, <1>9, <1>10, <1>11 DEF Step

-----------------------------------------------------------------------------
(***************************************************************************)
(* What each request does, field by field                                  *)
(***************************************************************************)
Kept == /\ step'.ref = step.ref /\ step'.engine = step.engine
        /\ step'.digest = step.digest /\ step'.ready = step.ready

\* An outage elsewhere than at an entry stops the step, and not as NOT_FOUND.
Noticed ==
  OutagesAtEntries /\ (step'.at # "failed" \/ step'.code = "NOT_FOUND") => OutagesAtEntries'

LEMMA NoResponse == UNCHANGED faults /\ OutagesAtEntries => OutagesAtEntries'
BY DEF OutagesAtEntries

LEMMA DoesBuildVerifyOptions ==
  ASSUME RegistryTypeOK, StepTypeOK, BuildVerifyOptions
  PROVE  /\ step.at = "start" /\ Noticed
         /\ Kept /\ UNCHANGED faults /\ step'.at \in {"token", "failed"}
         /\ step'.at = "token" => Verifiable(step.ref)
<1>1. ASSUME NEW tag, step' = [step EXCEPT !.at = "token", !.tag = tag]
      PROVE  step'.at = "token" /\ Kept
  BY <1>1 DEF StepTypeOK, Kept
<1> QED BY <1>1, Moves, Response, NoResponse
        DEF BuildVerifyOptions, At, Kept, Noticed, Failures, Ladder

LEMMA DoesFetchRegistryToken ==
  ASSUME RegistryTypeOK, StepTypeOK, FetchRegistryToken
  PROVE  /\ step.at = "token" /\ Noticed
         /\ Kept /\ step'.at \in {"resolve", "failed"}
         /\ faults' = {} => faults = {} /\ step'.at = "resolve"
BY Moves, Response, NoResponse DEF FetchRegistryToken, At, Kept, Noticed, Failures, Ladder

LEMMA DoesFetchManifestDigest ==
  ASSUME RegistryTypeOK, StepTypeOK, FetchManifestDigest
  PROVE  /\ step.at = "resolve" /\ Noticed
         /\ step'.ref = step.ref /\ step'.engine = step.engine
         /\ \/ step'.at = "failed" /\ Kept
            \/ /\ step'.at = "referrers" /\ step'.digest \in DOMAIN attached
               /\ step'.ready => \E i \in DOMAIN attached[step'.digest] :
                                   attached[step'.digest][i].holds = "bundle"
         /\ faults' = {} => faults = {}
<1> DEFINE image == Lookup(step.tag)
           noted == \E i \in DOMAIN attached[image] : attached[image][i].holds = "bundle"
<1>1. ASSUME NEW digest, NEW ready,
             step' = [step EXCEPT !.at = "referrers", !.digest = digest, !.ready = ready]
      PROVE  /\ step'.at = "referrers" /\ step'.digest = digest /\ step'.ready = ready
             /\ step'.ref = step.ref /\ step'.engine = step.engine
  BY <1>1 DEF StepTypeOK
<1>2. PICK status \in Failures \cup {"ok"} :
        /\ Responds("manifest", IF image = Missing THEN "gone" ELSE "ok", status)
        /\ \/ /\ status = "ok"
              /\ step' = [step EXCEPT !.at = "referrers", !.digest = image, !.ready = noted]
           \/ status # "ok" /\ \E code : Fail(code) /\ (code = "NOT_FOUND" => status = "gone")
  BY DEF FetchManifestDigest, Ladder, Failures
<1>3. step.at = "resolve" BY DEF FetchManifestDigest, At
<1>4. CASE status = "ok"
  <2>1. image # Missing BY <1>2, <1>4, Response
  <2>2. image \in DOMAIN attached BY <2>1 DEF Lookup, RegistryTypeOK
  <2> HIDE DEF image
  <2>3. Noticed BY <1>2, <1>4, Response DEF Noticed
  <2>4. /\ step'.at = "referrers" /\ step'.digest = image /\ step'.ready = noted
        /\ step'.ref = step.ref /\ step'.engine = step.engine
    BY <1>1, <1>2, <1>4
  <2> QED BY <1>2, <1>3, <2>2, <2>3, <2>4, Response
<1>5. CASE status # "ok"
  <2>1. PICK code : Fail(code) /\ (code = "NOT_FOUND" => status = "gone") BY <1>2, <1>5
  <2>2. step'.at = "failed" /\ step'.code = code /\ Kept BY <2>1, Moves DEF Kept
  <2>3. Noticed BY <1>2, <1>5, <2>1, <2>2, Response DEF Noticed
  <2> QED BY <1>2, <1>3, <1>5, <2>2, <2>3, Response DEF Kept
<1> QED BY <1>4, <1>5

LEMMA DoesBundleFromReferrers ==
  ASSUME RegistryTypeOK, StepTypeOK, BundleFromReferrers
  PROVE  /\ step.at = "referrers" /\ Noticed
         /\ Kept /\ step'.at \in {"fallback", "bundle", "failed"}
         /\ step'.at = "bundle" =>
              /\ \E i \in DOMAIN attached[step.digest] : step'.found = attached[step.digest][i]
              /\ step'.found.says = "bundle"
         /\ faults' = {} =>
              /\ faults = {} /\ step'.at # "failed"
              /\ step'.at = "fallback" /\ scheme # "fallback" =>
                   \A i \in DOMAIN attached[step.digest] : attached[step.digest][i].says # "bundle"
<1> DEFINE listed == IF scheme = "referrers" THEN attached[step.digest] ELSE <<>>
<1>1. ASSUME NEW d, step' = [step EXCEPT !.at = "bundle", !.found = d]
      PROVE  step'.at = "bundle" /\ step'.found = d /\ Kept
  BY <1>1 DEF StepTypeOK, Kept
<1>2. PICK status \in Failures \cup {"ok"} :
        /\ \/ Responds("referrers", "ok", status)
           \/ scheme = "fallback" /\ status = "gone" /\ UNCHANGED faults
        /\ \/ status = "outage" /\ Fail("TRANSIENT")
           \/ /\ status = "ok"
              /\ \E i \in DOMAIN listed :
                   /\ SaysBundleFirst(listed, i)
                   /\ step' = [step EXCEPT !.at = "bundle", !.found = listed[i]]
           \/ /\ status # "outage"
              /\ status = "ok" => \A i \in DOMAIN listed : listed[i].says # "bundle"
              /\ Go("fallback")
  BY DEF BundleFromReferrers
<1>3. step.at = "referrers" BY DEF BundleFromReferrers, At
<1>4. OutagesAtEntries /\ status # "outage" => OutagesAtEntries' BY <1>2, Response, NoResponse
<1>5. faults' = {} => faults = {} /\ (status = "ok" \/ (scheme = "fallback" /\ status = "gone"))
  <2>1. CASE Responds("referrers", "ok", status)
    <3>1. faults' = {} => faults = {} /\ status = "ok" BY <2>1, Response
    <3> QED BY <3>1
  <2>2. CASE scheme = "fallback" /\ status = "gone" /\ UNCHANGED faults BY <2>2
  <2> QED BY <1>2, <2>1, <2>2
<1>6. scheme \in {"referrers", "fallback"} BY DEF RegistryTypeOK
<1>7. CASE status = "outage" /\ Fail("TRANSIENT")
  <2>1. step'.at = "failed" /\ step'.code = "TRANSIENT" /\ Kept BY <1>7, Moves DEF Kept
  <2> QED BY <1>3, <1>5, <1>7, <2>1 DEF Noticed
<1>8. CASE /\ status = "ok"
           /\ \E i \in DOMAIN listed :
                /\ SaysBundleFirst(listed, i)
                /\ step' = [step EXCEPT !.at = "bundle", !.found = listed[i]]
  <2>1. PICK i \in DOMAIN listed :
               /\ SaysBundleFirst(listed, i)
               /\ step' = [step EXCEPT !.at = "bundle", !.found = listed[i]]
    BY <1>8
  <2>2. DOMAIN <<>> = {} BY WhatIsAttached
  <2>3. i \in DOMAIN attached[step.digest] /\ listed[i] = attached[step.digest][i] BY <2>1, <2>2
  <2>4. step'.at = "bundle" /\ step'.found = listed[i] /\ Kept BY <1>1, <2>1
  <2>5. listed[i].says = "bundle" BY <2>1 DEF SaysBundleFirst
  <2> QED BY <1>3, <1>4, <1>5, <1>8, <2>3, <2>4, <2>5 DEF Noticed
<1>9. CASE /\ status # "outage"
           /\ status = "ok" => \A i \in DOMAIN listed : listed[i].says # "bundle"
           /\ Go("fallback")
  <2>1. step'.at = "fallback" /\ Kept BY <1>9, Moves DEF Kept
  <2> QED BY <1>3, <1>4, <1>5, <1>6, <1>9, <2>1 DEF Noticed
<1> QED BY <1>2, <1>7, <1>8, <1>9

LEMMA DoesBundleFromFallbackTag ==
  ASSUME RegistryTypeOK, StepTypeOK, BundleFromFallbackTag
  PROVE  /\ step.at = "fallback" /\ Noticed
         /\ Kept /\ step'.at \in {"scan", "failed"}
         /\ step'.at = "scan" => step'.index = attached[step.digest]
         /\ faults' = {} =>
              /\ faults = {}
              /\ scheme = "fallback" /\ attached[step.digest] # <<>> => step'.at = "scan"
<1>1. ASSUME NEW index, step' = [step EXCEPT !.at = "scan", !.index = index]
      PROVE  step'.at = "scan" /\ step'.index = index /\ Kept
  BY <1>1 DEF StepTypeOK, Kept
<1>2. PICK status \in Failures \cup {"ok"} :
        /\ Responds("fallback",
                    IF scheme = "fallback" /\ attached[step.digest] # <<>> THEN "ok" ELSE "gone", status)
        /\ \/ status = "ok" /\ step' = [step EXCEPT !.at = "scan", !.index = attached[step.digest]]
           \/ status # "ok" /\ \E code : Fail(code) /\ (code = "NOT_FOUND" => status # "outage")
  BY DEF BundleFromFallbackTag, Ladder, Failures
<1>3. step.at = "fallback" BY DEF BundleFromFallbackTag, At
<1>4. CASE status = "ok"
  <2>1. Noticed BY <1>2, <1>4, Response DEF Noticed
  <2> QED BY <1>1, <1>2, <1>3, <1>4, <2>1, Response
<1>5. CASE status # "ok"
  <2>1. PICK code : Fail(code) /\ (code = "NOT_FOUND" => status # "outage") BY <1>2, <1>5
  <2>2. step'.at = "failed" /\ step'.code = code /\ Kept BY <2>1, Moves DEF Kept
  <2>3. Noticed BY <1>2, <1>5, <2>1, <2>2, Response DEF Noticed
  <2> QED BY <1>2, <1>3, <1>5, <2>2, <2>3, Response
<1> QED BY <1>4, <1>5

LEMMA DoesScanFallbackIndex ==
  ASSUME RegistryTypeOK, StepTypeOK, ScanFallbackIndex
  PROVE  /\ step.at = "scan" /\ Noticed
         /\ Kept
         /\ \/ step'.at = "failed" /\ (step.index = <<>> \/ faults' # {})
            \/ /\ step'.at = "bundle" /\ step.index # <<>>
               /\ step'.found = Head(step.index) /\ step'.found.says = "bundle"
            \/ /\ step'.at = "blob" /\ step.index # <<>>
               /\ step'.found = Head(step.index) /\ step'.found.holds = "bundle"
            \/ /\ step'.at = "scan" /\ step.index # <<>> /\ step'.index = Tail(step.index)
               /\ faults' = {} => Head(step.index).holds # "bundle"
         /\ faults' = {} => faults = {}
<1>1. ASSUME NEW place, NEW d, step' = [step EXCEPT !.at = place, !.found = d]
      PROVE  step'.at = place /\ step'.found = d /\ Kept
  BY <1>1 DEF StepTypeOK, Kept
<1>2. ASSUME NEW index, step' = [step EXCEPT !.index = index]
      PROVE  step'.at = step.at /\ step'.index = index /\ Kept
  BY <1>2 DEF StepTypeOK, Kept
<1>3. step.at = "scan" BY DEF ScanFallbackIndex, At
<1>4. CASE step.index = <<>>
  <2>1. Fail("NOT_FOUND") /\ UNCHANGED faults BY <1>4 DEF ScanFallbackIndex
  <2>2. step'.at = "failed" /\ Kept BY <2>1, Moves DEF Kept
  <2> QED BY <1>3, <1>4, <2>1, <2>2, NoResponse DEF Noticed
<1>5. CASE step.index # <<>> /\ Head(step.index).says = "bundle"
  <2>1. step' = [step EXCEPT !.at = "bundle", !.found = Head(step.index)] /\ UNCHANGED faults
    BY <1>5 DEF ScanFallbackIndex
  <2>2. step'.at = "bundle" /\ step'.found = Head(step.index) /\ Kept BY <1>1, <2>1
  <2> QED BY <1>3, <1>5, <2>1, <2>2, NoResponse DEF Noticed
<1>6. CASE step.index # <<>> /\ Head(step.index).says # "bundle"
  <2>1. PICK status \in Failures \cup {"ok"} :
          /\ Responds("entry", "ok", status)
          /\ \/ status = "outage" /\ Fail("TRANSIENT")
             \/ step' = IF status = "ok" /\ Head(step.index).holds = "bundle"
                        THEN [step EXCEPT !.at = "blob", !.found = Head(step.index)]
                        ELSE [step EXCEPT !.index = Tail(step.index)]
    BY <1>6 DEF ScanFallbackIndex
  <2>2. Noticed BY <2>1, Response DEF Noticed
  <2>3. faults' = {} => faults = {} /\ status = "ok" BY <2>1, Response
  <2>6. CASE status = "outage" /\ Fail("TRANSIENT")
    <3>1. step'.at = "failed" /\ Kept BY <2>6, Moves DEF Kept
    <3>2. faults' # {} BY <2>3, <2>6
    <3> QED BY <1>3, <2>2, <2>3, <3>1, <3>2
  <2>4. CASE ~(status = "outage" /\ Fail("TRANSIENT")) /\ status = "ok" /\ Head(step.index).holds = "bundle"
    <3>1. step'.at = "blob" /\ step'.found = Head(step.index) /\ Kept BY <1>1, <2>1, <2>4
    <3> QED BY <1>3, <1>6, <2>2, <2>3, <2>4, <3>1
  <2>5. CASE ~(status = "outage" /\ Fail("TRANSIENT")) /\ ~(status = "ok" /\ Head(step.index).holds = "bundle")
    <3>1. step'.at = "scan" /\ step'.index = Tail(step.index) /\ Kept BY <1>2, <1>3, <2>1, <2>5
    <3> QED BY <1>3, <1>6, <2>2, <2>3, <2>5, <3>1
  <2> QED BY <2>4, <2>5, <2>6
<1> QED BY <1>4, <1>5, <1>6

LEMMA DoesBundleFromManifest ==
  ASSUME RegistryTypeOK, StepTypeOK, BundleFromManifest
  PROVE  /\ step.at = "bundle" /\ Noticed
         /\ Kept /\ step'.at \in {"blob", "failed"}
         /\ step'.at = "blob" => step.found.holds = "bundle" /\ step'.found = step.found
         /\ faults' = {} => faults = {} /\ (step.found.holds = "bundle" => step'.at = "blob")
BY Moves, Response, NoResponse DEF BundleFromManifest, At, Kept, Noticed, Failures, Ladder

LEMMA DoesBundleBlob ==
  ASSUME RegistryTypeOK, StepTypeOK, BundleBlob
  PROVE  /\ step.at = "blob" /\ Noticed
         /\ Kept /\ step'.at \in {"labels", "failed"}
         /\ step'.at = "labels" => step'.found = step.found
         /\ faults' = {} => faults = {} /\ step'.at = "labels"
BY Moves, Response, NoResponse DEF BundleBlob, At, Kept, Noticed, Failures, Ladder

LEMMA DoesFetchImageConfigLabels ==
  ASSUME RegistryTypeOK, StepTypeOK, FetchImageConfigLabels
  PROVE  /\ step.at = "labels" /\ Noticed
         /\ Kept /\ step'.at \in {"verify", "failed"}
         /\ step'.at = "verify" => step'.found = step.found /\ step'.label = LabelOf(step.digest)
         /\ faults' = {} => faults = {} /\ step'.at = "verify"
<1>1. ASSUME NEW label, step' = [step EXCEPT !.at = "verify", !.label = label]
      PROVE  /\ step'.at = "verify" /\ step'.found = step.found
             /\ step'.label = label /\ Kept
  BY <1>1 DEF StepTypeOK, Kept
<1>2. PICK status \in Failures \cup {"ok"} :
        /\ Responds("labels", "ok", status)
        /\ \/ status = "ok" /\ step' = [step EXCEPT !.at = "verify", !.label = LabelOf(step.digest)]
           \/ status # "ok" /\ \E code : Fail(code) /\ (code = "NOT_FOUND" => status = "gone")
  BY DEF FetchImageConfigLabels, Ladder, Failures
<1>3. step.at = "labels" BY DEF FetchImageConfigLabels, At
<1>4. CASE status = "ok"
  <2>1. Noticed BY <1>2, <1>4, Response DEF Noticed
  <2> QED BY <1>1, <1>2, <1>3, <1>4, <2>1, Response
<1>5. CASE status # "ok"
  <2>1. PICK code : Fail(code) /\ (code = "NOT_FOUND" => status = "gone") BY <1>2, <1>5
  <2>2. step'.at = "failed" /\ step'.code = code /\ Kept BY <2>1, Moves DEF Kept
  <2>3. Noticed BY <1>2, <1>5, <2>1, <2>2, Response DEF Noticed
  <2> QED BY <1>2, <1>3, <1>5, <2>2, <2>3, Response
<1> QED BY <1>4, <1>5

LEMMA DoesVerifyBundle ==
  ASSUME RegistryTypeOK, StepTypeOK, VerifyBundle
  PROVE  /\ step.at = "verify" /\ Noticed
         /\ Kept /\ step'.at \in {"verified", "failed"}
         /\ step'.at = "verified" =>
              /\ PolicyHolds(step.ref, step.found.bundle) /\ step.found.bundle.subject = step.digest
              /\ CheckImageEngine(step.label, step.engine)
         /\ faults' = {} =>
              /\ faults = {}
              /\ /\ PolicyHolds(step.ref, step.found.bundle)
                 /\ step.found.bundle.subject = step.digest
                 /\ CheckImageEngine(step.label, step.engine)
                 => step'.at = "verified"
<1> DEFINE good == /\ PolicyHolds(step.ref, step.found.bundle)
                   /\ step.found.bundle.subject = step.digest
                   /\ CheckImageEngine(step.label, step.engine)
<1>1. PICK status \in {"ok", "outage"} :
        /\ Responds("trust root", "ok", status)
        /\ IF status = "ok" /\ good THEN Go("verified") ELSE Fail("VERIFY_FAILED")
  BY DEF VerifyBundle, AssertSignedDigest
<1> HIDE DEF good
<1>2. step.at = "verify" BY DEF VerifyBundle, At
<1>3. faults' = {} => faults = {} /\ status = "ok" BY <1>1, Response
<1>4. CASE status = "ok" /\ good
  <2>1. step'.at = "verified" /\ Kept BY <1>1, <1>4, Moves DEF Kept
  <2>2. Noticed BY <1>1, <1>4, Response DEF Noticed
  <2> QED BY <1>2, <1>3, <1>4, <2>1, <2>2 DEF good
<1>5. CASE ~(status = "ok" /\ good)
  <2>1. step'.at = "failed" /\ step'.code = "VERIFY_FAILED" /\ Kept BY <1>1, <1>5, Moves DEF Kept
  <2> QED BY <1>2, <1>3, <1>5, <2>1 DEF Noticed, good
<1> QED BY <1>4, <1>5

LEMMA DoesPull ==
  ASSUME RegistryTypeOK, StepTypeOK, Pull
  PROVE  /\ step.at = "verified" /\ Noticed
         /\ Kept /\ UNCHANGED faults /\ step'.at = "started" /\ step'.pulled = step.digest
<1>1. ASSUME NEW d, step' = [step EXCEPT !.at = "started", !.pulled = d]
      PROVE  step'.at = "started" /\ step'.pulled = d /\ Kept
  BY <1>1 DEF StepTypeOK, Kept
<1> QED BY <1>1, Moves, Response, NoResponse
        DEF Pull, At, Kept, Noticed, Failures, Ladder, ImageRef


-----------------------------------------------------------------------------
(***************************************************************************)
(* The step keeps the invariant                                            *)
(***************************************************************************)
\* The fallback index, its head and its tail.
LEMMA IndexParts ==
  ASSUME StepTypeOK, step.index # <<>>
  PROVE  /\ 1 \in DOMAIN step.index /\ Head(step.index) = step.index[1]
         /\ \A i \in DOMAIN Tail(step.index) :
              i + 1 \in DOMAIN step.index /\ Tail(step.index)[i] = step.index[i + 1]
         /\ \A i \in DOMAIN step.index : i # 1 =>
              i - 1 \in DOMAIN Tail(step.index) /\ step.index[i] = Tail(step.index)[i - 1]
<1>1. step.index \in Seq(Descriptors) BY DEF StepTypeOK
<1> DEFINE s == step.index
<1>2. s \in Seq(Descriptors) /\ s # <<>> BY <1>1
<1> HIDE DEF s
<1>3. /\ 1 \in DOMAIN s /\ Head(s) = s[1]
      /\ Tail(s) \in Seq(Descriptors) /\ Len(Tail(s)) = Len(s) - 1
      /\ \A i \in 1..Len(Tail(s)) : Tail(s)[i] = s[i + 1]
  BY <1>2, HeadTailProperties
<1>4. \A i \in DOMAIN Tail(s) : i + 1 \in DOMAIN s /\ Tail(s)[i] = s[i + 1] BY <1>2, <1>3
<1>5. \A i \in DOMAIN s : i # 1 => i - 1 \in DOMAIN Tail(s) /\ s[i] = Tail(s)[i - 1] BY <1>2, <1>3
<1> QED BY <1>3, <1>4, <1>5 DEF s

LEMMA StepCode == ASSUME RegistryTypeOK, StepTypeOK, CodeOK, Step PROVE CodeOK'
<1>1. CASE BuildVerifyOptions BY <1>1, DoesBuildVerifyOptions, NoResponse DEF CodeOK, Noticed
<1>2. CASE FetchRegistryToken BY <1>2, DoesFetchRegistryToken DEF CodeOK, Noticed
<1>3. CASE FetchManifestDigest BY <1>3, DoesFetchManifestDigest DEF CodeOK, Noticed
<1>4. CASE BundleFromReferrers BY <1>4, DoesBundleFromReferrers DEF CodeOK, Noticed
<1>5. CASE BundleFromFallbackTag BY <1>5, DoesBundleFromFallbackTag DEF CodeOK, Noticed
<1>6. CASE ScanFallbackIndex BY <1>6, DoesScanFallbackIndex DEF CodeOK, Noticed
<1>7. CASE BundleFromManifest BY <1>7, DoesBundleFromManifest DEF CodeOK, Noticed
<1>8. CASE BundleBlob BY <1>8, DoesBundleBlob DEF CodeOK, Noticed
<1>9. CASE FetchImageConfigLabels BY <1>9, DoesFetchImageConfigLabels DEF CodeOK, Noticed
<1>10. CASE VerifyBundle BY <1>10, DoesVerifyBundle DEF CodeOK, Noticed
<1>11. CASE Pull BY <1>11, DoesPull, NoResponse DEF CodeOK, Noticed
<1> QED BY <1>1, <1>2, <1>3, <1>4, <1>5, <1>6, <1>7, <1>8, <1>9, <1>10, <1>11 DEF Step

LEMMA StepReady ==
  ASSUME RegistryTypeOK, StepTypeOK, ReadyOK, Step PROVE ReadyOK'
<1>0. UNCHANGED <<attached, signed, scheme>> BY StepLeavesRegistry DEF Registry
<1> USE <1>0 DEF ReadyOK, Kept
<1>1. CASE BuildVerifyOptions BY <1>1, DoesBuildVerifyOptions
<1>2. CASE FetchRegistryToken BY <1>2, DoesFetchRegistryToken
<1>3. CASE FetchManifestDigest BY <1>3, DoesFetchManifestDigest
<1>4. CASE BundleFromReferrers BY <1>4, DoesBundleFromReferrers
<1>5. CASE BundleFromFallbackTag BY <1>5, DoesBundleFromFallbackTag
<1>6. CASE ScanFallbackIndex BY <1>6, DoesScanFallbackIndex
<1>7. CASE BundleFromManifest BY <1>7, DoesBundleFromManifest
<1>8. CASE BundleBlob BY <1>8, DoesBundleBlob
<1>9. CASE FetchImageConfigLabels BY <1>9, DoesFetchImageConfigLabels
<1>10. CASE VerifyBundle BY <1>10, DoesVerifyBundle
<1>11. CASE Pull BY <1>11, DoesPull
<1> QED BY <1>1, <1>2, <1>3, <1>4, <1>5, <1>6, <1>7, <1>8, <1>9, <1>10, <1>11 DEF Step

LEMMA StepFindings ==
  ASSUME RegistryTypeOK, StepTypeOK, FindingsOK, Step PROVE FindingsOK'
<1>0. UNCHANGED <<attached, signed, scheme>> BY StepLeavesRegistry DEF Registry
<1> USE <1>0 DEF FindingsOK, Looking, Found, Kept
<1>1. CASE BuildVerifyOptions BY <1>1, DoesBuildVerifyOptions
<1>2. CASE FetchRegistryToken BY <1>2, DoesFetchRegistryToken
<1>3. CASE FetchManifestDigest BY <1>3, DoesFetchManifestDigest
<1>4. CASE BundleFromReferrers BY <1>4, DoesBundleFromReferrers
<1>5. CASE BundleFromFallbackTag BY <1>5, DoesBundleFromFallbackTag
<1>6. CASE ScanFallbackIndex
  <2>1. step.index # <<>> => /\ 1 \in DOMAIN step.index /\ Head(step.index) = step.index[1]
                              /\ \A i \in DOMAIN Tail(step.index) :
                                   /\ i + 1 \in DOMAIN step.index
                                   /\ Tail(step.index)[i] = step.index[i + 1]
    BY IndexParts
  <2>2. step.at = "scan" BY <1>6, DoesScanFallbackIndex
  <2>3. \A i \in DOMAIN step.index :
          \E j \in DOMAIN attached[step.digest] : step.index[i] = attached[step.digest][j]
    BY <2>2
  <2>4. step'.digest = step.digest /\ step'.ref = step.ref BY <1>6, DoesScanFallbackIndex
  <2>5. CASE step'.at = "scan"
    <3>1. step.index # <<>> /\ step'.index = Tail(step.index) BY <1>6, <2>5, DoesScanFallbackIndex
    <3>2. \A i \in DOMAIN step'.index :
            \E j \in DOMAIN attached[step.digest] : step'.index[i] = attached[step.digest][j]
      BY <2>1, <2>3, <3>1
    <3> QED BY <2>2, <2>4, <2>5, <3>2
  <2>6. CASE step'.at # "scan"
    <3>1. CASE step'.at = "failed" BY <3>1
    <3>2. CASE step'.at \in {"bundle", "blob"}
      <4>1. step.index # <<>> /\ step'.found = step.index[1]
        BY <1>6, <2>1, <3>2, DoesScanFallbackIndex
      <4>2. \E j \in DOMAIN attached[step.digest] : step'.found = attached[step.digest][j]
        BY <2>1, <2>3, <4>1
      <4>3. /\ step'.at = "bundle" => step'.found.says = "bundle"
            /\ step'.at = "blob" => step'.found.holds = "bundle"
        BY <1>6, DoesScanFallbackIndex
      <4> QED BY <2>2, <2>4, <3>2, <4>2, <4>3
    <3> QED BY <1>6, <2>6, <3>1, <3>2, DoesScanFallbackIndex
  <2> QED BY <2>5, <2>6
<1>7. CASE BundleFromManifest BY <1>7, DoesBundleFromManifest
<1>8. CASE BundleBlob BY <1>8, DoesBundleBlob
<1>9. CASE FetchImageConfigLabels BY <1>9, DoesFetchImageConfigLabels
<1>10. CASE VerifyBundle BY <1>10, DoesVerifyBundle
<1>11. CASE Pull BY <1>11, DoesPull
<1> QED BY <1>1, <1>2, <1>3, <1>4, <1>5, <1>6, <1>7, <1>8, <1>9, <1>10, <1>11 DEF Step

LEMMA StepVerified ==
  ASSUME RegistryTypeOK, RegistryOK, StepTypeOK, FindingsOK, VerifiedOK, Step PROVE VerifiedOK'
<1>0. UNCHANGED <<attached, signed, scheme>> BY StepLeavesRegistry DEF Registry
<1> USE <1>0 DEF VerifiedOK, Kept
<1>1. CASE BuildVerifyOptions BY <1>1, DoesBuildVerifyOptions
<1>2. CASE FetchRegistryToken BY <1>2, DoesFetchRegistryToken
<1>3. CASE FetchManifestDigest BY <1>3, DoesFetchManifestDigest
<1>4. CASE BundleFromReferrers BY <1>4, DoesBundleFromReferrers
<1>5. CASE BundleFromFallbackTag BY <1>5, DoesBundleFromFallbackTag
<1>6. CASE ScanFallbackIndex BY <1>6, DoesScanFallbackIndex
<1>7. CASE BundleFromManifest BY <1>7, DoesBundleFromManifest
<1>8. CASE BundleBlob BY <1>8, DoesBundleBlob
<1>9. CASE FetchImageConfigLabels BY <1>9, DoesFetchImageConfigLabels
<1>10. CASE VerifyBundle
  <2>1. CASE step'.at = "verified"
    <3>1. /\ step.at = "verify" /\ PolicyHolds(step.ref, step.found.bundle)
          /\ step.found.bundle.subject = step.digest /\ CheckImageEngine(step.label, step.engine)
      BY <1>10, <2>1, DoesVerifyBundle
    <3>2. step.label = LabelOf(step.digest) /\ Found(step.found) BY <3>1 DEF FindingsOK
    <3>3. step.digest \in DOMAIN attached BY <3>1 DEF FindingsOK, Looking
    <3>4. step.found.bundle \in signed \cup {NoBundle}
      BY <3>2, <3>3 DEF Found, RegistryOK, Attachable
    <3>5. step.found.bundle # NoBundle BY <3>1 DEF PolicyHolds, SanMatches, NoBundle, Bundle
    <3> QED BY <1>10, <2>1, <3>1, <3>2, <3>4, <3>5, DoesVerifyBundle
  <2>2. CASE step'.at = "failed" BY <2>2
  <2> QED BY <1>10, <2>1, <2>2, DoesVerifyBundle
<1>11. CASE Pull BY <1>11, DoesPull
<1> QED BY <1>1, <1>2, <1>3, <1>4, <1>5, <1>6, <1>7, <1>8, <1>9, <1>10, <1>11 DEF Step


\* What says or holds a bundle, and stands in nobody's way, passes the policy.
LEMMA GoodBundle ==
  ASSUME RegistryTypeOK, RegistryOK, StepTypeOK, Unhindered, Verifiable(step.ref),
         step.digest \in DOMAIN attached, NEW d, Found(d), "bundle" \in {d.says, d.holds}
  PROVE  /\ Attachable(d) /\ d.bundle.subject = step.digest
         /\ PolicyHolds(step.ref, d.bundle)
<1>1. PICK i \in DOMAIN attached[step.digest] : d = attached[step.digest][i] BY DEF Found
<1>2. Attachable(d) BY <1>1 DEF RegistryOK
<1>3. d.bundle.subject = step.digest /\ OfItsOwnTag(d.bundle) BY <1>1 DEF Unhindered
<1>4. /\ d.bundle.san.kind = "tag" /\ d.bundle.san.text = step.digest.release
      /\ d.bundle.commit = step.digest.commit
  BY <1>3 DEF OfItsOwnTag
<1>5. step.ref \in Refs /\ step.digest \in Images BY DEF StepTypeOK, RegistryTypeOK
<1>6. Accepts(step.ref, step.digest) BY DEF Unhindered
<1> QED BY <1>2, <1>3, <1>4, <1>5, <1>6, PolicyMeans

\* No request refuses a step that nothing stands in the way of.
LEMMA StepUnhindered ==
  ASSUME IInv, Step PROVE UnhinderedOK'
<1>0. UNCHANGED <<attached, scheme>> BY StepLeavesRegistry DEF Registry
<1> USE DEF IInv
<1> SUFFICES ASSUME Unhindered'
             PROVE  /\ step'.at # "failed"
                    /\ step'.at = "fallback" => scheme = "fallback"
                    /\ step'.at = "scan" =>
                         \E i \in DOMAIN step'.index : step'.index[i].holds = "bundle"
  BY <1>0 DEF UnhinderedOK
<1>1. faults' = {} /\ step'.ready BY DEF Unhindered
<1>2. Kept /\ faults = {} => Unhindered BY <1>0 DEF Unhindered, Kept
<1>3. \A i \in DOMAIN attached[step.digest] :
        step.digest \in DOMAIN attached => Attachable(attached[step.digest][i])
  BY DEF RegistryOK
<1>4. CASE BuildVerifyOptions
  <2>1. step'.ready = step.ready /\ step.at = "start" BY <1>4, DoesBuildVerifyOptions DEF Kept
  <2> QED BY <1>1, <2>1 DEF ReadyOK
<1>5. CASE FetchRegistryToken
  <2>1. step'.ready = step.ready /\ step.at = "token" BY <1>5, DoesFetchRegistryToken DEF Kept
  <2> QED BY <1>1, <2>1 DEF ReadyOK
<1>6. CASE FetchManifestDigest
  <2>1. step.at = "resolve" /\ ~step.ready BY <1>6, DoesFetchManifestDigest DEF ReadyOK
  <2>2. step'.at = "referrers" BY <1>6, <1>1, <2>1, DoesFetchManifestDigest DEF Kept
  <2> QED BY <2>2
<1>7. CASE BundleFromReferrers
  <2>1. Kept /\ Unhindered BY <1>7, <1>1, <1>2, DoesBundleFromReferrers
  <2>2. step'.at \in {"fallback", "bundle"} BY <1>7, <1>1, DoesBundleFromReferrers
  <2>3. PICK i \in DOMAIN attached[step.digest] : attached[step.digest][i].holds = "bundle"
    BY <2>1 DEF Unhindered, ReadyOK
  <2>4. step.digest \in DOMAIN attached BY <2>1 DEF Unhindered, ReadyOK
  <2>5. scheme = "referrers" => attached[step.digest][i].says = "bundle"
    BY <1>3, <2>3, <2>4 DEF Attachable
  <2>6. scheme \in {"referrers", "fallback"} BY DEF RegistryTypeOK
  <2>7. step'.at = "fallback" /\ scheme # "fallback" =>
          \A j \in DOMAIN attached[step.digest] : attached[step.digest][j].says # "bundle"
    BY <1>7, <1>1, DoesBundleFromReferrers
  <2> QED BY <2>2, <2>5, <2>6, <2>7
<1>8. CASE BundleFromFallbackTag
  <2>1. Kept /\ Unhindered /\ step.at = "fallback" BY <1>8, <1>1, <1>2, DoesBundleFromFallbackTag
  <2>2. scheme = "fallback" BY <2>1 DEF UnhinderedOK
  <2>3. PICK i \in DOMAIN attached[step.digest] : attached[step.digest][i].holds = "bundle"
    BY <2>1 DEF Unhindered, ReadyOK
  <2>4. attached[step.digest] # <<>> BY <2>3, WhatIsAttached
  <2>5. step'.at = "scan" /\ step'.index = attached[step.digest]
    BY <1>8, <1>1, <2>2, <2>4, DoesBundleFromFallbackTag
  <2> QED BY <2>3, <2>5
<1>9. CASE ScanFallbackIndex
  <2>1. Kept /\ Unhindered /\ step.at = "scan" BY <1>9, <1>1, <1>2, DoesScanFallbackIndex
  <2>2. PICK i \in DOMAIN step.index : step.index[i].holds = "bundle" BY <2>1 DEF UnhinderedOK
  <2>3. step.index # <<>> BY <2>2, WhatIsAttached
  <2>4. step'.at \in {"bundle", "blob", "scan"} BY <1>9, <1>1, <2>3, DoesScanFallbackIndex
  <2>5. CASE step'.at = "scan"
    <3>1. step'.index = Tail(step.index) /\ Head(step.index).holds # "bundle"
      BY <1>9, <1>1, <2>5, DoesScanFallbackIndex
    <3>2. i # 1 BY <2>2, <2>3, <3>1, IndexParts
    <3>3. i - 1 \in DOMAIN Tail(step.index) /\ step.index[i] = Tail(step.index)[i - 1]
      BY <2>3, <3>2, IndexParts
    <3> QED BY <2>2, <2>5, <3>1, <3>3
  <2> QED BY <2>4, <2>5
<1>10. CASE BundleFromManifest
  <2>1. Kept /\ Unhindered /\ step.at = "bundle" BY <1>10, <1>1, <1>2, DoesBundleFromManifest
  <2>2. Found(step.found) /\ step.found.says = "bundle" /\ step.digest \in DOMAIN attached
    BY <2>1 DEF FindingsOK, Looking
  <2>3. step.found.holds = "bundle" BY <1>3, <2>2 DEF Found, Attachable
  <2> QED BY <1>10, <1>1, <2>3, DoesBundleFromManifest
<1>11. CASE BundleBlob
  <2> QED BY <1>11, <1>1, DoesBundleBlob
<1>12. CASE FetchImageConfigLabels
  <2> QED BY <1>12, <1>1, DoesFetchImageConfigLabels
<1>13. CASE VerifyBundle
  <2>1. Kept /\ Unhindered /\ step.at = "verify" BY <1>13, <1>1, <1>2, DoesVerifyBundle
  <2>2. /\ Found(step.found) /\ step.found.holds = "bundle" /\ step.digest \in DOMAIN attached
        /\ step.label = LabelOf(step.digest) /\ Verifiable(step.ref)
    BY <2>1 DEF FindingsOK, Looking
  <2>3. PolicyHolds(step.ref, step.found.bundle) /\ step.found.bundle.subject = step.digest
    BY <2>1, <2>2, GoodBundle
  <2>4. step.digest \in Images BY <2>2 DEF RegistryTypeOK
  <2>5. step.digest.engine = step.engine /\ IsReleaseVersion(step.digest.release)
    BY <2>1 DEF Unhindered
  <2>6. CheckImageEngine(step.label, step.engine)
    BY <2>2, <2>4, <2>5, ImageParts, LabelsPass DEF LabelOf
  <2> QED BY <1>13, <1>1, <2>3, <2>6, DoesVerifyBundle
<1>14. CASE Pull
  <2> QED BY <1>14, DoesPull
<1> QED BY <1>4, <1>5, <1>6, <1>7, <1>8, <1>9, <1>10, <1>11, <1>12, <1>13, <1>14 DEF Step

-----------------------------------------------------------------------------
\* The writers disturb nothing the step relies on: what it found stays attached.
LEMMA WritersKeep == ASSUME IInv, Writers PROVE IInv'
<1> USE DEF IInv
<1>1. RegistryTypeOK' /\ RegistryOK' /\ Grows /\ UNCHANGED <<scheme, faults, step>> /\ ~Over
  BY WritersGrow
<1>2. \A d : step.digest \in DOMAIN attached /\ Found(d) =>
        \E j \in DOMAIN attached'[step.digest] : d = attached'[step.digest][j]
  BY <1>1 DEF Found, Grows
<1>3. StepTypeOK' BY <1>1 DEF StepTypeOK
<1>4. FindingsOK'
  <2>1. step.at = "scan" => \A i \in DOMAIN step.index : Found(step.index[i]) BY DEF FindingsOK
  <2>2. step.at \in Looking => step.digest \in DOMAIN attached BY DEF FindingsOK
  <2> QED BY <1>1, <1>2, <2>1, <2>2 DEF FindingsOK, Found, Looking, Grows
<1>5. VerifiedOK' BY <1>1 DEF VerifiedOK, Grows
<1>6. ReadyOK' BY <1>1 DEF ReadyOK, Grows
<1>7. UnhinderedOK'
  <2>1. Unhindered' => Unhindered
    BY <1>1, <1>6 DEF Unhindered, Grows, ReadyOK
  <2> QED BY <1>1, <2>1 DEF UnhinderedOK
<1>8. CodeOK' BY <1>1, NoResponse DEF CodeOK
<1> QED BY <1>1, <1>3, <1>4, <1>5, <1>6, <1>7, <1>8

LEMMA DescriptorTyped ==
  ASSUME NEW says \in {"bundle", "empty"}, NEW b \in Bundles
  PROVE  Descriptor(says, "bundle", b) \in Descriptors
BY DEF Descriptor, Descriptors

LEMMA InitHolds == Init => IInv
<1> SUFFICES ASSUME Init PROVE IInv
  OBVIOUS
<1> USE ProvenanceAssumption
<1> DEFINE first(e) == ImageOf(FirstOut, e, 1)
           bundle(e) == Bundle(first(e), [kind |-> "tag", text |-> FirstOut.text], FirstOut.commit)
<1>1. \A e \in Engines : /\ first(e) \in Images /\ first(e).engine = e
                         /\ first(e).release = FirstOut.text /\ first(e).commit = FirstOut.commit
  BY DEF ImageOf, Images
<1>2. \A e \in Engines : bundle(e) \in Bundles
  BY <1>1 DEF Bundle, Bundles
<1>3. /\ scheme \in {"referrers", "fallback"} /\ faults = {}
      /\ signed = {bundle(e) : e \in Engines}
  BY DEF Init
<1>4. PICK says \in IF scheme = "referrers" THEN {"bundle"} ELSE {"bundle", "empty"} :
        attached = [i \in {first(e) : e \in Engines} |->
                      <<Descriptor(says, "bundle", bundle(i.engine))>>]
  BY DEF Init
<1> DEFINE d(i) == Descriptor(says, "bundle", bundle(i.engine))
<1>5. \A i \in DOMAIN attached :
        /\ i \in Images /\ i.engine \in Engines
        /\ d(i) \in Descriptors /\ Attachable(d(i))
  <2> TAKE i \in DOMAIN attached
  <2>1. PICK e \in Engines : i = first(e) BY <1>4
  <2>2. i \in Images /\ i.engine = e BY <1>1, <2>1
  <2>3. bundle(e) \in Bundles /\ bundle(e) \in signed BY <1>2, <1>3
  <2>4. says \in {"bundle", "empty"} /\ (scheme = "referrers" => says = "bundle") BY <1>4
  <2> HIDE DEF first, bundle
  <2>5. d(i) = [says |-> says, holds |-> "bundle", bundle |-> bundle(e)]
    BY <2>2 DEF Descriptor
  <2> HIDE DEF d
  <2>6. d(i) \in Descriptors BY <2>3, <2>4, <2>5, DescriptorTyped DEF Descriptor
  <2>7. Attachable(d(i)) BY <2>3, <2>4, <2>5 DEF Attachable
  <2> QED BY <2>2, <2>6, <2>7
<1> DEFINE named == {<<VersionTag(FirstOut, e), e>> : e \in Engines}
                      \cup {<<CommitTag(FirstOut, e), e>> : e \in Engines}
                      \cup {<<series, "universal">> : series \in SeriesTags(FirstOut)}
<1>6. tags = [t \in {n[1] : n \in named} |-> first((CHOOSE n \in named : n[1] = t)[2])]
  BY DEF Init
<1>7. \A n \in named : n[2] \in Engines OBVIOUS
<1>8. DOMAIN attached = {first(e) : e \in Engines} BY <1>4
<1>9. tags \in [DOMAIN tags -> DOMAIN attached]
  <2> HIDE DEF named, first
  <2>1. \A t \in {n[1] : n \in named} : (CHOOSE n \in named : n[1] = t) \in named OBVIOUS
  <2>2. \A t \in {n[1] : n \in named} : first((CHOOSE n \in named : n[1] = t)[2]) \in DOMAIN attached
    BY <1>7, <1>8, <2>1
  <2> QED BY <1>6, <2>2
<1>10. \A i \in DOMAIN attached : attached[i] = <<d(i)>> BY <1>4
<1> HIDE DEF named, first, bundle, d
<1>11. attached \in [DOMAIN attached -> Seq(Descriptors)]
  <2>1. \A i \in DOMAIN attached : attached[i] \in Seq(Descriptors)
    <3> TAKE i \in DOMAIN attached
    <3>1. d(i) \in Descriptors BY <1>5
    <3>2. <<d(i)>> \in Seq(Descriptors) BY <3>1, OneToken
    <3> QED BY <1>10, <3>2
  <2>2. attached = [i \in DOMAIN attached |-> attached[i]] BY <1>4
  <2> QED BY <2>1, <2>2
<1>12. RegistryTypeOK BY <1>2, <1>3, <1>5, <1>9, <1>11 DEF RegistryTypeOK
<1>13. RegistryOK BY <1>2, <1>3, <1>5, <1>10 DEF RegistryOK
<1>14. PICK ref \in Refs, engine \in Engines :
         step = [ref |-> ref, engine |-> engine, at |-> "start", tag |-> <<>>,
                 digest |-> Missing, ready |-> FALSE, index |-> <<>>,
                 found |-> Descriptor("", "", NoBundle), label |-> <<>>,
                 code |-> "", pulled |-> Missing]
  BY DEF Init
<1>15. StepTypeOK
  <2>1. <<>> \in Seq(Descriptors) /\ <<>> \in Seq(STRING) OBVIOUS
  <2>2. Descriptor("", "", NoBundle) \in Descriptors BY DEF Descriptor, Descriptors
  <2> QED BY <1>14, <2>1, <2>2 DEF StepTypeOK, Places, Codes
<1>16. step.at = "start" /\ ~step.ready BY <1>14
<1>17. FindingsOK /\ VerifiedOK /\ ReadyOK BY <1>16 DEF FindingsOK, VerifiedOK, ReadyOK, Looking
<1>18. UnhinderedOK /\ CodeOK BY <1>3, <1>16 DEF UnhinderedOK, Unhindered, CodeOK, OutagesAtEntries
<1> QED BY <1>12, <1>13, <1>15, <1>17, <1>18 DEF IInv

LEMMA InvariantHolds == Spec => []IInv
<1>1. IInv /\ [Next]_vars => IInv'
  <2> SUFFICES ASSUME IInv, [Next]_vars PROVE IInv'
    OBVIOUS
  <2>1. CASE Step
    <3>1. UNCHANGED <<tags, attached, signed, scheme>> BY <2>1, StepLeavesRegistry DEF Registry
    <3>2. RegistryTypeOK' /\ RegistryOK'
      BY <3>1 DEF IInv, RegistryTypeOK, RegistryOK, Attachable
    <3>3. StepTypeOK' /\ FindingsOK' /\ VerifiedOK' /\ ReadyOK' /\ UnhinderedOK' /\ CodeOK'
      BY <2>1, StepTypes, StepFindings, StepVerified, StepReady, StepUnhindered, StepCode DEF IInv
    <3> QED BY <3>2, <3>3 DEF IInv
  <2>2. CASE Writers BY <2>2, WritersKeep
  <2>3. CASE UNCHANGED vars
    BY <2>3 DEF vars, IInv, RegistryTypeOK, RegistryOK, Attachable, StepTypeOK, FindingsOK,
                Found, VerifiedOK, ReadyOK, UnhinderedOK, Unhindered, CodeOK, OutagesAtEntries
  <2> QED BY <2>1, <2>2, <2>3 DEF Next
<1> QED BY InitHolds, <1>1, PTL DEF Spec

-----------------------------------------------------------------------------
(***************************************************************************)
(* What it gives                                                           *)
(***************************************************************************)
\* However tags are moved and bundles attached between two of its requests, a
\* step starts only what the release workflow signed and its ref accepts.
THEOREM StartedImagesAreSigned == Spec => []StartedImageIsSigned
<1>1. IInv => StartedImageIsSigned BY DEF IInv, VerifiedOK, StartedImageIsSigned, Started
<1> QED BY InvariantHolds, <1>1, PTL

\* What the signature and the labels say of a started image.
LEMMA StartedParts ==
  ASSUME IInv, Started
  PROVE  /\ step.pulled \in Images /\ step.ref \in Refs /\ step.engine \in Engines
         /\ CheckImageEngine(LabelOf(step.pulled), step.engine)
         /\ Verifiable(step.ref)
         /\ \E b \in signed : b.subject = step.pulled /\ PolicyHolds(step.ref, b)
<1>1. PICK b \in signed : /\ b.subject = step.pulled /\ PolicyHolds(step.ref, b)
                          /\ CheckImageEngine(LabelOf(step.pulled), step.engine)
  BY DEF IInv, VerifiedOK, Started
<1>2. step.pulled \in Images BY <1>1 DEF IInv, RegistryTypeOK, Bundles
<1>3. step.ref \in Refs /\ step.engine \in Engines BY DEF IInv, StepTypeOK
<1>4. Verifiable(step.ref) BY DEF IInv, FindingsOK, Started
<1> QED BY <1>1, <1>2, <1>3, <1>4

\* A commit pin starts an image of its commit, a version one of its series, but
\* for what a run dispatched on a ref of the pin built of another tag.
THEOREM PinsHold == Spec => []PinHoldsUnlessDispatched
<1>1. ASSUME IInv, Started
      PROVE  \/ Accepts(step.ref, step.pulled)
             \/ \E b \in signed : /\ b.subject = step.pulled /\ ~ OfItsOwnTag(b)
                                  /\ PolicyHolds(step.ref, b)
  <2>1. /\ step.pulled \in Images /\ step.ref \in Refs /\ Verifiable(step.ref)
        /\ \E b \in signed : b.subject = step.pulled /\ PolicyHolds(step.ref, b)
    BY <1>1, StartedParts
  <2>2. PICK b \in signed : b.subject = step.pulled /\ PolicyHolds(step.ref, b) BY <2>1
  <2>3. CASE OfItsOwnTag(b)
    <3>1. /\ b.san.kind = "tag" /\ b.san.text = step.pulled.release
          /\ b.commit = step.pulled.commit
      BY <2>2, <2>3 DEF OfItsOwnTag
    <3>2. Accepts(step.ref, step.pulled) BY <2>1, <2>2, <3>1, PolicyMeans
    <3> QED BY <3>2
  <2> QED BY <2>2, <2>3
<1>2. IInv => PinHoldsUnlessDispatched BY <1>1 DEF PinHoldsUnlessDispatched
<1> QED BY InvariantHolds, <1>2, PTL

\* The label decides the engine, whatever tag led to the image and whatever the
\* releases are called, but for a release called as an engine's image is.
THEOREM EnginesHold == Spec => []EngineHoldsUnlessNamedAsOne
<1>1. ASSUME IInv, Started
      PROVE  step.pulled.engine = step.engine \/ EndsAsAnEngine(step.pulled.release)
  <2>1. /\ step.pulled \in Images /\ step.engine \in Engines
        /\ CheckImageEngine(LabelOf(step.pulled), step.engine)
    BY <1>1, StartedParts
  <2> QED BY <2>1, ImageParts, LabelsNameTheEngine DEF LabelOf
<1>2. IInv => EngineHoldsUnlessNamedAsOne BY <1>1 DEF EngineHoldsUnlessNamedAsOne
<1> QED BY InvariantHolds, <1>2, PTL

\* With honest answers and no foreign bundle on it, a signed image of a version
\* the label check knows is not refused.
THEOREM SignedReleasesStart == Spec => []SignedReleaseStarts
<1>1. IInv => SignedReleaseStarts
  BY DEF IInv, UnhinderedOK, Unhindered, SignedReleaseStarts, RefusedThoughSigned
<1> QED BY InvariantHolds, <1>1, PTL

\* A registry that is down is not read as an image that is missing.
THEOREM OutagesAreNotAbsence == Spec => []OutageIsNotAbsence
<1>1. IInv => OutageIsNotAbsence BY DEF IInv, CodeOK, OutagesAtEntries, OutageIsNotAbsence
<1> QED BY InvariantHolds, <1>1, PTL
=============================================================================
