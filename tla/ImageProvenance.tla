--------------------------- MODULE ImageProvenance ---------------------------
(***************************************************************************)
(* Which proxy image a step starts.  The step resolves its action ref to a *)
(* Docker tag, the tag to a digest, finds the Sigstore bundle attached to  *)
(* that digest, reads the image's labels and verifies bundle and labels,   *)
(* one registry request after another; the image is then pulled by digest. *)
(* Meanwhile the repository's own workflows push, sign and re-tag images,  *)
(* and whoever may write packages can move a tag or attach a bundle to     *)
(* another image.  Every response may also fail, within MaxFaults.         *)
(*                                                                         *)
(* A digest is the image it addresses.  A version, a git ref and a label   *)
(* are sequences of tokens, so that a prefix of one can be asked for.      *)
(* A signature is a bundle of `signed`: only the workflow adds to it.      *)
(***************************************************************************)
EXTENDS Naturals, Sequences, FiniteSets, SequencesExt

CONSTANTS
  Releases,   \* [text: a version's tokens, commit: the commit it is cut from]
  Refs,       \* the refs a step may be pinned to: [kind, text]
  Engines,    \* the proxy engines
  FirstOut,   \* the release already published when the step starts
  MaxBuilds,  \* image builds per release and engine
  MaxEvents,  \* bound: what the registry's writers do during a step
  MaxFaults   \* bound: responses that are not the honest answer

Failures == {"gone", "refused", "denied", "outage"}
Missing == [release |-> <<>>, commit |-> <<>>, engine |-> "", build |-> 0]

VARIABLES
  tags,      \* Docker tag -> the image it points at
  attached,  \* image -> the sequence of descriptors that refer to it
  signed,    \* every bundle the release workflow has produced
  scheme,    \* "referrers" or "fallback": where the registry keeps them
  events,    \* how often the registry's writers have acted
  faults,    \* the dishonest responses so far: <<request, status>>
  step       \* the step being started: its ref, engine, place and findings

vars == <<tags, attached, signed, scheme, events, faults, step>>

(***************************************************************************)
(* Names                                                                   *)
(***************************************************************************)
EngineToken(engine) == "-" \o engine
EngineTagSuffix(engine) == IF engine = "universal" THEN <<>> ELSE <<EngineToken(engine)>>

\* The Docker tag of an action ref: its version, or its commit, and the engine.
ImageTagFromRef(ref, engine) ==
  (IF ref.kind = "sha" THEN <<"sha-">> \o ref.text ELSE ref.text) \o EngineTagSuffix(engine)

Images == [release : {r.text : r \in Releases}, commit : {r.commit : r \in Releases},
           engine : Engines, build : 1..MaxBuilds]

\* org.opencontainers.image.version, as the build labels the image.
LabelOf(image) == image.release \o EngineTagSuffix(image.engine)

Digits == {"0", "1", "2"}
\* ^\d+\.\d+\.\d+(-rc\d+)?$, which is narrower than the tags that are released.
IsReleaseVersion(text) ==
  LET core == IF text # <<>> /\ Last(text) = "-rc1" THEN Front(text) ELSE text
      dots == {i \in DOMAIN core : core[i] = "."}
  IN  /\ Range(core) \subseteq Digits \cup {"."}
      /\ Cardinality(dots) = 2
      /\ dots \cap {1, Len(core)} = {}
      /\ \A i \in dots : i + 1 \notin dots

\* A release's text is any version a tag v*.*.* may name, prereleases included.
ASSUME ProvenanceAssumption ==
  /\ Releases \subseteq [text : Seq(STRING), commit : Seq(STRING)]
  /\ FirstOut \in Releases
  /\ Refs \subseteq [kind : STRING, text : Seq(STRING)]
  /\ Engines \subseteq STRING /\ "universal" \in Engines
  /\ \A e \in Engines \ {"universal"} :
       /\ EngineToken(e) \in STRING \ (Digits \cup {".", "-rc1"})
       /\ \A f \in Engines \ {"universal"} : EngineToken(e) = EngineToken(f) => e = f
  /\ MaxBuilds \in Nat \ {0}
  /\ {".", "sha-", "main", "m"} \subseteq STRING

(***************************************************************************)
(* The checks                                                              *)
(***************************************************************************)
Verifiable(ref) == ref.kind \in {"sha", "tag"}

BugSanMatches(ref, san) == san.kind = "tag" /\ (ref.kind = "tag" => ref.text = san.text)

\* The certificate's identity: the release workflow on a ref.  A version is
\* followed by a dot or by the end, so v1 takes v1.0.0 and not v10.0.0.
SanMatches(ref, san) ==
  /\ san.kind = "tag"
  /\ ref.kind = "tag" =>
       /\ IsPrefix(ref.text, san.text)
       /\ Len(san.text) > Len(ref.text) => san.text[Len(ref.text) + 1] = "."

\* A commit pin also holds the certificate's source commit to that commit.
PolicyHolds(ref, bundle) ==
  /\ SanMatches(ref, bundle.san)
  /\ ref.kind = "sha" => bundle.commit = ref.text

BugAssertSignedDigest(bundle, digest) == TRUE

\* The signed payload names the digest the tag led to.
AssertSignedDigest(bundle, digest) == bundle.subject = digest

BugCheckImageEngine(label, engine) == IsSuffix(EngineTagSuffix(engine), label)

CheckImageEngine(label, engine) ==
  LET suffix == EngineTagSuffix(engine)
  IN  /\ IsSuffix(suffix, label)
      /\ IsReleaseVersion(SubSeq(label, 1, Len(label) - Len(suffix)))

BugImageRef(s) == tags[s.tag]

\* What docker pulls: the digest, and not the tag.
ImageRef(s) == s.digest

(***************************************************************************)
(* The registry                                                            *)
(***************************************************************************)
Lookup(tag) == IF tag \in DOMAIN tags THEN tags[tag] ELSE Missing

\* One response: the honest one, or a failure the bound still allows.
Responds(request, honest, status) ==
  \/ status = honest /\ UNCHANGED faults
  \/ /\ Cardinality(faults) < MaxFaults
     /\ status \in Failures \ {honest}
     /\ faults' = faults \cup {<<request, status>>}

BugLadder(status, onFailure) == IF status = "denied" THEN "TRANSIENT" ELSE onFailure

\* How a failed response reads.
Ladder(status, onFailure) == IF status \in {"outage", "denied"} THEN "TRANSIENT" ELSE onFailure

(***************************************************************************)
(* The step                                                                *)
(***************************************************************************)
Registry == <<tags, attached, signed, scheme, events>>

At(place) == step.at = place
Go(place) == step' = [step EXCEPT !.at = place]
Fail(code) == step' = [step EXCEPT !.at = "failed", !.code = code]

\* A branch or a local path verifies against nothing, and stops the step.
BuildVerifyOptions ==
  /\ At("start")
  /\ IF Verifiable(step.ref)
     THEN step' = [step EXCEPT !.at = "token", !.tag = ImageTagFromRef(step.ref, step.engine)]
     ELSE Fail("UNVERIFIABLE_REF")
  /\ UNCHANGED <<Registry, faults>>

FetchRegistryToken ==
  /\ At("token")
  /\ \E status \in Failures \cup {"ok"} :
       /\ Responds("token", "ok", status)
       /\ IF status = "ok" THEN Go("resolve")
          ELSE IF status = "outage" THEN Fail("TRANSIENT") ELSE Fail("TOKEN_ERROR")
  /\ UNCHANGED Registry

\* The one lookup by tag.  `ready` notes whether the image carried a bundle then.
FetchManifestDigest ==
  /\ At("resolve")
  /\ LET digest == Lookup(step.tag)
     IN  \E status \in Failures \cup {"ok"} :
           /\ Responds("manifest", IF digest = Missing THEN "gone" ELSE "ok", status)
           /\ IF status = "ok"
              THEN step' = [step EXCEPT !.at = "referrers", !.digest = digest,
                              !.ready = \E i \in DOMAIN attached[digest] :
                                          attached[digest][i].holds = "bundle"]
              ELSE IF status = "gone" THEN Fail("NOT_FOUND") ELSE Fail(Ladder(status, "TRANSIENT"))
  /\ UNCHANGED Registry

\* The i-th descriptor is the first that says it is a bundle.
SaysBundleFirst(descriptors, i) ==
  /\ descriptors[i].says = "bundle"
  /\ \A j \in DOMAIN descriptors : descriptors[j].says = "bundle" => i <= j

\* Nothing but an outage fails here: the bundle may still be under the fallback
\* tag.
BundleFromReferrers ==
  /\ At("referrers")
  /\ LET listed == IF scheme = "referrers" THEN attached[step.digest] ELSE <<>>
     IN  \E status \in Failures \cup {"ok"} :
           /\ \/ Responds("referrers", "ok", status)
              \/ scheme = "fallback" /\ status = "gone" /\ UNCHANGED faults
           /\ \/ status = "outage" /\ Fail("TRANSIENT")
              \/ /\ status = "ok"
                 /\ \E i \in DOMAIN listed :
                      /\ SaysBundleFirst(listed, i)
                      /\ step' = [step EXCEPT !.at = "bundle", !.found = listed[i]]
              \/ /\ status # "outage"
                 /\ status = "ok" => \A i \in DOMAIN listed : listed[i].says # "bundle"
                 /\ Go("fallback")
  /\ UNCHANGED Registry

\* The index under the sha256-<hex> tag, there once something was attached.
BundleFromFallbackTag ==
  /\ At("fallback")
  /\ LET there == scheme = "fallback" /\ attached[step.digest] # <<>>
     IN  \E status \in Failures \cup {"ok"} :
           /\ Responds("fallback", IF there THEN "ok" ELSE "gone", status)
           /\ IF status = "ok"
              THEN step' = [step EXCEPT !.at = "scan", !.index = attached[step.digest]]
              ELSE Fail(Ladder(status, "NOT_FOUND"))
  /\ UNCHANGED Registry

\* One entry of that index: named as a bundle, or looked into; an entry that is
\* answered with an error, or holds something else, is passed over, and one whose
\* request gets no answer stops the step.
ScanFallbackIndex ==
  /\ At("scan")
  /\ LET rest == step.index IN
       IF rest = <<>> THEN Fail("NOT_FOUND") /\ UNCHANGED faults
       ELSE IF Head(rest).says = "bundle"
       THEN step' = [step EXCEPT !.at = "bundle", !.found = Head(rest)] /\ UNCHANGED faults
       ELSE \E status \in Failures \cup {"ok"} :
              /\ Responds("entry", "ok", status)
              /\ \/ status = "outage" /\ Fail("TRANSIENT")
                 \/ step' = IF status = "ok" /\ Head(rest).holds = "bundle"
                            THEN [step EXCEPT !.at = "blob", !.found = Head(rest)]
                            ELSE [step EXCEPT !.index = Tail(rest)]
  /\ UNCHANGED Registry

\* A manifest a descriptor named: its absence is a contradiction, not an answer.
BundleFromManifest ==
  /\ At("bundle")
  /\ \E status \in Failures \cup {"ok"} :
       /\ Responds("bundle", "ok", status)
       /\ IF status # "ok" THEN Fail(Ladder(status, "TRANSIENT"))
          ELSE IF step.found.holds = "bundle" THEN Go("blob") ELSE Fail("NOT_FOUND")
  /\ UNCHANGED Registry

BundleBlob ==
  /\ At("blob")
  /\ \E status \in Failures \cup {"ok"} :
       /\ Responds("blob", "ok", status)
       /\ IF status = "ok" THEN Go("labels") ELSE Fail(Ladder(status, "NOT_FOUND"))
  /\ UNCHANGED Registry

\* Index, platform manifest and config, each addressed by digest: three
\* requests that fail alike.
FetchImageConfigLabels ==
  /\ At("labels")
  /\ \E status \in Failures \cup {"ok"} :
       /\ Responds("labels", "ok", status)
       /\ IF status = "ok" THEN step' = [step EXCEPT !.at = "verify", !.label = LabelOf(step.digest)]
          ELSE IF status = "gone" THEN Fail("NOT_FOUND") ELSE Fail(Ladder(status, "TRANSIENT"))
  /\ UNCHANGED Registry

\* The trust root is fetched here: without it, nothing verifies.
VerifyBundle ==
  /\ At("verify")
  /\ \E status \in {"ok", "outage"} :
       /\ Responds("trust root", "ok", status)
       /\ LET bundle == step.found.bundle IN
            IF /\ status = "ok"
               /\ PolicyHolds(step.ref, bundle)
               /\ AssertSignedDigest(bundle, step.digest)
               /\ CheckImageEngine(step.label, step.engine)
            THEN Go("verified") ELSE Fail("VERIFY_FAILED")
  /\ UNCHANGED Registry

\* docker compose up --pull always, with the reference the step was given.
Pull ==
  /\ At("verified")
  /\ step' = [step EXCEPT !.at = "started", !.pulled = ImageRef(step)]
  /\ UNCHANGED <<Registry, faults>>

Step ==
  \/ BuildVerifyOptions \/ FetchRegistryToken \/ FetchManifestDigest
  \/ BundleFromReferrers \/ BundleFromFallbackTag \/ ScanFallbackIndex
  \/ BundleFromManifest \/ BundleBlob \/ FetchImageConfigLabels
  \/ VerifyBundle \/ Pull

(***************************************************************************)
(* The registry's writers                                                  *)
(***************************************************************************)
Bundle(image, san, commit) == [subject |-> image, san |-> san, commit |-> commit]
NoBundle == Bundle(Missing, [kind |-> "branch", text |-> <<>>], <<>>)

\* A descriptor says what it holds, or only that its config is empty.
Descriptor(says, holds, bundle) == [says |-> says, holds |-> holds, bundle |-> bundle]

ImageOf(r, engine, build) ==
  [release |-> r.text, commit |-> r.commit, engine |-> engine, build |-> build]
VersionTag(r, engine) == r.text \o EngineTagSuffix(engine)
CommitTag(r, engine) == <<"sha-">> \o r.commit \o EngineTagSuffix(engine)

Over == step.at \in {"failed", "started"}
Write == ~ Over /\ events < MaxEvents /\ events' = events + 1 /\ UNCHANGED <<scheme, faults, step>>

\* One leg of build-and-push: a new image under the version's tag and the
\* commit's.  A re-run builds the release once more.
Push(r, engine) ==
  \E build \in 1..MaxBuilds :
    LET image == ImageOf(r, engine, build) IN
    /\ image \notin DOMAIN attached
    /\ build > 1 => ImageOf(r, engine, build - 1) \in DOMAIN attached
    /\ tags' = [t \in DOMAIN tags \cup {VersionTag(r, engine), CommitTag(r, engine)} |->
                  IF t \in {VersionTag(r, engine), CommitTag(r, engine)} THEN image ELSE tags[t]]
    /\ attached' = [i \in DOMAIN attached \cup {image} |->
                      IF i = image THEN <<>> ELSE attached[i]]
    /\ UNCHANGED signed
    /\ Write

\* sign-and-attest, cosign's bundle or the attestation's.  The certificate names
\* the ref and the commit the workflow ran on: the pushed tag of the release, or,
\* dispatched with another tag to build, any release's tag or a branch.
Sign(image) ==
  \E run \in {Bundle(image, [kind |-> "tag", text |-> r.text], r.commit) : r \in Releases}
               \cup {Bundle(image, [kind |-> "branch", text |-> <<"main">>], <<"m">>)},
     says \in IF scheme = "referrers" THEN {"bundle"} ELSE {"bundle", "empty"} :
    /\ \A b \in signed : b.subject = image => b = run
    /\ signed' = signed \cup {run}
    /\ attached' = [attached EXCEPT ![image] = Append(@, Descriptor(says, "bundle", run))]
    /\ UNCHANGED tags
    /\ Write

\* The tags of a release's series, `1` and `1.0` of 1.0.0.
SeriesTags(r) == {SubSeq(r.text, 1, i - 1) : i \in {n \in DOMAIN r.text : r.text[n] = "."}}

\* update-major-tag: a tag of the series follows a published release that is no
\* prerelease; it moves the plain tags alone.  A series holds one full release.
MoveSeriesTag(r) ==
  /\ Range(r.text) \subseteq Digits \cup {"."}
  /\ VersionTag(r, "universal") \in DOMAIN tags
  /\ \E series \in SeriesTags(r) :
       tags' = [t \in DOMAIN tags \cup {series} |->
                  IF t = series THEN tags[VersionTag(r, "universal")] ELSE tags[t]]
  /\ UNCHANGED <<attached, signed>>
  /\ Write

\* Whoever may write packages: a tag moved to another image, ...
Repoint ==
  /\ \E t \in DOMAIN tags, image \in DOMAIN attached :
       tags[t] # image /\ tags' = [tags EXCEPT ![t] = image]
  /\ UNCHANGED <<attached, signed>>
  /\ Write

\* ... and one image's bundle, or an artifact of another kind, on another.
Attach ==
  /\ \E image \in DOMAIN attached, front \in BOOLEAN,
        d \in {Descriptor("empty", "other", NoBundle)}
                \cup {Descriptor("bundle", "bundle", b) : b \in signed} :
       /\ d.bundle.subject # image
       /\ attached' = [attached EXCEPT ![image] = IF front THEN <<d>> \o @ ELSE Append(@, d)]
  /\ UNCHANGED <<tags, signed>>
  /\ Write

Writers ==
  \/ \E r \in Releases : MoveSeriesTag(r) \/ \E e \in Engines : Push(r, e)
  \/ \E image \in DOMAIN attached : Sign(image)
  \/ Repoint
  \/ Attach

\* The first release is out, both its images signed, its series tags moved.
Init ==
  /\ scheme \in {"referrers", "fallback"}
  /\ events = 0
  /\ faults = {}
  /\ LET first(e) == ImageOf(FirstOut, e, 1)
         bundle(e) == Bundle(first(e), [kind |-> "tag", text |-> FirstOut.text], FirstOut.commit)
         named == {<<VersionTag(FirstOut, e), e>> : e \in Engines}
                    \cup {<<CommitTag(FirstOut, e), e>> : e \in Engines}
                    \cup {<<series, "universal">> : series \in SeriesTags(FirstOut)}
     IN  /\ tags = [t \in {n[1] : n \in named} |->
                      first((CHOOSE n \in named : n[1] = t)[2])]
         /\ \E says \in IF scheme = "referrers" THEN {"bundle"} ELSE {"bundle", "empty"} :
              attached = [i \in {first(e) : e \in Engines} |->
                            <<Descriptor(says, "bundle", bundle(i.engine))>>]
         /\ signed = {bundle(e) : e \in Engines}
  /\ \E ref \in Refs, engine \in Engines :
       step = [ref |-> ref, engine |-> engine, at |-> "start", tag |-> <<>>,
               digest |-> Missing, ready |-> FALSE, index |-> <<>>,
               found |-> Descriptor("", "", NoBundle), label |-> <<>>,
               code |-> "", pulled |-> Missing]

Next == Step \/ Writers

Spec == Init /\ [][Next]_vars

-----------------------------------------------------------------------------
(***************************************************************************)
(* Properties                                                              *)
(***************************************************************************)
Started == step.at = "started"

\* What is started was signed by the release workflow, on a release the ref
\* accepts, whatever was moved or attached while the step was looking
\* (docs/security.md: "no time-of-check/time-of-use gap").
StartedImageIsSigned ==
  Started => \E b \in signed : b.subject = step.pulled /\ PolicyHolds(step.ref, b)

\* The images a pin stands for: those of its commit, or of its series.
Accepts(ref, image) ==
  IF ref.kind = "sha" THEN image.commit = ref.text
  ELSE IsPrefix(Append(ref.text, "."), Append(image.release, "."))

\* A signature of the run that the image's own tag started.
OfItsOwnTag(bundle) ==
  /\ bundle.san = [kind |-> "tag", text |-> bundle.subject.release]
  /\ bundle.commit = bundle.subject.commit

\* A step pinned to a commit starts an image built from that commit, and one
\* pinned to a version an image of that series, unless the workflow that signed
\* the image had been dispatched on a ref the pin takes to build another tag.
PinHoldsUnlessDispatched ==
  Started =>
    \/ Accepts(step.ref, step.pulled)
    \/ \E b \in signed : /\ b.subject = step.pulled /\ ~ OfItsOwnTag(b)
                         /\ PolicyHolds(step.ref, b)

\* A version that reads as another version with an engine's suffix.
EndsAsAnEngine(text) == \E e \in Engines \ {"universal"} : IsSuffix(EngineTagSuffix(e), text)

\* Rules written for one engine are enforced by that engine, however the tags
\* were moved between the images of a release (engine-label.ts), unless the
\* release is named as if an engine's suffix had been added to another.
EngineHoldsUnlessNamedAsOne ==
  Started => step.pulled.engine = step.engine \/ EndsAsAnEngine(step.pulled.release)

\* With every response honest and nothing attached to the image but signatures of
\* its own tag's run, a step was refused whose tag led to an image of its series
\* and engine, signed by then.
RefusedThoughSigned ==
  LET image == step.digest IN
  /\ step.at = "failed" /\ step.ready /\ faults = {}
  /\ Accepts(step.ref, image) /\ image.engine = step.engine
  /\ \A i \in DOMAIN attached[image] :
       LET d == attached[image][i] IN
       "bundle" \in {d.says, d.holds} => d.bundle.subject = image /\ OfItsOwnTag(d.bundle)

\* A signed release X.Y.Z or X.Y.Z-rcN is never refused; another prerelease is,
\* by engine-label.ts, which takes no other text for a version.
SignedReleaseStarts == RefusedThoughSigned => ~ IsReleaseVersion(step.digest.release)

\* A registry that is down is not an image that is missing: an outage reads as
\* NOT_FOUND only where a fallback index's entry was passed over.
OutageIsNotAbsence ==
  step.code = "NOT_FOUND" =>
    \A f \in faults : f[2] = "outage" => f[1] = "entry"

=============================================================================
