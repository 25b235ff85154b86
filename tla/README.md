# Verification of isolated-run

TLA+ models of the `run` action: a step that executes a command in a sandbox whose only way out is
a proxy container. The modules are checked with TLC on small instances and, where this file says
so, proved with TLAPS for every instance. Paths are relative to the repository's root.

## The system

A workflow step starts the action (`src/main.ts`). It resolves a file system plan, verifies and
starts a proxy container, assembles an OCI bundle, and runs `scripts/run-isolated.sh` under sudo,
which wires a network namespace to the proxy and starts the command with runc. Afterwards it reads
the proxy's logs into a report and gives everything back. A post process (`src/post.ts`) of the
same step runs later and reclaims what a killed main process left. Several steps may run on one
host at the same time.

| Component | State it keeps | Operations | Hard parts | Correct when | Module |
| --- | --- | --- | --- | --- | --- |
| Step lifecycle (`sandbox-step.ts`, `proxy-lifecycle.ts`, `container.ts`, `post-*.ts`) | container, scratch dir, GITHUB_STATE, exit code | acquire in order, run, report, release in reverse; post check and reclaim | kills at any point, failures in `finally`, state the command can rewrite, concurrent steps | no step loses what it uses; nothing outlives the post step; the exit code is the command's | `StepLifecycle`, `StepLease`, `StepLifecycleProofs` |
| write_through targets (`write-through.ts`, `filesystem-plan.ts`) | directories and links of the host, and what each step created | look, stat, mkdir, roll back, rmdir | check-then-act on a tree shared with other steps and commands, links that move, directories the runner cannot search | only own empty directories go; what is made is as restricted as what it is in | `WriteThrough`, `WriteThroughProofs` |
| Privileged script and scratch dir (`run-isolated.sh`, `scratch-dir.ts`) | mounts, namespaces, veth, CA placeholder, processes | set up, run, trap, recursive delete | signals and kills between any two commands, failing unmounts | a running command keeps its network; nothing is left when the teardown's commands work, and the scratch dir not after one failure | `RunIsolated`, `RunIsolatedProofs` |
| Inspect engine's proxy (`acl/haproxy-*.ts`) | a connection's variables, resolver answers | detect, pass through, inspect, resolve, connect | order of rule, resolution, address check and connection | only what a rule allows reaches an origin | `InspectProxy`, `InspectRules`, `Egress`, `InspectProxyProofs` |
| Inspect engine's resolver (`coredns-config.ts`) | its log | answer a lookup with the gateway, log a verb | the same rules in a second generated configuration | its log agrees with what the proxy lets through | `InspectRules`, `InspectProxy` |
| Inspect log and tables (`log/inspect.ts`, `log/traffic-event.ts`, `report/build/inspect.ts`) | rows by host | line to event, event to row | termination letters that mean different things in each phase; rows one log takes out of another | a refusal is blocked, an origin's failure is failed, a refused name has a row | `InspectLog` |
| Universal engine's proxy (`docker/universal`) | a connection's variables, the answers held | judge SNI or Host, resolve, connect | one variable serves the log and the rules; an answer is held past its lifetime | the same promise as the inspect engine's | `UniversalProxy`, `Egress`, `UniversalProxyProofs` |
| Log files and outcome (`rotated-log.ts`, `report.ts`, `step-report.ts`, `report/outcome`, `log/start-marker.ts`) | files of each log, what was read of them | rotate, list, read, judge, decide the outcome | rotation while reading, restarts, lines cut short, a container that dies | a refusal fails the step, or the report knows that it cannot tell | `ReportLog`, `ReportLogProofs` |
| Sandbox mounts (`sandbox/oci-*.ts`, `ephemeral-fs.ts`, `filesystem-plan.ts`) | the ordered list of mounts | plan overlays, order binds, protect paths | later mounts hide earlier ones; the host's table moves meanwhile | what the command can write is what was declared | `SandboxMounts`, `SandboxMountsProofs` |
| Rule grammar (`acl/*-rules.ts`, `*wildcard*.ts`, `haproxy-matchers.ts`) | none | wildcard, `~` and URL rules to matchers | several compilers of one rule that have to agree | name and connection are judged alike, as the vocabulary says | `RulePatterns` |
| Image provenance (`provenance/*`) | what the registry answered so far | resolve, fetch, verify, pin | tags that move between requests, requests that fail | what is verified is what is started; an outage is not an absence | `ImageProvenance`, `ImageProvenanceProofs` |

`PROJECT.json` lists every part with its files; the parts without a module are under "Not modelled".

The components interact through the host (directory tree, mount table, `/etc/buildcage-ca.pem`),
the Docker daemon (containers by name), GITHUB_STATE, and process trees: the action waits for
sudo, sudo for the script, the script for runc, runc for the command.

## Modules

**`StepLifecycle`.** One main process and one post process per step. `pc` walks the awaits of
`runSandboxStep`; every action is one call that can fail, with the failure unwinding (`Throw`) to
the `finally` that is next on the stack. All names of a step derive from one random container
name, so the step stands for it. The environment may kill a main process, a proxy may die, and the
running command may rewrite its GITHUB_STATE to any step's name (`RewriteState`), which is what
the ownership check (`PostCheck`) is for. A proxy that died leaves a container that is there but
stopped: it can still be removed, but its logs cannot be read by `docker exec`. `StepLease` is what the lifecycle promises: a step's
resources are taken, used and released by that step only. `StepLifecycle` implements it under the
refinement mapping at the end of the module.

**`WriteThrough`.** Steps and running commands on one directory tree. Which targets the steps name is
chosen in `Init` from `Plans`. Looking, `stat`, `mkdir -p` and each `rmdir` are actions of their own,
because other steps and commands run between them. A path is the sequence of its names, resolved anew by
every call (`At`): a name of `LinkPaths` may be a link that commands make, point elsewhere and remove.
What is below a directory of `Closed` is not there for `existsSync`, and is there for the mkdir. Modes
are abstracted to "the owner only" and "anyone" (1777, which is sticky), owners to root and the runner. A
target that another step gave back before `Mount` makes runc fail, and the step gives back what it made.
`byCommand`, `leftover` and `astray` are history: what commands have made, what a failed `mkdir -p` had
made by then, and what a mkdir made where its stat had not looked, or of the host was removed. The
properties speak of them, the steps never read them. Two properties are of steps whose entries no link
and no closed directory is on (`Plain`).

**`RunIsolated`.** The script line by line as far as a line changes the host, its exit trap, runc
and the command as processes, and what the main or the post process does after it: `cleanupScratchDir`,
then stopping the proxy's container, which takes its namespace and with it `buildcage0`. The kernel
is external and is a few operators: namespaces end with their last process, the names mounted on them
with the script's mount namespace, unlinking a file detaches the mounts on it, a death signal reaches
only a child that has asked for it.

**`InspectRules`.** The rules as the two generated configurations apply them, as operators: which
rule matches a connection or a request (`hostRuleToMatcher`, `ruleBlock`), the path normalization
and the denies that follow it (`inspectStage`), and the view of the Corefile a lookup falls into
(`Verb`). A regular expression is the set of `<<host, port>>` pairs it matches; hosts that differ
only in case or in the port a Host header repeats are one value; a path is a sequence of segments,
each a sequence of parts with `%2f` or `%5c` between them.

**`InspectProxy`.** A connection from the redirect to its log line. `stage` is the point it has
reached in the generated configuration: `detect` and `lookup` are the detect frontend, `request`,
`resolve` and `resolveAgain` an inspected stage, `denied`, `missing-host-header` and `internal` a
deny that has not been logged yet, `dial`, `connect` and `relay` the backends. `aimed` is the
address the client chose and `dst` the one that `set-dst` left; they are different fields because
mixing them up is the mistake this part of the code is most careful about. A line carries the
fields the report reads, next to `fate`, what really became of the stream, which the report does
not see. `Lookup` is the resolver.

**`Egress`.** What the rules promise about the world outside: a name is asked about, and a
connection made, only for an exchange a rule allows; an address of the host's or the network's own
is reached only when a rule names the address. It knows nothing of stages, logs or order.
`InspectProxy` and `UniversalProxy` both implement it.

**`InspectLog`.** `parseProxyLine`, `scanInspectDnsLog` and `buildInspectReportData` as operators.
A log is the set of its lines; times, sizes and counts are left out.

**`UniversalProxy`.** The one configuration template of this engine, section by section: a connection
that did not come through a name is judged by the `ip` rules, a TLS one by its SNI, a request by its
Host, each before the name is resolved and guarded. An SNI and a Host are texts, of a name or of an
address. `Target` is `txn.target`, which the log prints and the `ip` rules read: what the client claims,
where it claims something. The clock has ticks: a name's address may rotate at each, and an answer
HAProxy holds runs out after `Hold` of them (`hold valid 60s`), however often it is used. `Table` is
`scanHaproxyLog`'s classification.

**`ReportLog`.** A log is the sequence of the lines its service wrote, and a file an interval of it.
Services write and restart, s6-log stores lines and rotates `current`, the container may die; beside
that the report lists the files of each log, reads them by name, judges the record
(`HeadIntact`, `Plausible`), computes the tables with `InspectLog`, and decides the step. A failure
of the report is a warning (`Warn`). Line lengths are one kind of line, `cut`.

**`SandboxMounts`.** From the validated input to what each path of the sandbox shows. The code's side
(`Plan`, `BuildConfig`, `ReadonlyPaths`) builds config.json from the host's mount table as it was
read. The other side applies it to the table as it is by then: `Capture` is the script's
`mount --rbind /`, `MountNext`, `ReadonlyNext` and `MaskNext` are one entry each of runc's three lists,
`RunCommand` starts the command. A path is a sequence of names, and `shown` says which mount it is on:
the last one made at or above it. `HostMounts` and `HostUnmounts` change the table until the capture.

**`RulePatterns`.** A rule's text as a sequence of tokens, and every compiler of it: the universal
engine's, the inspect engine's for host and URL rules, the resolver's names, and the rules that mark
rows as expected. `Search` is a small regular-expression engine over the constructs the compilers
write. `MCRulePatterns` enumerates the texts and compares; it also sends every short path through
`Normalized` and `PathDenied` of `InspectRules` and compares with what an origin makes of it that
takes every encoded separator for a separator.

**`ImageProvenance`.** One step's verification, one registry request per action, each of which may
fail in four ways (gone, refused, denied, outage), in either place a registry keeps bundles. Beside
it run the workflows that push, sign and re-tag, and whoever else may write packages: a tag moved, a
bundle attached to an image it does not sign. A workflow that is dispatched may build another tag than
the one its certificate names, and a release is any version a tag can spell, prereleases such as
`1.0.0-beta.1` or `1.0.0-inspect` included. A digest is the image it addresses; Sigstore's own
verification of a bundle is one decision, and only the workflow adds to `signed`.

The other `MC*` modules give the constants their values.

External to the inspect modules are HAProxy, the client, the upstream resolvers and the origins.
Assumed of them: the first bytes of a connection are there, or the inspect delay is over, when the
content rules run; any address may answer any lookup, or none in time; a failed connection is
retried `Retries` times. A client that leaves during a resolution is not modelled.
`Room` bounds the events of a behaviour: requests, other connections and lookups.

## Runs

| Run | Question | Bounds | Result |
| --- | --- | --- | --- |
| `lifecycle` | do concurrent steps keep their resources, report before stopping, and keep the exit code? | 2 steps, 1 failure, any kills | holds |
| `lifecycle_live` | is every container reclaimed in the end? | 2 steps, one without a post step | holds under `FairSpec` |
| `write_through` | does nothing restricted become writable, does nothing of the host's go, and is every directory a step made given back? | 2 steps, 5 plans (a shared target, targets of their own, one step alone, a name that is linked elsewhere, a closed directory), 1 failure | holds |
| `isolated` | does a command keep its network, and does the teardown leave nothing, the scratch dir only after two failures? | 2 steps, one of each engine, 2 failures, signals or kills | holds |
| `isolated_ca` | does the CA file stay mounted while the command runs? | 2 steps | it does not: the other step's trap unlinks the placeholder |
| `inspect` | does the proxy do only what the rules promise, and does the report say what happened? | 3 rule sets (full, empty, audit), 5 names, 2 addresses, 2 ports, 1 connection at a time, 2 events (1 in audit), 1 retry | holds |
| `universal` | the same for the universal engine; how old is an address that is dialled? | 4 rule sets, 2 names, 3 addresses, 2 ports, 2 streams (3 under the rule set for held answers), 2 ticks, answers held for 2 | holds |
| `universal_direct` | does an allowed `ip:port` take any TCP protocol? | 1 stream | it does not: a ClientHello with an SNI is refused |
| `rules` | does a rule mean what its vocabulary says, to all that read it, and is what is judged what an origin reads? | host halves of 3 tokens, rule paths of 3, names of 3 characters, request paths of 3 segments of up to 2 parts | holds |
| `report_log` | is a record that is called complete complete, and does a refusal decide the step? | 5 lines, files of 2, 1 archive, 1 restart | holds |
| `mounts` | can the command write what was declared and nothing else? | 23 paths, 4 mount points, 2 devices, 4 layouts, 10 inputs, 1 change of the host's table | holds |
| `provenance` | is the image that starts the one that was pinned, signed and of the engine asked for, and is a signed one never refused? | 5 releases, 2 engines, 7 refs, 2 acts of other writers, 1 failed response | holds |

Two steps are enough for what steps do to each other: every shared thing is shared pairwise, and a
step's name is never compared with more than one other. One failure (two in `RunIsolated`, where a
kill and a failing unmount combine) is enough to reach each `finally` with each set of resources;
kills are not counted in `StepLifecycle`. In the inspect runs, streams share only the logs, so one
stream and one lookup meet every combination of a line and a verb, and a second stream is what a kept
connection adds: two events are either. In audit nothing is judged, so one is enough. The rule set has one rule of each kind, with a port, with any port and without
one, and the addresses are one guarded and one not. 

Two action constraints of the MC modules leave out what adds states and no behaviour of interest. In
`write_through` a command makes and links only what an entry may lead through (`OnlyOnEntries`): what else
it makes in a directory is the same to every step as a file it writes there, which is not constrained. In
`universal` the third stream, which lets a held answer be used twice before it runs out, is for one rule
set (`ThirdIsOfHeld`). The theorems have neither.

Two files, of
two lines each, and five lines let a log rotate twice, so that a file is renamed, and one dropped,
between listing and reading. Three tokens hold every pair of adjacent constructs with something beside
it; a label, a separator and a label are three characters. The paths of `mounts` have one of every
kind the sandbox treats specially, with a mount above, at and below a declared directory, and one
change of the host's table comes before, between or after the two readings of it. In `provenance` two
acts of the writers move a tag and move it again, or move one and attach something, between any two
requests. Deadlock is not checked where a finished system stops.

A run marked as violated checks a sentence that a comment or a document of the repository states;
`PROJECT.json` quotes it next to the code that does otherwise.

## Fairness

`FairSpec` of `StepLifecycle` asks for weak fairness of two things. A main process goes on or is
killed: every call it waits for returns, or the runner's job timeout ends the process. And the
post process goes on: the runner always runs it, and each of its calls has a timeout of its own or
ends with the daemon's answer. Nothing is assumed about the command.

## Proofs

`StepLifecycleProofs` proves, for every set of steps and every bound: `TypeCorrect`,
`LiveStepsKeepTheirResources`, `ReportsAreRead`, `PostReclaimsItsStep` and `ImplementsLease`. The
assumptions are those of the module: names that are no step's (`NamesAssumption`), an owner token
of its own for every step that has a post step (`OwnerAssumption`), and the bounds'.

`LiveStepKeepsResources` is not inductive: a post process that passed the check on another step's
name could tear that step down later. `IInv` adds what the code's comment in `post-cleanup.ts`
argues (`startedByThisStep`): a post process passes the check on a foreign name only if no
container was there (`ClaimedTargets`); a name is learnt only from a container that exists
(`LearntNames`), so its step is past `compose up` (`CreatedByUp`) and never creates one again; and
a post process starts only after its own main process has ended (`PostAfterMain`).

Two more follow from what a step owes by phase: `DirsAreGivenBack` (directories are owed from `Plan` to
`GiveBack`) and `ExitCodesAreFaithful` (what did not throw has removed its scratch dir before it reports).

`InspectProxyProofs` proves that `InspectProxy` implements `Egress` (`ProxyImplementsEgress`), for
any rules, names, addresses, ports and connections, and that its state keeps its types
(`ProxyTypeCorrect`). Assumed is that the log's `-` is no name, address or port, that the report's
name for an unknown host is none either, and the shape of a rule (`InspectProxyAssumption`). `Egress`
speaks of steps, so the invariant has to say what a stream knows before it takes one (`ConnOK`): in
`lookup` the tls rule holds, in `resolve` the rules allow the request, in `dial` they allow it at the
address that is set and the guard has let that address through. A stream's kind (`Via`) is a function
of the rules and of fields nothing changes after the connection was opened (`ViaStays`), so what was
decided stays decided. What normalization returns is never looked into: the rules judge the normalized
path, whatever it is, and that judging it is enough is the question of `rules`.

It also proves what the report makes of the logs: `ReportsTellWhatHappened`, `RowsOfReportsAreNamed`,
`RefusedLookupsAreReported` and `JudgesAgree`. Here the invariant relates the fields that a line will
carry to the stage the stream has come to, and every line that was logged to the fate beside it.

`UniversalProxyProofs` proves the same of the other engine. `TablesAreTold` and
`DialledAddressesAreRecent` hold for every rule set. The second rests on `HeldIsRecent`: the age of a
held address and the time it may still be held add up to at most `Hold`, whatever rotates and however
often it is used. `UniversalProxyImplementsEgress` is about what was reached as the client claimed it
(`AsClaimed`): past the gateway `txn.target`, which the `ip` rules read, is the SNI when there is one
(`haproxy.cfg.template:73`). That Egress judges alike what was reached and what was claimed is
`ClaimsAreJudgedAlike`. The theorem says nothing of the address such a connection goes to, and could not:
see the deviations.

`WriteThroughProofs` proves all four properties of `WriteThrough`, for any tree, any entries and links,
any number of steps and of failures. `RestrictionsStay` needs that between the look and the mkdir what is
of the host between the ancestor and the target is `Obscured`, there and not to be seen (`WalkOK`), and
that the identity `stat` gave is that of the host's own directory above the place it looked at
(`IdentityOK`); a mkdir that a link led elsewhere makes what is `astray`, and of that nothing is claimed.
`OthersKeepTheirs` needs that what a step records is on its entries, and of the host only where it is
obscured (`CreatedOK`). `RollbacksAreComplete` and `EmptyOnesAreGivenBack` are about `Plain` steps and
need more: that a directory which the step alone has to give back (`Mine`) is recorded by one who may remove
it, with all that lies in it recorded later (`GivenBack`), so that working the records off from the end
finds it empty. That a mkdir keeps this when its ancestor has gone since the look is `SeenOK`: the
identity it took is the one those directories were recorded under.

`RunIsolatedProofs` proves all four of `RunIsolated`: `ScratchIsReclaimed`, `CommandsKeepTheirNetwork`,
`CodesAreFaithful` and `TrapsTearDown`. A process runs under the script only between the fork and its
reaping, or when the script was killed (`Processed`); the wiring is complete by the fork, and is lost to
what still runs only with the proxy or a failed `runc delete` (`WiringOK`); each command of the trap that
worked has taken its part away (`TornDown`); the CA's placeholder is there only as some step's that has
not come to its `rm` (`PlaceholderHeld`); the tree is mounted for as long as the action waits
(`RootStands`); and behind a scratch dir that the action left stands one failure, behind one that the
post step left too a second (`Reclaims`).

`ReportLogProofs` proves `RecordsAreComplete` and `RefusalsDecide`, for files, lines and rotations of any
number. Files are intervals of the log, one after the other (`FilesOK`); what was read is what comes
before the rest of the listing, as long as none was renamed (`InOrder`); and the marker at the oldest line
is then the first marker, or that of a restart. Assumed (`ReportLogAssumption`) is that no name is both
denied and allowed in the resolver's log, which is `JudgesAgree` for the inspect engine, and that a file
holds more than one line.

`ImageProvenanceProofs` proves all five of `ImageProvenance`, for any releases, pins, engines and any
number of builds, writes and failed responses. The registry only grows but for its tags; what was
found names a digest, and what was verified about a digest is a fact about it, so no later write can
make it false (`VerifiedOK`). A signature of the image's own tag then gives the pin (`PinsHold`), by the
comparison of whole dot-separated parts (`WholeParts`); a dispatched one is the theorem's exception. The
label gives the engine but for a version that ends like an engine's suffix (`LabelsNameTheEngine`), and an
image of a version that the label check knows meets no refusal that a response or a foreign bundle did not
cause (`UnhinderedOK`). Nothing is assumed of how releases are called.

`SandboxMountsProofs` proves all four of `SandboxMounts`: `WritesSafe`, `ScratchSafe`, `MountsWinSafe`
and `DeclaredSafe`, for any tree, any mounts of the host and any number of changes to them, any
runner directories and inputs. The invariant (`Invariance`) says of every path, at every step of runc,
which mount it is on: the last one at or above it among those already made (`Laid`), or that one forced
read-only or masked (`Seen`, `ViewOK`). From that, `Topmost` reads off the order of the parts of the list:
the scratch base over the sandbox's own mounts, these over the layers, these over runc's. Three more parts
are needed. What may be written: every host mount of the table was listed and forced read-only, or is
masked, runc's, declared, or came late (`ConfigOK`). What is masked: nothing made before it shows below a
socket (`ProtectedOK`). And what is declared: an overlay was planned for a candidate on the filesystem it
shows, or that of the parent it was folded into (`PlanOK`, `Parenting`, `Folded`). The lemmas on sorting
and on writing each directory once (`Sorting`, `Deduped`) argue from a minimal counterexample
(`Least`), where one would expect an induction. Assumed is where the paths that the code names lie:
`PathsAssumption` (the scratch directories within each other, on the host), and `ApartAssumption` (runc's
mounts and what the action mounts itself are not within each other, the scratch base or a masked
path, and the runner's directories are not files that the action mounts).

Only model-checked: `ContainerReclaimed`, because liveness is out of the prover's reach; and the five
properties of `rules`, because `RulePatterns` declares RECURSIVE operators and what its compilers do is a
fact about sequences of any length, which takes induction over data.

## Known deviations

Where the code does something else than a sentence of the repository says. The first two have a run;
the others follow from the model, whose properties name them as exceptions (without the exception TLC
finds a behaviour that breaks them), or from the code read for it.

- `isolated_ca`: the trap of one step unlinks the placeholder under another step's CA mount
  (`run-isolated.sh:142`).
- `universal_direct`: the SNI replaces the address in the variable the `ip` rules read
  (`haproxy.cfg.template:73`).
- A `mkdir -p` that fails part way, because a name is too long, leaves what it had made, which is not
  recorded and which no rollback removes; if an entry before it made a directory above, that one is not
  empty and stays as well (`write-through.ts:291`, against the comments at lines 234 and 243).
  `RollbackComplete` excepts what is on the way to such a rest (`leftover`).
- A connection past the gateway whose SNI spells an address that an `ip` rule has is taken for one to
  that address, wherever it goes (`haproxy.cfg.template:62,73`, against `docs/security.md:294`).
  `ImplementsEgress` judges it by the claim (`AsClaimed`).
- A link on the way of a write_through entry that is pointed elsewhere between `stat` and `mkdir -p` has the
  directory made in one place as the owner, and with the mode, of another (`write-through.ts:290`, against
  the comment at lines 207 and 213). `RestrictedStaysRestricted` excepts what is made so (`astray`).
- `existsSync` is false below a directory that the runner may not search. `mkdir -p` as root succeeds on what
  is there, which is then recorded as created and removed when it is empty (`write-through.ts:291`, against
  the comment at line 311). `NothingOfOthersIsRemoved` excepts such names (`Obscured`).
- A write_through target both steps name can be given back by one of them after the other has seen it
  and before it is mounted (`write-through.ts:326`, against the comment at `oci-mounts.ts:125`). runc
  then fails, which `Mount` models.
- A SIGKILL of the script before its child has asked for a death signal leaves the command as an orphan
  (`run-isolated.sh:240`, against `docs/security.md:194`), which loses `buildcage0` when the proxy's
  container is stopped. `CommandKeepsItsNetwork` excepts it.
- When setup stops between creating the veth pair and the first move, the pair stays on the host
  (`run-isolated.sh:186`, against `docs/security.md:191`); `TrapTearsDown` leaves that case out.
- A client that leaves while the proxy still connects leaves a line (`CC`) that counts as allowed
  (`log/inspect.ts:86`, against `docs/reference.md:425`).
- A rotation between listing and reading takes lines out of a record that is still called complete,
  and so does a restart whose marker is the oldest line left (`report/types.ts:38`); the properties of
  `report_log` except both.
- Persistent mode binds `$HOME` after the work directory, and read-only host mounts between the two
  reach the work directory (`oci-mounts.ts:161`, against `docs/security.md:137`). In ephemeral mode a
  bind mount of the same filesystem is folded into the overlay of its parent although it is a mount of
  its own (`ephemeral-fs.ts:45`), and one that a write_through entry covers becomes read-only
  (`ephemeral-fs.ts:33`). `CutOff` names the three cases.
- In ephemeral mode a runner directory within one of runc's own mounts, as a `RUNNER_TEMP` in `/dev/shm`,
  gets an overlay over that mount: `assertNoFreshMountDestinations` is asked about the write_through
  entries only (`oci-mounts.ts:111`). `SandboxMountsWin` excepts it.
- A mount made between the reading of the mount table and its capture is writable if the host's is
  (`run-isolated.sh:176`); `CommandWritesWhatWasDeclared` excepts it.
- A workflow dispatched on one release's tag with another as `inputs.tag` signs the other's source under the
  first one's ref and commit (`docker-publish.yml:60`, against `docs/security.md:664`): a pin of the first
  takes the image once a tag leads to it. `PinHoldsUnlessDispatched` excepts it.
- `release.yml:33` and `docker-publish.yml:7` take any prerelease for a release, and the label check only
  `X.Y.Z` and `X.Y.Z-rcN` (`engine-label.ts:8`, against the comment above it): `v1.0.0-beta.1` is signed and
  refused, and the universal image of a `v1.0.0-inspect` passes for the inspect engine's.
  `SignedReleaseStarts` and `EngineHoldsUnlessNamedAsOne` except them.
- A fallback index entry that answers with a server error is passed over, so an outage can read as
  "no bundle" (`oci-bundle.ts:125`, against the comment at line 26).
- An image released from a branch by hand is signed for the branch and refused by every pin. The
  series tags (`1`, `1.0`) are moved for the universal image only, so a step of the inspect engine
  pinned to `v1` finds no image (`update-major-tag.yml:91`).
- A `~` rule whose port half matches nothing, as `a:?.*`, is accepted by the proxy's compiler and
  names another host to the resolver (`haproxy-rules.ts:158`); the port halves of `rules` are those
  the documents show. A group written `(?:` is outside the tokens of the model.
- On the universal engine a client that leaves before its request is reported as blocked.

Where a model is narrower than the code: `SandboxMounts` has no symbolic links, so a declared directory is
where its path says; and `TlsRule` of `InspectProxy` wants a name, while a `~` tls rule that matches
everything also matches a ClientHello without an SNI (`haproxy-detect-frontend.ts`).

## Plan

Done: everything above. A next step would be to state the rule grammar's compilers without recursion, so
that a lemma about one construct of a pattern can be proved.

## Not modelled

- Inputs (`inputs.ts`, `engine*.ts`, `compose-*.ts`): read once, validated, and a failure comes before
  anything is created. `StepLifecycle` has it as one outcome, `SandboxMounts` and `RulePatterns` what
  is validated of directories and rules.
- Report rendering (`report/render`, `core/actions`): wording and layout of tables that `InspectLog`
  and `UniversalProxy` compute.
- The records of the traffic artifact: a rendering of the same events. That its upload comes last and
  decides nothing is in `ReportLog`.
- The sandbox's user and environment (`identity.ts`, `env-loader.ts`), finding runc and setpriv, the
  probes of limits: straight-line code over what the host answers, without state of its own.
- The overlay preflight: a mount tried in a private namespace; its failure is an outcome of
  `StepLifecycle`.
- The legacy fallback manifest that is a bundle itself (`oci-bundle.ts:137`).
- Times, sizes and counts in the logs and tables; lines that do not parse, but for those that were cut.
- Docker images, the seccomp generator, CI other than the workflows in `ImageProvenance`, the bundled
  `dist/`: build descriptions, with no behaviour of their own.
