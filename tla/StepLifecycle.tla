--------------------------- MODULE StepLifecycle ---------------------------
(***************************************************************************)
(* The life of concurrent `run` steps on one host: what each main process  *)
(* (runSandboxStep) acquires, in which order it gives it back, and what    *)
(* the post process of a step may reclaim after the fact (post.ts,         *)
(* planPostCleanup).                                                       *)
(*                                                                         *)
(* A step's container, Compose project, scratch dir and sandbox netns all  *)
(* have names derived from one random container name (container.ts), so    *)
(* the step itself stands for that name here.                              *)
(***************************************************************************)
EXTENDS Naturals, FiniteSets

CONSTANTS
  Steps,       \* the steps that share the host
  Recorded,    \* the steps whose runner provides GITHUB_STATE, hence a post step
  Env,         \* Env[s]: the four variables an owner token is made of
  NoName,      \* no container_name in GITHUB_STATE
  BadName,     \* a container_name this action never generates
  ExitCodes,   \* the exit codes a command can end with
  NoCode,      \* no exit code yet
  MaxFaults    \* bound: docker and file system failures in one behaviour

\* ownerToken: the variables the runner sets per step, or the empty token as
\* soon as one of them is missing. The container carries it as its OWNER_LABEL.
OwnerToken(s) ==
  IF \E v \in DOMAIN Env[s] : Env[s][v] = "" THEN <<>>
  ELSE <<Env[s].GITHUB_RUN_ID, Env[s].GITHUB_RUN_ATTEMPT,
         Env[s].GITHUB_JOB, Env[s].GITHUB_ACTION>>

ASSUME NamesAssumption ==
  /\ Recorded \subseteq Steps
  /\ NoName \notin Steps /\ BadName \notin Steps /\ NoName # BadName

\* The runner gives every step that has a post step a token of its own.
ASSUME OwnerAssumption ==
  \A t \in Recorded, s \in Steps : OwnerToken(s) = OwnerToken(t) => s = t

ASSUME BoundsAssumption ==
  /\ ExitCodes \subseteq Nat /\ {0, 1} \subseteq ExitCodes /\ NoCode \notin ExitCodes
  /\ MaxFaults \in Nat

VARIABLES
  pc,          \* where the main process of each step is
  owed,        \* write_through dirs were pre-created and not yet given back
  container,   \* the proxy container: "absent", "unready" until it is healthy,
               \* "running", or "stopped" once its proxy died and it is still there
  scratch,     \* the sandbox scratch dir exists
  sandbox,     \* run-isolated.sh and the isolated command are alive
  saved,       \* container_name as GITHUB_STATE holds it
  command,     \* the exit code runIsolated reported, NoCode until it did
  thrown,      \* the main process is unwinding from an exception
  blocked,     \* the report's outcome set process.exitCode to 1
  report,      \* "none", "fetched" or "lost"
  post,        \* where the post process of each step is
  target,      \* the container name the post process was started with
  faults       \* failures so far, at most MaxFaults

mainVars == <<command, thrown, blocked, report, owed>>
hostVars == <<container, scratch, sandbox>>
postVars == <<post, target>>
vars == <<pc, mainVars, hostVars, saved, postVars, faults>>

\* Before startSandboxProxy has created the container, while the main process
\* counts on it, and at the end.
BeforeUp == {"preflight", "plan", "verify", "save", "up"}
Using == {"wait", "netns", "mkscratch", "assemble", "start", "run",
          "rmscratch", "report", "down"}
Ended == {"done", "killed"}
Phases == BeforeUp \cup Using \cup {"giveback"} \cup Ended
InScratch == {"assemble", "start", "run", "rmscratch"}

Init ==
  /\ pc = [s \in Steps |-> "preflight"]
  /\ owed = [s \in Steps |-> FALSE]
  /\ container = [s \in Steps |-> "absent"]
  /\ scratch = [s \in Steps |-> FALSE]
  /\ sandbox = [s \in Steps |-> FALSE]
  /\ saved = [s \in Steps |-> NoName]
  /\ command = [s \in Steps |-> NoCode]
  /\ thrown = [s \in Steps |-> FALSE]
  /\ blocked = [s \in Steps |-> FALSE]
  /\ report = [s \in Steps |-> "none"]
  /\ post = [s \in Steps |-> "waiting"]
  /\ target = [s \in Steps |-> NoName]
  /\ faults = 0

Fault == faults < MaxFaults /\ faults' = faults + 1

Goto(s, from, to) == pc[s] = from /\ pc' = [pc EXCEPT ![s] = to]

\* An exception unwinds to the closest finally block, which starts at `to`.
Throw(s, from, to) ==
  /\ Goto(s, from, to)
  /\ thrown' = [thrown EXCEPT ![s] = TRUE]

-----------------------------------------------------------------------------
(* The main process.                                                       *)

\* Inputs, passwordless sudo and overlayfs: nothing to undo when they fail.
Preflight(s) ==
  /\ \/ Goto(s, "preflight", "plan") /\ UNCHANGED thrown
     \/ Throw(s, "preflight", "done")
  /\ UNCHANGED <<owed, command, blocked, report, hostVars, saved, postVars, faults>>

\* resolveFilesystemPlan may pre-create write_through targets; when it throws
\* it has rolled them back itself.
Plan(s) ==
  /\ \/ /\ Goto(s, "plan", "verify")
        /\ \E created \in BOOLEAN : owed' = [owed EXCEPT ![s] = created]
        /\ UNCHANGED thrown
     \/ Throw(s, "plan", "done") /\ UNCHANGED owed
  /\ UNCHANGED <<command, blocked, report, hostVars, saved, postVars, faults>>

\* Image provenance and the rule inputs.
Verify(s) ==
  /\ \/ Goto(s, "verify", "save") /\ UNCHANGED thrown
     \/ Throw(s, "verify", "giveback")
  /\ UNCHANGED <<owed, command, blocked, report, hostVars, saved, postVars, faults>>

\* Bug: the GITHUB_STATE check inverted.
BugSaveInverted(s) ==
  /\ Goto(s, "save", "up")
  /\ saved' = [saved EXCEPT ![s] = IF s \in Recorded THEN @ ELSE s]
  /\ UNCHANGED <<mainVars, hostVars, postVars, faults>>

\* generateContainerName and saveCleanupState.
Save(s) ==
  /\ Goto(s, "save", "up")
  /\ saved' = [saved EXCEPT ![s] = IF s \in Recorded THEN s ELSE @]
  /\ UNCHANGED <<mainVars, hostVars, postVars, faults>>

\* `docker compose up --wait`: the daemon creates the container ...
CreateContainer(s) ==
  /\ Goto(s, "up", "wait")
  /\ container' = [container EXCEPT ![s] = "unready"]
  /\ UNCHANGED <<mainVars, scratch, sandbox, saved, postVars, faults>>

\* ... or fails before there is one (DOCKER_UNAVAILABLE).
UpFails(s) ==
  /\ Throw(s, "up", "giveback")
  /\ UNCHANGED <<owed, command, blocked, report, hostVars, saved, postVars, faults>>

Healthy(s) ==
  /\ Goto(s, "wait", "netns")
  /\ container' = [container EXCEPT ![s] = "running"]
  /\ UNCHANGED <<mainVars, scratch, sandbox, saved, postVars, faults>>

\* PROXY_NOT_READY: startSandboxProxy throws outside the inner try block, so
\* the container it created stays for the post step.
NotReady(s) ==
  /\ Throw(s, "wait", "giveback")
  /\ UNCHANGED <<owed, command, blocked, report, hostVars, saved, postVars, faults>>

\* getContainerNetns: null unless the container is running.
Netns(s) ==
  /\ \/ /\ container[s] = "running"
        /\ Goto(s, "netns", "mkscratch")
        /\ UNCHANGED <<thrown, faults>>
     \/ /\ container[s] # "running"
        /\ Throw(s, "netns", "report")
        /\ UNCHANGED faults
     \/ Fault /\ Throw(s, "netns", "report")
  /\ UNCHANGED <<owed, command, blocked, report, hostVars, saved, postVars>>

\* withScratchDir: check the base, clear a stale remnant, create the dir.
MakeScratch(s) ==
  /\ \/ /\ Goto(s, "mkscratch", "assemble")
        /\ scratch' = [scratch EXCEPT ![s] = TRUE]
        /\ UNCHANGED <<thrown, faults>>
     \/ Fault /\ Throw(s, "mkscratch", "report") /\ UNCHANGED scratch
  /\ UNCHANGED <<owed, command, blocked, report, container, sandbox, saved, postVars>>

\* assembleBundle copies runc (and the CA) out of the container.
Assemble(s) ==
  /\ \/ /\ container[s] # "absent"
        /\ Goto(s, "assemble", "start")
        /\ UNCHANGED <<thrown, faults>>
     \/ /\ container[s] = "absent"
        /\ Throw(s, "assemble", "rmscratch")
        /\ UNCHANGED faults
     \/ Fault /\ Throw(s, "assemble", "rmscratch")
  /\ UNCHANGED <<owed, command, blocked, report, hostVars, saved, postVars>>

\* run-isolated.sh needs the proxy's netns and the bundle; without them it
\* exits with 1, which runIsolated reports as the command's code.
StartSandbox(s) ==
  /\ \/ /\ container[s] = "running" /\ scratch[s]
        /\ Goto(s, "start", "run")
        /\ sandbox' = [sandbox EXCEPT ![s] = TRUE]
        /\ UNCHANGED <<command, faults>>
     \/ /\ \/ ~(container[s] = "running" /\ scratch[s]) /\ UNCHANGED faults
           \/ Fault
        /\ Goto(s, "start", "rmscratch")
        /\ command' = [command EXCEPT ![s] = 1]
        /\ UNCHANGED sandbox
  /\ UNCHANGED <<thrown, owed, blocked, report, container, scratch, saved, postVars>>

\* Bug: the null status of a signalled child is handed on as it is.
BugNullStatus(s) ==
  /\ sandbox[s]
  /\ Goto(s, "run", "rmscratch")
  /\ sandbox' = [sandbox EXCEPT ![s] = FALSE]
  /\ command' = [command EXCEPT ![s] = NoName]
  /\ UNCHANGED <<thrown, owed, blocked, report, container, scratch, saved, postVars, faults>>

\* execFileSync returns: the sandbox is gone and its code is known.
CommandExits(s) ==
  /\ sandbox[s]
  /\ Goto(s, "run", "rmscratch")
  /\ sandbox' = [sandbox EXCEPT ![s] = FALSE]
  /\ \E code \in ExitCodes : command' = [command EXCEPT ![s] = code]
  /\ UNCHANGED <<thrown, owed, blocked, report, container, scratch, saved, postVars, faults>>

\* The finally of withScratchDir: a failure here replaces the exit code or the
\* exception on its way out.
RemoveScratch(s) ==
  /\ \/ /\ Goto(s, "rmscratch", "report")
        /\ scratch' = [scratch EXCEPT ![s] = FALSE]
        /\ UNCHANGED <<thrown, faults>>
     \/ Fault /\ Throw(s, "rmscratch", "report") /\ UNCHANGED scratch
  /\ UNCHANGED <<owed, command, blocked, report, container, sandbox, saved, postVars>>

\* Bug: the proxy is stopped before its report is read.
BugReportAfterStop(s) ==
  /\ Goto(s, "report", "down")
  /\ container' = [container EXCEPT ![s] = "absent"]
  /\ report' = [report EXCEPT ![s] = "lost"]
  /\ UNCHANGED <<thrown, owed, blocked, command, scratch, sandbox, saved, postVars, faults>>

\* reportStepTraffic reads the logs with `docker exec`, which needs a running
\* container. It never throws: what fails is a warning. The outcome may set
\* process.exitCode to 1 (fail_on_blocked).
Report(s) ==
  /\ Goto(s, "report", "down")
  /\ \/ /\ container[s] = "running"
        /\ report' = [report EXCEPT ![s] = "fetched"]
        /\ \E fail \in BOOLEAN : blocked' = [blocked EXCEPT ![s] = fail]
        /\ UNCHANGED faults
     \/ /\ \/ container[s] # "running" /\ UNCHANGED faults
           \/ Fault
        /\ report' = [report EXCEPT ![s] = "lost"]
        /\ UNCHANGED blocked
  /\ UNCHANGED <<thrown, owed, command, hostVars, saved, postVars>>

\* stopSandboxProxy: `docker compose down`, whose failure is a warning.
StopProxy(s) ==
  /\ Goto(s, "down", "giveback")
  /\ \/ container' = [container EXCEPT ![s] = "absent"] /\ UNCHANGED faults
     \/ Fault /\ UNCHANGED container
  /\ UNCHANGED <<mainVars, scratch, sandbox, saved, postVars>>

\* Bug: the created directories are given back only when nothing was thrown.
BugGiveBackOnSuccess(s) ==
  /\ Goto(s, "giveback", "done")
  /\ owed' = [owed EXCEPT ![s] = @ /\ thrown[s]]
  /\ UNCHANGED <<thrown, command, blocked, report, hostVars, saved, postVars, faults>>

\* The outer finally: removeCreatedDirsIfEmpty, whose failure is a warning.
GiveBack(s) ==
  /\ Goto(s, "giveback", "done")
  /\ owed' = [owed EXCEPT ![s] = FALSE]
  /\ UNCHANGED <<thrown, command, blocked, report, hostVars, saved, postVars, faults>>

\* Bug: what was thrown does not reach the exit code.
BugExitCode(s) ==
  IF command[s] = NoCode THEN 0
  ELSE IF command[s] # 0 THEN command[s]
  ELSE IF blocked[s] THEN 1 ELSE 0

\* The code main.ts ends with: exitOnFatalError exits with 1; otherwise the
\* command's own code wins over the process.exitCode the report set.
ExitCode(s) ==
  IF thrown[s] \/ command[s] = NoCode THEN 1
  ELSE IF command[s] # 0 THEN command[s]
  ELSE IF blocked[s] THEN 1 ELSE 0

-----------------------------------------------------------------------------
(* What happens to a step from outside.                                    *)

\* The runner kills the main process outright. run-isolated.sh, a child under
\* sudo, may or may not die with it; docker's own client does.
Kill(s) ==
  /\ pc[s] \notin Ended
  /\ pc' = [pc EXCEPT ![s] = "killed"]
  /\ \E survives \in BOOLEAN : sandbox' = [sandbox EXCEPT ![s] = @ /\ survives]
  /\ UNCHANGED <<mainVars, container, scratch, saved, postVars, faults>>

\* A sandbox that outlived its main process comes to its own end.
OrphanEnds(s) ==
  /\ pc[s] = "killed" /\ sandbox[s]
  /\ sandbox' = [sandbox EXCEPT ![s] = FALSE]
  /\ UNCHANGED <<pc, mainVars, container, scratch, saved, postVars, faults>>

\* The proxy stops on its own; the container is still there, and without a
\* restart policy nothing starts it again.
ProxyDies(s) ==
  /\ container[s] = "running"
  /\ container' = [container EXCEPT ![s] = "stopped"]
  /\ UNCHANGED <<pc, mainVars, scratch, sandbox, saved, postVars, faults>>

\* The command may rewrite GITHUB_STATE. A name other than its own is one it
\* can have learnt, that of a step whose container has been created.
RewriteState(s) ==
  /\ sandbox[s] /\ saved[s] = s
  /\ \E n \in {BadName} \cup {r \in Steps : container[r] # "absent"} :
       saved' = [saved EXCEPT ![s] = n]
  /\ UNCHANGED <<pc, mainVars, hostVars, postVars, faults>>

-----------------------------------------------------------------------------
(* The post process. The runner starts it after the main process has ended *)
(* and hands it the state as it then is.                                   *)

\* resolvePostState: no name and a name this action never generates both end
\* it here.
PostStart(s) ==
  /\ s \in Recorded /\ pc[s] \in Ended /\ post[s] = "waiting"
  /\ \/ /\ saved[s] \notin Steps
        /\ post' = [post EXCEPT ![s] = "skipped"]
        /\ UNCHANGED target
     \/ /\ saved[s] \in Steps
        /\ post' = [post EXCEPT ![s] = "check"]
        /\ target' = [target EXCEPT ![s] = saved[s]]
  /\ UNCHANGED <<pc, mainVars, hostVars, saved, faults>>

\* Bug: any container of this action is taken for the step's own.
BugAnyOwner(s) == TRUE

\* startedByThisStep: no container by that name, or one this step labelled.
StartedByThisStep(s) ==
  \/ container[target[s]] = "absent"
  \/ OwnerToken(target[s]) = OwnerToken(s)

\* The ownership check; when docker cannot answer, the post process crashes.
PostCheck(s) ==
  /\ post[s] = "check"
  /\ \/ /\ StartedByThisStep(s)
        /\ post' = [post EXCEPT ![s] = "reclaim"]
        /\ UNCHANGED faults
     \/ /\ ~StartedByThisStep(s)
        /\ post' = [post EXCEPT ![s] = "skipped"]
        /\ UNCHANGED faults
     \/ Fault /\ post' = [post EXCEPT ![s] = "crashed"]
  /\ UNCHANGED <<pc, mainVars, hostVars, saved, target>>

\* Bug: the scratch dir is left to the main process.
BugPostNoReclaim(s) ==
  /\ post[s] = "reclaim"
  /\ post' = [post EXCEPT ![s] = "down"]
  /\ UNCHANGED <<pc, mainVars, hostVars, saved, target, faults>>

\* The scratch dir of the named container, if there is one; a failure is a
\* warning.
PostReclaim(s) ==
  /\ post[s] = "reclaim"
  /\ post' = [post EXCEPT ![s] = "down"]
  /\ \/ scratch' = [scratch EXCEPT ![target[s]] = FALSE] /\ UNCHANGED faults
     \/ Fault /\ UNCHANGED scratch
  /\ UNCHANGED <<pc, mainVars, container, sandbox, saved, target>>

\* stopProxyContainer: `docker compose down`, whose failure crashes the post
\* process.
PostDown(s) ==
  /\ post[s] = "down"
  /\ \/ /\ post' = [post EXCEPT ![s] = "done"]
        /\ container' = [container EXCEPT ![target[s]] = "absent"]
        /\ UNCHANGED faults
     \/ Fault /\ post' = [post EXCEPT ![s] = "crashed"] /\ UNCHANGED container
  /\ UNCHANGED <<pc, mainVars, scratch, sandbox, saved, target>>

-----------------------------------------------------------------------------
Main(s) ==
  \/ Preflight(s) \/ Plan(s) \/ Verify(s) \/ Save(s)
  \/ CreateContainer(s) \/ UpFails(s) \/ Healthy(s) \/ NotReady(s)
  \/ Netns(s) \/ MakeScratch(s) \/ Assemble(s) \/ StartSandbox(s)
  \/ CommandExits(s) \/ RemoveScratch(s) \/ Report(s) \/ StopProxy(s)
  \/ GiveBack(s)

Environment(s) == Kill(s) \/ OrphanEnds(s) \/ ProxyDies(s) \/ RewriteState(s)

Post(s) == PostStart(s) \/ PostCheck(s) \/ PostReclaim(s) \/ PostDown(s)

Next == \E s \in Steps : Main(s) \/ Environment(s) \/ Post(s)

Spec == Init /\ [][Next]_vars

\* Every step of the code is taken eventually, and a command that does not end
\* is killed with its step (the runner's timeout); the runner starts the post
\* process of every step. Rewriting the state and a dying proxy are never due.
FairSpec ==
  /\ Spec
  /\ \A s \in Steps : WF_vars(Main(s) \/ Kill(s)) /\ WF_vars(Post(s))

-----------------------------------------------------------------------------
TypeOK ==
  /\ pc \in [Steps -> Phases]
  /\ owed \in [Steps -> BOOLEAN]
  /\ container \in [Steps -> {"absent", "unready", "running", "stopped"}]
  /\ scratch \in [Steps -> BOOLEAN]
  /\ sandbox \in [Steps -> BOOLEAN]
  /\ saved \in [Steps -> Steps \cup {NoName, BadName}]
  /\ command \in [Steps -> ExitCodes \cup {NoCode}]
  /\ thrown \in [Steps -> BOOLEAN]
  /\ blocked \in [Steps -> BOOLEAN]
  /\ report \in [Steps -> {"none", "fetched", "lost"}]
  /\ post \in [Steps -> {"waiting", "check", "reclaim", "down", "done",
                         "skipped", "crashed"}]
  /\ target \in [Steps -> Steps \cup {NoName}]
  /\ faults \in 0 .. MaxFaults

\* A main process that is still running never loses its proxy container or its
\* scratch dir: no other step's cleanup takes them away, whatever name its
\* state holds (post-cleanup.ts: "a live sandbox always has one").
LiveStepKeepsResources ==
  \A s \in Steps :
    /\ pc[s] \in Using => container[s] # "absent"
    /\ pc[s] \in InScratch => scratch[s]

\* No teardown, the step's own or a post process's, takes the proxy away before
\* its report was read: a step that reaches reportStepTraffic loses the report
\* only to a failure of docker there or to a proxy that had died by itself.
ReportReadBeforeStop ==
  [][\A s \in Steps : report[s] = "none" /\ report'[s] = "lost" =>
       faults' > faults \/ container[s] = "stopped"]_vars

\* Every way out of the step gives the pre-created directories back
\* (sandbox-step.ts, the outer finally), a kill excepted.
DirsGivenBack ==
  \A s \in Steps : pc[s] = "done" => ~owed[s]

\* A step succeeds only after its command ran and ended with 0, its report did
\* not fail it and its cleanup went through; a code other than 0 reaches the
\* step as it is unless something threw.
ExitCodeFaithful ==
  \A s \in Steps : pc[s] = "done" =>
    /\ ExitCode(s) = 0 => command[s] = 0 /\ ~blocked[s] /\ ~scratch[s]
    /\ command[s] \notin {0, NoCode} /\ ~thrown[s] => ExitCode(s) = command[s]

\* Once a post process that was handed its own step's name is through, nothing
\* of that step is left, whatever point the step ended at; a scratch dir may
\* survive a failure.
OwnPostReclaims ==
  \A s \in Steps : post[s] = "done" /\ target[s] = s =>
    /\ container[s] = "absent"
    /\ scratch[s] => faults > 0

\* The resources of each step as StepLease sees them. A running step that misses
\* one of them is in none of StepLease's states.
StepHasAll(s) == container[s] # "absent" /\ (pc[s] \in InScratch => scratch[s])

LeaseOf(s) ==
  IF pc[s] \in BeforeUp THEN "none"
  ELSE IF pc[s] \in Using THEN IF StepHasAll(s) THEN "held" ELSE "lost"
  ELSE IF container[s] = "absent" THEN "gone" ELSE "abandoned"

leaseOf == [s \in Steps |-> LeaseOf(s)]

\* The lifecycle keeps the promise of StepLease.
Lease == INSTANCE StepLease WITH lease <- leaseOf
LeaseSpec == Lease!Spec

\* A container does not outlive its job: it is gone in the end unless the
\* state was rewritten or the post process itself met a failure.
ContainerReclaimed ==
  \A s \in Recorded :
    container[s] # "absent" ~>
      container[s] = "absent" \/ saved[s] \notin {s, NoName} \/ post[s] = "crashed"
=============================================================================
