---------------------------- MODULE RunIsolated ----------------------------
(***************************************************************************)
(* run-isolated.sh of concurrent steps: what the script sets up on the     *)
(* host, the processes under it, its exit trap, and what the action does   *)
(* once sudo has returned, and its post step after it: remove the scratch  *)
(* dir (cleanupScratchDir) and stop the proxy's container.                 *)
(*                                                                         *)
(* Mounts made by the script are in the private mount namespace it         *)
(* re-executed itself into, which runc shares: no other process sees them, *)
(* and they go with the last of the two.                                   *)
(*                                                                         *)
(* One budget bounds what goes wrong: a command that fails, a signal, a    *)
(* process that is killed.                                                 *)
(***************************************************************************)
EXTENDS Naturals

CONSTANTS
  Steps,
  Inspect,    \* the steps of the inspect engine, which mounts a CA
  Ephemeral,  \* the steps whose overlay leaves files of root behind
  ExitCodes,  \* the exit codes a command can end with
  NoCode,     \* the command has not ended
  Attempts,   \* tries of retryBriefly
  MaxFaults   \* bound: failures, signals and kills in one behaviour

ASSUME RunIsolatedAssumption ==
  /\ Inspect \subseteq Steps /\ Ephemeral \subseteq Steps
  /\ ExitCodes \subseteq Nat /\ {0, 1} \subseteq ExitCodes /\ NoCode \notin ExitCodes
  /\ Attempts \in Nat \ {0} /\ MaxFaults \in Nat

VARIABLES
  script,      \* where run-isolated.sh is
  pending,     \* an INT or TERM waits for the foreground command to end
  code,        \* CODE
  failed,      \* the commands of the trap that did nothing
  runc,        \* the `runc run` process
  box,         \* the sandboxed process
  status,      \* what the command ended with
  rootfs,      \* the rbind of "/" stands
  netns,       \* /run/netns/NAME: "none", "live" or, without its mount, "stale"
  ends,        \* the namespaces the two ends of the veth pair are in
  attached,    \* /run/netns/NAME-proxy, in the same way
  proxy,       \* the proxy's container is up
  placeholder, \* the empty /etc/buildcage-ca.pem on the host, shared by all
  ca,          \* the mount over it in the sandbox: "none", "mounted", "detached"
  action,      \* the action's own process: where its teardown is
  byPost,      \* it is the post step's
  tries,       \* attempts at removing the scratch dir
  scratch,     \* the scratch dir is "there", "gone", or there "again" because
               \* a live process of the step made it or files in it meanwhile
  faults

processVars == <<runc, box, status>>
networkVars == <<netns, ends, attached, proxy>>
caVars == <<placeholder, ca>>
actionVars == <<action, byPost, tries, scratch>>
vars == <<script, pending, code, failed, processVars, rootfs, networkVars, caVars, actionVars, faults>>

NoVeth == [t |-> "none", p |-> "none"]
Wired == [t |-> "sandbox", p |-> "proxy"]

Setup == {"mount", "netns", "veth", "moveT", "attach", "moveP", "configure", "fork"}
Trap == {"delete", "ca", "umount", "veths", "names"}
Alive == Setup \cup {"wait"} \cup Trap

Init ==
  /\ script = [s \in Steps |-> "check"]
  /\ pending = [s \in Steps |-> FALSE]
  /\ code = [s \in Steps |-> 1]
  /\ failed = [s \in Steps |-> {}]
  /\ runc = [s \in Steps |-> "none"]
  /\ box = [s \in Steps |-> "none"]
  /\ status = [s \in Steps |-> NoCode]
  /\ rootfs = [s \in Steps |-> FALSE]
  /\ netns = [s \in Steps |-> "none"]
  /\ ends = [s \in Steps |-> NoVeth]
  /\ attached = [s \in Steps |-> "none"]
  /\ proxy = [s \in Steps |-> TRUE]
  /\ placeholder = FALSE
  /\ ca = [s \in Steps |-> "none"]
  /\ action = [s \in Steps |-> "waiting"]
  /\ byPost = [s \in Steps |-> FALSE]
  /\ tries = [s \in Steps |-> 0]
  /\ scratch = [s \in Steps |-> "there"]
  /\ faults = 0

Fault == faults < MaxFaults /\ faults' = faults + 1

Goto(s, from, to) == script[s] = from /\ script' = [script EXCEPT ![s] = to]

-----------------------------------------------------------------------------
(* The script. `set -e` sends it to the exit trap as soon as a command     *)
(* fails; what a failing command changes is nothing.                       *)

\* Requirements, before the trap is set: without the bundle or the proxy's
\* network namespace the script exits with 1.
Check(s) ==
  /\ \/ /\ scratch[s] = "there" /\ proxy[s]
        /\ Goto(s, "check", "mount") /\ UNCHANGED faults
     \/ /\ ~(scratch[s] = "there" /\ proxy[s])
        /\ Goto(s, "check", "gone") /\ UNCHANGED faults
     \/ Fault /\ Goto(s, "check", "gone")
  /\ UNCHANGED <<pending, code, failed, processVars, rootfs, networkVars, caVars, actionVars>>

\* `mkdir -p` and `mount --rbind /`, in the private mount namespace the script
\* re-executed itself into. mkdir -p makes a scratch dir that has gone again.
MountRoot(s) ==
  /\ \/ /\ Goto(s, "mount", "netns")
        /\ rootfs' = [rootfs EXCEPT ![s] = TRUE]
        /\ scratch' = [scratch EXCEPT ![s] = IF @ = "gone" THEN "again" ELSE @]
        /\ UNCHANGED faults
     \/ Fault /\ Goto(s, "mount", "delete") /\ UNCHANGED <<rootfs, scratch>>
  /\ UNCHANGED <<pending, code, failed, processVars, networkVars, caVars, action, byPost, tries>>

AddNetns(s) ==
  /\ \/ /\ Goto(s, "netns", "veth")
        /\ netns' = [netns EXCEPT ![s] = "live"]
        /\ UNCHANGED faults
     \/ Fault /\ Goto(s, "netns", "delete") /\ UNCHANGED netns
  /\ UNCHANGED <<pending, code, failed, processVars, rootfs, ends, attached, proxy, caVars, actionVars>>

\* One step of the wiring that moves the ends of the pair.
Wire(s, from, to, new) ==
  /\ \/ Goto(s, from, to) /\ ends' = [ends EXCEPT ![s] = new] /\ UNCHANGED faults
     \/ Fault /\ Goto(s, from, "delete") /\ UNCHANGED ends
  /\ UNCHANGED <<pending, code, failed, processVars, rootfs, netns, attached, proxy, caVars, actionVars>>

AddVeth(s) == Wire(s, "veth", "moveT", [t |-> "host", p |-> "host"])
MoveTargetEnd(s) == Wire(s, "moveT", "attach", [ends[s] EXCEPT !.t = "sandbox"])
MoveProxyEnd(s) == Wire(s, "moveP", "configure", [ends[s] EXCEPT !.p = "proxy"])

\* The proxy's netns under a name `ip link` understands: an empty file, and the
\* netns mounted on it, which keeps it whatever becomes of the container.
Attach(s) ==
  /\ \/ /\ proxy[s] /\ Goto(s, "attach", "moveP") /\ UNCHANGED faults
        /\ attached' = [attached EXCEPT ![s] = "live"]
     \/ /\ \/ ~proxy[s] /\ UNCHANGED faults
           \/ Fault
        /\ Goto(s, "attach", "delete")
        /\ attached' = [attached EXCEPT ![s] = "stale"]
  /\ UNCHANGED <<pending, code, failed, processVars, rootfs, netns, ends, proxy, caVars, actionVars>>

\* Addresses, routes and the name buildcage0, in the netns of a container that
\* is still up.
Configure(s) ==
  /\ \/ proxy[s] /\ Goto(s, "configure", "fork") /\ UNCHANGED faults
     \/ ~proxy[s] /\ Goto(s, "configure", "delete") /\ UNCHANGED faults
     \/ Fault /\ Goto(s, "configure", "delete")
  /\ UNCHANGED <<pending, code, failed, processVars, rootfs, networkVars, caVars, actionVars>>

\* `setpriv --pdeathsig=KILL -- runc run`: a child that has not asked for the
\* signal yet.
ForkRunc(s) ==
  /\ Goto(s, "fork", "wait")
  /\ runc' = [runc EXCEPT ![s] = "forked"]
  /\ UNCHANGED <<pending, code, failed, box, status, rootfs, networkVars, caVars, actionVars, faults>>

\* Bug: a signal that came meanwhile makes the script succeed.
BugReap(s) ==
  /\ runc[s] = "dead" /\ Goto(s, "wait", "delete")
  /\ code' = [code EXCEPT ![s] = IF pending[s] THEN 0
                                 ELSE IF status[s] = NoCode THEN 1 ELSE status[s]]
  /\ UNCHANGED <<pending, failed, processVars, rootfs, networkVars, caVars, actionVars, faults>>

\* CODE=$?, unless a signal that came meanwhile starts the trap first. runc
\* that was killed, or could not start the container, is a code of its own.
Reap(s) ==
  /\ runc[s] = "dead" /\ Goto(s, "wait", "delete")
  /\ code' = [code EXCEPT ![s] = IF pending[s] \/ status[s] = NoCode THEN 1 ELSE status[s]]
  /\ UNCHANGED <<pending, failed, processVars, rootfs, networkVars, caVars, actionVars, faults>>

-----------------------------------------------------------------------------
(* cleanup(), the trap. Every command of it may fail, and the next one is  *)
(* run all the same (set +e).                                              *)

After(at) ==
  CASE at = "delete" -> "ca" [] at = "ca" -> "umount" [] at = "umount" -> "veths"
    [] at = "veths" -> "names" [] at = "names" -> "gone"

Works(s, at) == Goto(s, at, After(at)) /\ UNCHANGED <<failed, faults>>

Fails(s, at) ==
  Goto(s, at, After(at)) /\ failed' = [failed EXCEPT ![s] = @ \cup {at}] /\ Fault

\* Bug: `runc delete` without -f, which refuses a container that runs.
BugDeleteContainer(s) ==
  /\ Works(s, "delete")
  /\ UNCHANGED <<pending, code, processVars, rootfs, networkVars, caVars, actionVars>>

\* `runc delete -f`: whatever runs in the container is killed, and with its
\* mount namespace the CA mount goes.
DeleteContainer(s) ==
  /\ \/ /\ Works(s, "delete")
        /\ box' = [box EXCEPT ![s] = IF @ = "none" THEN @ ELSE "dead"]
        /\ ca' = [ca EXCEPT ![s] = "none"]
     \/ Fails(s, "delete") /\ UNCHANGED <<box, ca>>
  /\ UNCHANGED <<pending, code, runc, status, rootfs, networkVars, placeholder, actionVars>>

\* The kernel detaches every mount over a file that is removed in a namespace
\* where it is not a mount point itself.
Unlinked == [r \in Steps |-> IF ca[r] = "mounted" THEN "detached" ELSE ca[r]]

\* [ -s PLACEHOLDER ] || rm -f PLACEHOLDER, whatever the engine: the file on the
\* host is always empty. It is reached through the rbind, and without that the
\* command is one that silently does nothing; it counts as failed only where the
\* removal of the scratch dir has taken the rbind away.
RemovePlaceholder(s) ==
  /\ \/ /\ Works(s, "ca") /\ rootfs[s]
        /\ placeholder' = FALSE
        /\ ca' = IF placeholder THEN Unlinked ELSE ca
     \/ /\ Goto(s, "ca", After("ca")) /\ ~rootfs[s]
        /\ failed' = [failed EXCEPT ![s] = IF action[s] = "waiting" THEN @ ELSE @ \cup {"ca"}]
        /\ UNCHANGED <<caVars, faults>>
     \/ Fails(s, "ca") /\ UNCHANGED caVars
  /\ UNCHANGED <<pending, code, processVars, rootfs, networkVars, actionVars>>

\* `umount -R`, which warns when it fails.
UnmountRoot(s) ==
  /\ \/ Works(s, "umount") /\ rootfs' = [rootfs EXCEPT ![s] = FALSE]
     \/ Fails(s, "umount") /\ UNCHANGED rootfs
  /\ UNCHANGED <<pending, code, processVars, networkVars, caVars, actionVars>>

\* Bug: without `set +e` the trap ends where there is no buildcage0 to delete.
BugDeleteProxyEnd(s) ==
  /\ Goto(s, "veths", IF ends[s].p = "proxy" THEN After("veths") ELSE "gone")
  /\ ends' = [ends EXCEPT ![s] = IF @.p = "proxy" THEN NoVeth ELSE @]
  /\ UNCHANGED <<pending, code, failed, processVars, rootfs, netns, attached, proxy, caVars, actionVars, faults>>

\* Deleting one end of the pair deletes the other: buildcage0 in the proxy, whose
\* netns can be entered while its container is up. What is elsewhere goes with
\* its namespace (NetworkNamespaceGoes).
DeleteProxyEnd(s) ==
  /\ \/ /\ Works(s, "veths")
        /\ ends' = [ends EXCEPT ![s] = IF @.p = "proxy" /\ proxy[s] THEN NoVeth ELSE @]
     \/ Fails(s, "veths") /\ UNCHANGED ends
  /\ UNCHANGED <<pending, code, processVars, rootfs, netns, attached, proxy, caVars, actionVars>>

\* `ip netns del`, and the name of the proxy's.
DeleteNames(s) ==
  /\ \/ Works(s, "names") /\ netns' = [netns EXCEPT ![s] = "none"]
     \/ Fails(s, "names") /\ UNCHANGED netns
  /\ attached' = [attached EXCEPT ![s] = "none"]
  /\ UNCHANGED <<pending, code, processVars, rootfs, ends, proxy, caVars, actionVars>>

-----------------------------------------------------------------------------
(* The processes under the script: the two hops of the die-with-parent     *)
(* chain. Who asks for the signal after its parent has died never gets it. *)

RuncAlive(s) == runc[s] \in {"forked", "armed", "orphan"}
BoxAlive(s) == box[s] \in {"made", "armed", "orphan"}

ArmRunc(s) ==
  /\ runc[s] = "forked"
  /\ runc' = [runc EXCEPT ![s] = IF script[s] = "killed" THEN "orphan" ELSE "armed"]
  /\ UNCHANGED <<script, pending, code, failed, box, status, rootfs, networkVars, caVars, actionVars, faults>>

\* What the container is built from: the bundle, its root, the sandbox's netns.
Buildable(s) == scratch[s] = "there" /\ rootfs[s] /\ netns[s] = "live"

\* runc cannot build the container.
RuncFails(s) ==
  /\ runc[s] \in {"armed", "orphan"} /\ box[s] = "none"
  /\ \/ ~Buildable(s) /\ UNCHANGED faults
     \/ ca[s] = "opened" /\ ~placeholder /\ UNCHANGED faults
     \/ Fault
  /\ runc' = [runc EXCEPT ![s] = "dead"]
  /\ UNCHANGED <<script, pending, code, failed, box, status, rootfs, networkVars, caVars, actionVars>>

\* runc creates the file the CA is mounted on, if it is not there ...
OpenPlaceholder(s) ==
  /\ runc[s] \in {"armed", "orphan"} /\ box[s] = "none"
  /\ s \in Inspect /\ ca[s] = "none" /\ Buildable(s)
  /\ placeholder' = TRUE
  /\ ca' = [ca EXCEPT ![s] = "opened"]
  /\ UNCHANGED <<script, pending, code, failed, processVars, rootfs, networkVars, actionVars, faults>>

\* ... mounts it, and starts the process.
StartBox(s) ==
  /\ runc[s] \in {"armed", "orphan"} /\ box[s] = "none"
  /\ Buildable(s)
  /\ IF s \in Inspect THEN ca[s] = "opened" /\ placeholder ELSE TRUE
  /\ ca' = [ca EXCEPT ![s] = IF s \in Inspect THEN "mounted" ELSE @]
  /\ box' = [box EXCEPT ![s] = "made"]
  /\ UNCHANGED <<script, pending, code, failed, runc, status, rootfs, networkVars, placeholder, actionVars, faults>>

ArmBox(s) ==
  /\ box[s] = "made"
  /\ box' = [box EXCEPT ![s] = IF RuncAlive(s) THEN "armed" ELSE "orphan"]
  /\ UNCHANGED <<script, pending, code, failed, runc, status, rootfs, networkVars, caVars, actionVars, faults>>

\* The command ends, and `runc run` with its code.
BoxEnds(s) ==
  /\ box[s] \in {"armed", "orphan"}
  /\ box' = [box EXCEPT ![s] = "dead"]
  /\ IF RuncAlive(s)
     THEN /\ \E c \in ExitCodes : status' = [status EXCEPT ![s] = c]
          /\ runc' = [runc EXCEPT ![s] = "dead"]
     ELSE UNCHANGED <<status, runc>>
  /\ UNCHANGED <<script, pending, code, failed, rootfs, networkVars, caVars, actionVars, faults>>

BoxWithoutRunc(s) == box' = [box EXCEPT ![s] = IF @ = "armed" THEN "dead" ELSE @]

-----------------------------------------------------------------------------
(* Signals and kills.                                                      *)

\* INT or TERM: bash starts the trap between two commands; while `runc run` is
\* in the foreground the trap waits for its end.
Term(s) ==
  /\ Fault
  /\ \/ script[s] \in Setup /\ script' = [script EXCEPT ![s] = "delete"] /\ UNCHANGED pending
     \/ script[s] = "wait" /\ pending' = [pending EXCEPT ![s] = TRUE] /\ UNCHANGED script
  /\ UNCHANGED <<code, failed, processVars, rootfs, networkVars, caVars, actionVars>>

KillScript(s) ==
  /\ Fault /\ script[s] \in Alive \cup {"check"}
  /\ script' = [script EXCEPT ![s] = "killed"]
  /\ IF runc[s] = "armed"
     THEN runc' = [runc EXCEPT ![s] = "dead"] /\ BoxWithoutRunc(s)
     ELSE UNCHANGED <<runc, box>>
  /\ UNCHANGED <<pending, code, failed, status, rootfs, networkVars, caVars, actionVars>>

KillRunc(s) ==
  /\ Fault /\ RuncAlive(s)
  /\ runc' = [runc EXCEPT ![s] = "dead"]
  /\ BoxWithoutRunc(s)
  /\ UNCHANGED <<script, pending, code, failed, status, rootfs, networkVars, caVars, actionVars>>

\* The proxy's container stops by itself.
ProxyDies(s) ==
  /\ Fault /\ proxy[s]
  /\ proxy' = [proxy EXCEPT ![s] = FALSE]
  /\ UNCHANGED <<script, pending, code, failed, processVars, rootfs, netns, ends, attached, caVars, actionVars>>

-----------------------------------------------------------------------------
(* What the kernel takes away with a namespace nothing keeps any more.     *)

Unmounted(name) == IF name = "live" THEN "stale" ELSE name

\* The script's mount namespace, with its last process: the rbind and the
\* mounts of both names. Their files stay.
MountNamespaceGoes(s) ==
  /\ script[s] \in {"gone", "killed"} /\ ~RuncAlive(s)
  /\ rootfs[s] \/ netns[s] = "live" \/ attached[s] = "live"
  /\ rootfs' = [rootfs EXCEPT ![s] = FALSE]
  /\ netns' = [netns EXCEPT ![s] = Unmounted(@)]
  /\ attached' = [attached EXCEPT ![s] = Unmounted(@)]
  /\ UNCHANGED <<script, pending, code, failed, processVars, ends, proxy, caVars, actionVars, faults>>

\* The sandbox's mount namespace, with the mount of the CA.
SandboxMountsGo(s) ==
  /\ ca[s] \in {"opened", "mounted", "detached"} /\ ~RuncAlive(s) /\ ~BoxAlive(s)
  /\ ca' = [ca EXCEPT ![s] = "none"]
  /\ UNCHANGED <<script, pending, code, failed, processVars, rootfs, networkVars, placeholder, actionVars, faults>>

\* A network namespace takes the end of the pair in it along, and with that the
\* pair. The sandbox's is kept by its name and the command, the proxy's by its
\* container and the name the script gave it.
NetworkNamespaceGoes(s) ==
  /\ \/ ends[s].t = "sandbox" /\ netns[s] # "live" /\ ~BoxAlive(s)
     \/ ends[s].p = "proxy" /\ attached[s] # "live" /\ ~proxy[s]
  /\ ends' = [ends EXCEPT ![s] = NoVeth]
  /\ UNCHANGED <<script, pending, code, failed, processVars, rootfs, netns, attached, proxy, caVars, actionVars, faults>>

-----------------------------------------------------------------------------
(* The action's process, from withScratchDir's finally to the end of the   *)
(* step, and the post step, which does the same once more.                 *)

\* sudo returns with the script; its monitor may die alone and leave the script
\* running.
SudoReturns(s) ==
  /\ action[s] = "waiting"
  /\ \/ script[s] \in {"gone", "killed"} /\ UNCHANGED faults
     \/ Fault
  /\ action' = [action EXCEPT ![s] = "remove"]
  /\ UNCHANGED <<script, pending, code, failed, processVars, rootfs, networkVars, caVars, byPost, tries, scratch>>

\* The post step comes after the action, which may have been killed anywhere.
PostTakesOver(s) ==
  /\ ~byPost[s]
  /\ \/ Fault /\ action[s] # "done"
     \/ action[s] = "done" /\ UNCHANGED faults
  /\ byPost' = [byPost EXCEPT ![s] = TRUE]
  /\ action' = [action EXCEPT ![s] = "remove"]
  /\ tries' = [tries EXCEPT ![s] = 0]
  /\ UNCHANGED <<script, pending, code, failed, processVars, rootfs, networkVars, caVars, scratch>>

\* Bug: what root owns below the scratch dir is not removed as root.
BugRemoveScratch(s) ==
  /\ action[s] = "remove"
  /\ action' = [action EXCEPT ![s] = "down"]
  /\ \/ /\ ~(s \in Ephemeral /\ box[s] # "none")
        /\ scratch' = [scratch EXCEPT ![s] = "gone"]
        /\ rootfs' = [rootfs EXCEPT ![s] = FALSE]
     \/ s \in Ephemeral /\ box[s] # "none" /\ UNCHANGED <<scratch, rootfs>>
  /\ UNCHANGED <<script, pending, code, failed, processVars, networkVars, caVars, byPost, tries, faults>>

\* cleanupScratchDir. Its unmounts find none of the script's mounts, which are
\* in another namespace; there, removing the mount point detaches them. EBUSY is
\* tried again; files of root need `sudo rm`, whose failure is not, and neither
\* is a directory that is not empty because a command still writes to it. What
\* the removal throws does not keep the action from stopping the proxy.
RemoveScratch(s) ==
  /\ action[s] = "remove"
  /\ \/ /\ scratch' = [scratch EXCEPT ![s] = "gone"]
        /\ rootfs' = [rootfs EXCEPT ![s] = FALSE]
        /\ action' = [action EXCEPT ![s] = "down"]
        /\ UNCHANGED <<tries, faults>>
     \/ /\ Fault /\ tries[s] + 1 < Attempts
        /\ tries' = [tries EXCEPT ![s] = @ + 1]
        /\ UNCHANGED <<action, scratch, rootfs>>
     \/ /\ Fault /\ (tries[s] + 1 = Attempts \/ (s \in Ephemeral /\ box[s] # "none"))
        /\ action' = [action EXCEPT ![s] = "down"]
        /\ UNCHANGED <<tries, scratch, rootfs>>
     \/ /\ s \in Ephemeral /\ BoxAlive(s)
        /\ scratch' = [scratch EXCEPT ![s] = "again"]
        /\ action' = [action EXCEPT ![s] = "down"]
        /\ UNCHANGED <<tries, rootfs, faults>>
  /\ UNCHANGED <<script, pending, code, failed, processVars, networkVars, caVars, byPost>>

\* The outer finally's stopSandboxProxy and post.ts's stopProxyContainer.
StopProxy(s) ==
  /\ action[s] = "down"
  /\ action' = [action EXCEPT ![s] = "done"]
  /\ \/ proxy' = [proxy EXCEPT ![s] = FALSE] /\ UNCHANGED faults
     \/ Fault /\ UNCHANGED proxy
  /\ UNCHANGED <<script, pending, code, failed, processVars, rootfs, netns, ends, attached, caVars, byPost, tries, scratch>>

-----------------------------------------------------------------------------
Script(s) ==
  \/ Check(s) \/ MountRoot(s) \/ AddNetns(s) \/ AddVeth(s) \/ MoveTargetEnd(s)
  \/ Attach(s) \/ MoveProxyEnd(s) \/ Configure(s) \/ ForkRunc(s) \/ Reap(s)
  \/ DeleteContainer(s) \/ RemovePlaceholder(s) \/ UnmountRoot(s)
  \/ DeleteProxyEnd(s) \/ DeleteNames(s)

Processes(s) ==
  \/ ArmRunc(s) \/ RuncFails(s) \/ OpenPlaceholder(s) \/ StartBox(s) \/ ArmBox(s)
  \/ BoxEnds(s)

Signals(s) == Term(s) \/ KillScript(s) \/ KillRunc(s) \/ ProxyDies(s)

Kernel(s) == MountNamespaceGoes(s) \/ SandboxMountsGo(s) \/ NetworkNamespaceGoes(s)

Action(s) == SudoReturns(s) \/ PostTakesOver(s) \/ RemoveScratch(s) \/ StopProxy(s)

Next == \E s \in Steps : Script(s) \/ Processes(s) \/ Signals(s) \/ Kernel(s) \/ Action(s)

Spec == Init /\ [][Next]_vars

-----------------------------------------------------------------------------
\* The scratch dir outlives the step and its post step only after two failures,
\* one of each: a kill, an unmount, an EBUSY or a failed removal alone never
\* leaves it behind (scratch-dir.ts, withScratchDir: what the finally misses is
\* "exactly what post.ts covers"). One that a live process makes again is apart.
ScratchReclaimed ==
  \A s \in Steps : byPost[s] /\ action[s] \in {"down", "done"} /\ scratch[s] = "there" => faults >= 2

\* A command that runs is on its pair to the proxy or on no network at all. It
\* loses the pair only to a trap whose `runc delete` failed on it, or as the
\* orphan of a killed script and a killed runc once its proxy has been stopped.
CommandKeepsItsNetwork ==
  \A s \in Steps : BoxAlive(s) =>
    /\ ends[s] \in {Wired, NoVeth}
    /\ ends[s] = NoVeth =>
         "delete" \in failed[s] \/ (script[s] = "killed" /\ ~RuncAlive(s) /\ ~proxy[s])

\* The script ends with 0 only for a command that ended with 0, and hands every
\* other code on unless it was signalled.
CodeFaithful ==
  \A s \in Steps : script[s] = "gone" =>
    /\ code[s] = 0 => status[s] = 0
    /\ status[s] # NoCode /\ ~pending[s] => code[s] = status[s]

\* A trap none of whose commands failed leaves neither process nor mount nor
\* name, nor an end of the pair in a proxy that lives on, from wherever it was
\* entered; and the empty file runc left on the host does not outlive the
\* scripts, if all of them came to their end (run-isolated.sh, cleanup).
TrapTearsDown ==
  /\ \A s \in Steps : script[s] = "gone" /\ failed[s] \subseteq {"ca"} =>
       /\ ~RuncAlive(s) /\ ~BoxAlive(s)
       /\ ~rootfs[s] /\ netns[s] = "none" /\ attached[s] = "none"
       /\ ends[s].p = "proxy" => ~proxy[s]
  /\ (\A s \in Steps : script[s] = "gone" /\ "ca" \notin failed[s]) => ~placeholder

\* "A no-op (silently) for every other engine" (run-isolated.sh): the CA of a
\* command that runs stays mounted.
CaStaysMounted ==
  \A s \in Inspect : BoxAlive(s) => ca[s] = "mounted"
=============================================================================
