------------------------- MODULE RunIsolatedProofs -------------------------
(***************************************************************************)
(* The safety of run-isolated.sh for any set of steps, any exit codes and  *)
(* any number of failures, signals and kills.                              *)
(*                                                                         *)
(* The argument: processes run under the script only between the fork and  *)
(* its reaping, or when the script was killed; the wiring is complete by   *)
(* the fork, the mounts of the script's namespace keep both network        *)
(* namespaces for as long as the script or runc is there, and the trap     *)
(* starts on them after it has killed what ran. The placeholder is some    *)
(* step's that has not come to its `rm` yet. The action and its post step  *)
(* each remove the scratch dir, and each is kept from it by a failure of   *)
(* its own.                                                                *)
(***************************************************************************)
EXTENDS RunIsolated, TLAPS

Places == {"check", "wait", "gone", "killed"} \cup Setup \cup Trap
RuncStates == {"none", "forked", "armed", "orphan", "dead"}
BoxStates == {"none", "made", "armed", "orphan", "dead"}
Pairs == [t : {"none", "host", "sandbox"}, p : {"none", "host", "proxy"}]
Names == {"none", "live", "stale"}
CaStates == {"none", "opened", "mounted", "detached"}
ActionStates == {"waiting", "remove", "down", "done"}

TypeOK ==
  /\ script \in [Steps -> Places]
  /\ pending \in [Steps -> BOOLEAN]
  /\ code \in [Steps -> ExitCodes]
  /\ failed \in [Steps -> SUBSET Trap]
  /\ runc \in [Steps -> RuncStates]
  /\ box \in [Steps -> BoxStates]
  /\ status \in [Steps -> ExitCodes \cup {NoCode}]
  /\ rootfs \in [Steps -> BOOLEAN]
  /\ netns \in [Steps -> Names]
  /\ ends \in [Steps -> Pairs]
  /\ attached \in [Steps -> Names]
  /\ proxy \in [Steps -> BOOLEAN]
  /\ placeholder \in BOOLEAN
  /\ ca \in [Steps -> CaStates]
  /\ action \in [Steps -> ActionStates]
  /\ byPost \in [Steps -> BOOLEAN]
  /\ tries \in [Steps -> Nat]
  /\ scratch \in [Steps -> {"there", "gone", "again"}]
  /\ faults \in Nat

\* Which processes there are by the phase of the script.
Processed(s) ==
  /\ script[s] \in {"check"} \cup Setup => runc[s] = "none"
  /\ script[s] \in Trap \cup {"gone"} => runc[s] \in {"none", "dead"}
  /\ runc[s] \in {"none", "forked"} => box[s] = "none" /\ status[s] = NoCode
  /\ script[s] \in (Trap \ {"delete"}) \cup {"gone"} /\ "delete" \notin failed[s] => ~BoxAlive(s)

\* CODE is 1 until runc is reaped, and what it was given then.
Coded(s) ==
  /\ script[s] \in {"check", "wait"} \cup Setup => code[s] = 1
  /\ script[s] \in Trap \cup {"gone"} =>
       code[s] = IF pending[s] \/ status[s] = NoCode THEN 1 ELSE status[s]

\* How far the wiring is; that both names keep their namespaces while a process
\* of the script's mount namespace counts on them; and what a command has left.
WiringOK(s) ==
  /\ script[s] \in {"veth", "moveT", "attach", "moveP", "configure", "fork"} => netns[s] = "live"
  /\ script[s] \in {"moveP", "configure", "fork"} => attached[s] = "live"
  /\ script[s] = "moveT" => ends[s] = [t |-> "host", p |-> "host"]
  /\ script[s] \in {"attach", "moveP"} => ends[s] = [t |-> "sandbox", p |-> "host"]
  /\ script[s] \in {"configure", "fork"} => ends[s] = Wired
  /\ RuncAlive(s) \/ (BoxAlive(s) /\ script[s] \in {"wait", "delete"}) =>
       netns[s] = "live" /\ attached[s] = "live" /\ ends[s] = Wired
  /\ BoxAlive(s) =>
       /\ ends[s] \in {Wired, NoVeth}
       /\ "delete" \in failed[s] \/ script[s] \in {"wait", "delete", "killed"}
       /\ ends[s] = NoVeth => "delete" \in failed[s] \/ ~proxy[s]

\* What there is to tear down before the setup, and what each command of the
\* trap that worked has taken away.
TornDown(s) ==
  /\ script[s] = "check" =>
       ~rootfs[s] /\ netns[s] = "none" /\ ends[s] = NoVeth /\ attached[s] = "none"
  /\ script[s] \in {"veths", "names", "gone"} /\ "umount" \notin failed[s] => ~rootfs[s]
  /\ script[s] \in {"names", "gone"} /\ "veths" \notin failed[s] => ends[s].p # "proxy" \/ ~proxy[s]
  /\ script[s] = "gone" /\ "names" \notin failed[s] => netns[s] = "none"
  /\ script[s] = "gone" => attached[s] = "none"

\* The rbind stands until the trap unmounts it, if the action waits that long.
RootStands(s) ==
  action[s] = "waiting" =>
    /\ script[s] \in Setup \ {"mount"} => rootfs[s]
    /\ script[s] \in {"wait", "delete", "ca"} => rootfs[s] \/ runc[s] = "none"

\* A first failure stands behind a scratch dir the action left, a second behind
\* one its post step left too.
Reclaims(s) ==
  scratch[s] = "there" =>
    /\ action[s] \in {"down", "done"} => faults >= 1
    /\ byPost[s] => faults >= 1
    /\ byPost[s] /\ action[s] \in {"down", "done"} => faults >= 2

\* A step that may have made the placeholder and has not come past its removal,
\* or failed there.
HoldsPlaceholder(s) ==
  /\ runc[s] # "none"
  /\ script[s] \in {"wait", "delete", "ca", "killed"} \/ "ca" \in failed[s]

PlaceholderHeld == placeholder => \E s \in Steps : HoldsPlaceholder(s)

Known ==
  \A s \in Steps :
    Processed(s) /\ Coded(s) /\ WiringOK(s) /\ TornDown(s) /\ RootStands(s) /\ Reclaims(s)

IInv == TypeOK /\ Known /\ PlaceholderHeld

USE RunIsolatedAssumption

\* The order of the trap's commands.
LEMMA AfterEach ==
  /\ After("delete") = "ca" /\ After("ca") = "umount" /\ After("umount") = "veths"
  /\ After("veths") = "names" /\ After("names") = "gone"
BY DEF After

-----------------------------------------------------------------------------
\* Every action keeps the types.
LEMMA TypeInductive == TypeOK /\ [Next]_vars => TypeOK'
<1> SUFFICES ASSUME TypeOK, [Next]_vars PROVE TypeOK'
  OBVIOUS
<1>script. script \in [Steps -> Places] BY DEF TypeOK
<1>pending. pending \in [Steps -> BOOLEAN] BY DEF TypeOK
<1>code. code \in [Steps -> ExitCodes] BY DEF TypeOK
<1>failed. failed \in [Steps -> SUBSET Trap] BY DEF TypeOK
<1>runc. runc \in [Steps -> RuncStates] BY DEF TypeOK
<1>box. box \in [Steps -> BoxStates] BY DEF TypeOK
<1>status. status \in [Steps -> ExitCodes \cup {NoCode}] BY DEF TypeOK
<1>rootfs. rootfs \in [Steps -> BOOLEAN] BY DEF TypeOK
<1>netns. netns \in [Steps -> Names] BY DEF TypeOK
<1>ends. ends \in [Steps -> Pairs] BY DEF TypeOK
<1>attached. attached \in [Steps -> Names] BY DEF TypeOK
<1>proxy. proxy \in [Steps -> BOOLEAN] BY DEF TypeOK
<1>placeholder. placeholder \in BOOLEAN BY DEF TypeOK
<1>ca. ca \in [Steps -> CaStates] BY DEF TypeOK
<1>action. action \in [Steps -> ActionStates] BY DEF TypeOK
<1>byPost. byPost \in [Steps -> BOOLEAN] BY DEF TypeOK
<1>tries. tries \in [Steps -> Nat] BY DEF TypeOK
<1>scratch. scratch \in [Steps -> {"there", "gone", "again"}] BY DEF TypeOK
<1>faults. faults \in Nat BY DEF TypeOK
<1> USE AfterEach DEF Places, RuncStates, BoxStates, Pairs, Names, CaStates, ActionStates, NoVeth, Wire,
        AddVeth, MoveTargetEnd, MoveProxyEnd, Unlinked, Unmounted, RuncAlive, BoxWithoutRunc,
        processVars, networkVars, caVars, actionVars, Goto, Fault, Setup, Trap, Alive, Works, Fails
<1>1. ASSUME NEW s \in Steps, Script(s) PROVE TypeOK'
  <2>1. CASE Check(s)
    <3>1. UNCHANGED <<pending, code, failed, runc, box, status, rootfs, netns, ends,
                      attached, proxy, placeholder, ca, action, byPost, tries, scratch>>
      BY <2>1 DEF Check
    <3>2. script' \in [Steps -> Places] BY <2>1, <1>script DEF Check
    <3>3. faults' \in Nat BY <2>1, <1>faults DEF Check
    <3> QED BY <3>1, <3>2, <3>3 DEF TypeOK
  <2>2. CASE MountRoot(s)
    <3>1. UNCHANGED <<pending, code, failed, runc, box, status, netns, ends, attached,
                      proxy, placeholder, ca, action, byPost, tries>>
      BY <2>2 DEF MountRoot
    <3>2. script' \in [Steps -> Places] BY <2>2, <1>script DEF MountRoot
    <3>3. rootfs' \in [Steps -> BOOLEAN] BY <2>2, <1>rootfs DEF MountRoot
    <3>4. scratch' \in [Steps -> {"there", "gone", "again"}] BY <2>2, <1>scratch DEF MountRoot
    <3>5. faults' \in Nat BY <2>2, <1>faults DEF MountRoot
    <3> QED BY <3>1, <3>2, <3>3, <3>4, <3>5 DEF TypeOK
  <2>3. CASE AddNetns(s)
    <3>1. UNCHANGED <<pending, code, failed, runc, box, status, rootfs, ends, attached,
                      proxy, placeholder, ca, action, byPost, tries, scratch>>
      BY <2>3 DEF AddNetns
    <3>2. script' \in [Steps -> Places] BY <2>3, <1>script DEF AddNetns
    <3>3. netns' \in [Steps -> Names] BY <2>3, <1>netns DEF AddNetns
    <3>4. faults' \in Nat BY <2>3, <1>faults DEF AddNetns
    <3> QED BY <3>1, <3>2, <3>3, <3>4 DEF TypeOK
  <2>4. CASE AddVeth(s)
    <3>1. UNCHANGED <<pending, code, failed, runc, box, status, rootfs, netns, attached,
                      proxy, placeholder, ca, action, byPost, tries, scratch>>
      BY <2>4 DEF AddVeth
    <3>2. script' \in [Steps -> Places] BY <2>4, <1>script DEF AddVeth
    <3>3. ends' \in [Steps -> Pairs] BY <2>4, <1>ends DEF AddVeth
    <3>4. faults' \in Nat BY <2>4, <1>faults DEF AddVeth
    <3> QED BY <3>1, <3>2, <3>3, <3>4 DEF TypeOK
  <2>5. CASE MoveTargetEnd(s)
    <3>1. UNCHANGED <<pending, code, failed, runc, box, status, rootfs, netns, attached,
                      proxy, placeholder, ca, action, byPost, tries, scratch>>
      BY <2>5 DEF MoveTargetEnd
    <3>2. script' \in [Steps -> Places] BY <2>5, <1>script DEF MoveTargetEnd
    <3>3. ends' \in [Steps -> Pairs] BY <2>5, <1>ends DEF MoveTargetEnd
    <3>4. faults' \in Nat BY <2>5, <1>faults DEF MoveTargetEnd
    <3> QED BY <3>1, <3>2, <3>3, <3>4 DEF TypeOK
  <2>6. CASE Attach(s)
    <3>1. UNCHANGED <<pending, code, failed, runc, box, status, rootfs, netns, ends, proxy,
                      placeholder, ca, action, byPost, tries, scratch>>
      BY <2>6 DEF Attach
    <3>2. script' \in [Steps -> Places] BY <2>6, <1>script DEF Attach
    <3>3. attached' \in [Steps -> Names] BY <2>6, <1>attached DEF Attach
    <3>4. faults' \in Nat BY <2>6, <1>faults DEF Attach
    <3> QED BY <3>1, <3>2, <3>3, <3>4 DEF TypeOK
  <2>7. CASE MoveProxyEnd(s)
    <3>1. UNCHANGED <<pending, code, failed, runc, box, status, rootfs, netns, attached,
                      proxy, placeholder, ca, action, byPost, tries, scratch>>
      BY <2>7 DEF MoveProxyEnd
    <3>2. script' \in [Steps -> Places] BY <2>7, <1>script DEF MoveProxyEnd
    <3>3. ends' \in [Steps -> Pairs] BY <2>7, <1>ends DEF MoveProxyEnd
    <3>4. faults' \in Nat BY <2>7, <1>faults DEF MoveProxyEnd
    <3> QED BY <3>1, <3>2, <3>3, <3>4 DEF TypeOK
  <2>8. CASE Configure(s)
    <3>1. UNCHANGED <<pending, code, failed, runc, box, status, rootfs, netns, ends,
                      attached, proxy, placeholder, ca, action, byPost, tries, scratch>>
      BY <2>8 DEF Configure
    <3>2. script' \in [Steps -> Places] BY <2>8, <1>script DEF Configure
    <3>3. faults' \in Nat BY <2>8, <1>faults DEF Configure
    <3> QED BY <3>1, <3>2, <3>3 DEF TypeOK
  <2>9. CASE ForkRunc(s)
    <3>1. UNCHANGED <<pending, code, failed, box, status, rootfs, netns, ends, attached,
                      proxy, placeholder, ca, action, byPost, tries, scratch, faults>>
      BY <2>9 DEF ForkRunc
    <3>2. script' \in [Steps -> Places] BY <2>9, <1>script DEF ForkRunc
    <3>3. runc' \in [Steps -> RuncStates] BY <2>9, <1>runc DEF ForkRunc
    <3> QED BY <3>1, <3>2, <3>3 DEF TypeOK
  <2>10. CASE Reap(s)
    <3>1. UNCHANGED <<pending, failed, runc, box, status, rootfs, netns, ends, attached,
                      proxy, placeholder, ca, action, byPost, tries, scratch, faults>>
      BY <2>10 DEF Reap
    <3>2. script' \in [Steps -> Places] BY <2>10, <1>script DEF Reap
    <3>3. code' \in [Steps -> ExitCodes] BY <2>10, <1>code, <1>status DEF Reap
    <3> QED BY <3>1, <3>2, <3>3 DEF TypeOK
  <2>11. CASE DeleteContainer(s)
    <3>1. UNCHANGED <<pending, code, runc, status, rootfs, netns, ends, attached, proxy,
                      placeholder, action, byPost, tries, scratch>>
      BY <2>11 DEF DeleteContainer
    <3>2. script' \in [Steps -> Places] BY <2>11, <1>script DEF DeleteContainer
    <3>3. failed' \in [Steps -> SUBSET Trap] BY <2>11, <1>failed DEF DeleteContainer
    <3>4. box' \in [Steps -> BoxStates] BY <2>11, <1>box DEF DeleteContainer
    <3>5. ca' \in [Steps -> CaStates] BY <2>11, <1>ca DEF DeleteContainer
    <3>6. faults' \in Nat BY <2>11, <1>faults DEF DeleteContainer
    <3> QED BY <3>1, <3>2, <3>3, <3>4, <3>5, <3>6 DEF TypeOK
  <2>12. CASE RemovePlaceholder(s)
    <3>1. UNCHANGED <<pending, code, runc, box, status, rootfs, netns, ends, attached,
                      proxy, action, byPost, tries, scratch>>
      BY <2>12 DEF RemovePlaceholder
    <3>2. script' \in [Steps -> Places] BY <2>12, <1>script DEF RemovePlaceholder
    <3>3. failed' \in [Steps -> SUBSET Trap] BY <2>12, <1>failed DEF RemovePlaceholder
    <3>4. placeholder' \in BOOLEAN BY <2>12, <1>placeholder DEF RemovePlaceholder
    <3>5. ca' \in [Steps -> CaStates] BY <2>12, <1>ca DEF RemovePlaceholder
    <3>6. faults' \in Nat BY <2>12, <1>faults DEF RemovePlaceholder
    <3> QED BY <3>1, <3>2, <3>3, <3>4, <3>5, <3>6 DEF TypeOK
  <2>13. CASE UnmountRoot(s)
    <3>1. UNCHANGED <<pending, code, runc, box, status, netns, ends, attached, proxy,
                      placeholder, ca, action, byPost, tries, scratch>>
      BY <2>13 DEF UnmountRoot
    <3>2. script' \in [Steps -> Places] BY <2>13, <1>script DEF UnmountRoot
    <3>3. failed' \in [Steps -> SUBSET Trap] BY <2>13, <1>failed DEF UnmountRoot
    <3>4. rootfs' \in [Steps -> BOOLEAN] BY <2>13, <1>rootfs DEF UnmountRoot
    <3>5. faults' \in Nat BY <2>13, <1>faults DEF UnmountRoot
    <3> QED BY <3>1, <3>2, <3>3, <3>4, <3>5 DEF TypeOK
  <2>14. CASE DeleteProxyEnd(s)
    <3>1. UNCHANGED <<pending, code, runc, box, status, rootfs, netns, attached, proxy,
                      placeholder, ca, action, byPost, tries, scratch>>
      BY <2>14 DEF DeleteProxyEnd
    <3>2. script' \in [Steps -> Places] BY <2>14, <1>script DEF DeleteProxyEnd
    <3>3. failed' \in [Steps -> SUBSET Trap] BY <2>14, <1>failed DEF DeleteProxyEnd
    <3>4. ends' \in [Steps -> Pairs] BY <2>14, <1>ends DEF DeleteProxyEnd
    <3>5. faults' \in Nat BY <2>14, <1>faults DEF DeleteProxyEnd
    <3> QED BY <3>1, <3>2, <3>3, <3>4, <3>5 DEF TypeOK
  <2>15. CASE DeleteNames(s)
    <3>1. UNCHANGED <<pending, code, runc, box, status, rootfs, ends, proxy, placeholder,
                      ca, action, byPost, tries, scratch>>
      BY <2>15 DEF DeleteNames
    <3>2. script' \in [Steps -> Places] BY <2>15, <1>script DEF DeleteNames
    <3>3. failed' \in [Steps -> SUBSET Trap] BY <2>15, <1>failed DEF DeleteNames
    <3>4. netns' \in [Steps -> Names] BY <2>15, <1>netns DEF DeleteNames
    <3>5. attached' \in [Steps -> Names] BY <2>15, <1>attached DEF DeleteNames
    <3>6. faults' \in Nat BY <2>15, <1>faults DEF DeleteNames
    <3> QED BY <3>1, <3>2, <3>3, <3>4, <3>5, <3>6 DEF TypeOK
  <2> QED BY <1>1, <2>1, <2>2, <2>3, <2>4, <2>5, <2>6, <2>7, <2>8, <2>9, <2>10, <2>11, <2>12, <2>13,
         <2>14, <2>15 DEF Script
<1>2. ASSUME NEW s \in Steps, Processes(s) PROVE TypeOK'
  <2>1. CASE ArmRunc(s)
    <3>1. UNCHANGED <<script, pending, code, failed, box, status, rootfs, netns, ends,
                      attached, proxy, placeholder, ca, action, byPost, tries, scratch,
                      faults>>
      BY <2>1 DEF ArmRunc
    <3>2. runc' \in [Steps -> RuncStates] BY <2>1, <1>runc DEF ArmRunc
    <3> QED BY <3>1, <3>2 DEF TypeOK
  <2>2. CASE RuncFails(s)
    <3>1. UNCHANGED <<script, pending, code, failed, box, status, rootfs, netns, ends,
                      attached, proxy, placeholder, ca, action, byPost, tries, scratch>>
      BY <2>2 DEF RuncFails
    <3>2. runc' \in [Steps -> RuncStates] BY <2>2, <1>runc DEF RuncFails
    <3>3. faults' \in Nat BY <2>2, <1>faults DEF RuncFails
    <3> QED BY <3>1, <3>2, <3>3 DEF TypeOK
  <2>3. CASE OpenPlaceholder(s)
    <3>1. UNCHANGED <<script, pending, code, failed, runc, box, status, rootfs, netns, ends,
                      attached, proxy, action, byPost, tries, scratch, faults>>
      BY <2>3 DEF OpenPlaceholder
    <3>2. placeholder' \in BOOLEAN BY <2>3, <1>placeholder DEF OpenPlaceholder
    <3>3. ca' \in [Steps -> CaStates] BY <2>3, <1>ca DEF OpenPlaceholder
    <3> QED BY <3>1, <3>2, <3>3 DEF TypeOK
  <2>4. CASE StartBox(s)
    <3>1. UNCHANGED <<script, pending, code, failed, runc, status, rootfs, netns, ends,
                      attached, proxy, placeholder, action, byPost, tries, scratch, faults>>
      BY <2>4 DEF StartBox
    <3>2. ca' \in [Steps -> CaStates] BY <2>4, <1>ca DEF StartBox
    <3>3. box' \in [Steps -> BoxStates] BY <2>4, <1>box DEF StartBox
    <3> QED BY <3>1, <3>2, <3>3 DEF TypeOK
  <2>5. CASE ArmBox(s)
    <3>1. UNCHANGED <<script, pending, code, failed, runc, status, rootfs, netns, ends,
                      attached, proxy, placeholder, ca, action, byPost, tries, scratch,
                      faults>>
      BY <2>5 DEF ArmBox
    <3>2. box' \in [Steps -> BoxStates] BY <2>5, <1>box DEF ArmBox
    <3> QED BY <3>1, <3>2 DEF TypeOK
  <2>6. CASE BoxEnds(s)
    <3>1. UNCHANGED <<script, pending, code, failed, rootfs, netns, ends, attached, proxy,
                      placeholder, ca, action, byPost, tries, scratch, faults>>
      BY <2>6 DEF BoxEnds
    <3>2. box' \in [Steps -> BoxStates] BY <2>6, <1>box DEF BoxEnds
    <3>3. status' \in [Steps -> ExitCodes \cup {NoCode}] BY <2>6, <1>status DEF BoxEnds
    <3>4. runc' \in [Steps -> RuncStates] BY <2>6, <1>runc DEF BoxEnds
    <3> QED BY <3>1, <3>2, <3>3, <3>4 DEF TypeOK
  <2> QED BY <1>2, <2>1, <2>2, <2>3, <2>4, <2>5, <2>6 DEF Processes
<1>3. ASSUME NEW s \in Steps, Signals(s) PROVE TypeOK'
  <2>1. CASE Term(s)
    <3>1. UNCHANGED <<code, failed, runc, box, status, rootfs, netns, ends, attached, proxy,
                      placeholder, ca, action, byPost, tries, scratch>>
      BY <2>1 DEF Term
    <3>2. script' \in [Steps -> Places] BY <2>1, <1>script DEF Term
    <3>3. pending' \in [Steps -> BOOLEAN] BY <2>1, <1>pending DEF Term
    <3>4. faults' \in Nat BY <2>1, <1>faults DEF Term
    <3> QED BY <3>1, <3>2, <3>3, <3>4 DEF TypeOK
  <2>2. CASE KillScript(s)
    <3>1. UNCHANGED <<pending, code, failed, status, rootfs, netns, ends, attached, proxy,
                      placeholder, ca, action, byPost, tries, scratch>>
      BY <2>2 DEF KillScript
    <3>2. script' \in [Steps -> Places] BY <2>2, <1>script DEF KillScript
    <3>3. runc' \in [Steps -> RuncStates] BY <2>2, <1>runc DEF KillScript
    <3>4. box' \in [Steps -> BoxStates] BY <2>2, <1>box DEF KillScript
    <3>5. faults' \in Nat BY <2>2, <1>faults DEF KillScript
    <3> QED BY <3>1, <3>2, <3>3, <3>4, <3>5 DEF TypeOK
  <2>3. CASE KillRunc(s)
    <3>1. UNCHANGED <<script, pending, code, failed, status, rootfs, netns, ends, attached,
                      proxy, placeholder, ca, action, byPost, tries, scratch>>
      BY <2>3 DEF KillRunc
    <3>2. runc' \in [Steps -> RuncStates] BY <2>3, <1>runc DEF KillRunc
    <3>3. box' \in [Steps -> BoxStates] BY <2>3, <1>box DEF KillRunc
    <3>4. faults' \in Nat BY <2>3, <1>faults DEF KillRunc
    <3> QED BY <3>1, <3>2, <3>3, <3>4 DEF TypeOK
  <2>4. CASE ProxyDies(s)
    <3>1. UNCHANGED <<script, pending, code, failed, runc, box, status, rootfs, netns, ends,
                      attached, placeholder, ca, action, byPost, tries, scratch>>
      BY <2>4 DEF ProxyDies
    <3>2. proxy' \in [Steps -> BOOLEAN] BY <2>4, <1>proxy DEF ProxyDies
    <3>3. faults' \in Nat BY <2>4, <1>faults DEF ProxyDies
    <3> QED BY <3>1, <3>2, <3>3 DEF TypeOK
  <2> QED BY <1>3, <2>1, <2>2, <2>3, <2>4 DEF Signals
<1>4. ASSUME NEW s \in Steps, Kernel(s) PROVE TypeOK'
  <2>1. CASE MountNamespaceGoes(s)
    <3>1. UNCHANGED <<script, pending, code, failed, runc, box, status, ends, proxy,
                      placeholder, ca, action, byPost, tries, scratch, faults>>
      BY <2>1 DEF MountNamespaceGoes
    <3>2. rootfs' \in [Steps -> BOOLEAN] BY <2>1, <1>rootfs DEF MountNamespaceGoes
    <3>3. netns' \in [Steps -> Names] BY <2>1, <1>netns DEF MountNamespaceGoes
    <3>4. attached' \in [Steps -> Names] BY <2>1, <1>attached DEF MountNamespaceGoes
    <3> QED BY <3>1, <3>2, <3>3, <3>4 DEF TypeOK
  <2>2. CASE SandboxMountsGo(s)
    <3>1. UNCHANGED <<script, pending, code, failed, runc, box, status, rootfs, netns, ends,
                      attached, proxy, placeholder, action, byPost, tries, scratch, faults>>
      BY <2>2 DEF SandboxMountsGo
    <3>2. ca' \in [Steps -> CaStates] BY <2>2, <1>ca DEF SandboxMountsGo
    <3> QED BY <3>1, <3>2 DEF TypeOK
  <2>3. CASE NetworkNamespaceGoes(s)
    <3>1. UNCHANGED <<script, pending, code, failed, runc, box, status, rootfs, netns,
                      attached, proxy, placeholder, ca, action, byPost, tries, scratch,
                      faults>>
      BY <2>3 DEF NetworkNamespaceGoes
    <3>2. ends' \in [Steps -> Pairs] BY <2>3, <1>ends DEF NetworkNamespaceGoes
    <3> QED BY <3>1, <3>2 DEF TypeOK
  <2> QED BY <1>4, <2>1, <2>2, <2>3 DEF Kernel
<1>5. ASSUME NEW s \in Steps, Action(s) PROVE TypeOK'
  <2>1. CASE SudoReturns(s)
    <3>1. UNCHANGED <<script, pending, code, failed, runc, box, status, rootfs, netns, ends,
                      attached, proxy, placeholder, ca, byPost, tries, scratch>>
      BY <2>1 DEF SudoReturns
    <3>2. action' \in [Steps -> ActionStates] BY <2>1, <1>action DEF SudoReturns
    <3>3. faults' \in Nat BY <2>1, <1>faults DEF SudoReturns
    <3> QED BY <3>1, <3>2, <3>3 DEF TypeOK
  <2>2. CASE PostTakesOver(s)
    <3>1. UNCHANGED <<script, pending, code, failed, runc, box, status, rootfs, netns, ends,
                      attached, proxy, placeholder, ca, scratch>>
      BY <2>2 DEF PostTakesOver
    <3>2. byPost' \in [Steps -> BOOLEAN] BY <2>2, <1>byPost DEF PostTakesOver
    <3>3. action' \in [Steps -> ActionStates] BY <2>2, <1>action DEF PostTakesOver
    <3>4. tries' \in [Steps -> Nat] BY <2>2, <1>tries DEF PostTakesOver
    <3>5. faults' \in Nat BY <2>2, <1>faults DEF PostTakesOver
    <3> QED BY <3>1, <3>2, <3>3, <3>4, <3>5 DEF TypeOK
  <2>3. CASE RemoveScratch(s)
    <3>1. UNCHANGED <<script, pending, code, failed, runc, box, status, netns, ends,
                      attached, proxy, placeholder, ca, byPost>>
      BY <2>3 DEF RemoveScratch
    <3>2. scratch' \in [Steps -> {"there", "gone", "again"}] BY <2>3, <1>scratch DEF RemoveScratch
    <3>3. rootfs' \in [Steps -> BOOLEAN] BY <2>3, <1>rootfs DEF RemoveScratch
    <3>4. action' \in [Steps -> ActionStates] BY <2>3, <1>action DEF RemoveScratch
    <3>5. tries' \in [Steps -> Nat] BY <2>3, <1>tries DEF RemoveScratch
    <3>6. faults' \in Nat BY <2>3, <1>faults DEF RemoveScratch
    <3> QED BY <3>1, <3>2, <3>3, <3>4, <3>5, <3>6 DEF TypeOK
  <2>4. CASE StopProxy(s)
    <3>1. UNCHANGED <<script, pending, code, failed, runc, box, status, rootfs, netns, ends,
                      attached, placeholder, ca, byPost, tries, scratch>>
      BY <2>4 DEF StopProxy
    <3>2. action' \in [Steps -> ActionStates] BY <2>4, <1>action DEF StopProxy
    <3>3. proxy' \in [Steps -> BOOLEAN] BY <2>4, <1>proxy DEF StopProxy
    <3>4. faults' \in Nat BY <2>4, <1>faults DEF StopProxy
    <3> QED BY <3>1, <3>2, <3>3, <3>4 DEF TypeOK
  <2> QED BY <1>5, <2>1, <2>2, <2>3, <2>4 DEF Action
<1>6. CASE UNCHANGED vars BY <1>6 DEF vars, TypeOK
<1> QED BY <1>1, <1>2, <1>3, <1>4, <1>5, <1>6 DEF Next

-----------------------------------------------------------------------------
\* Every action keeps what is known of each step.
LEMMA KnownInductive == TypeOK /\ Known /\ [Next]_vars => Known'
<1> SUFFICES ASSUME TypeOK, Known, [Next]_vars PROVE Known'
  OBVIOUS
<1> USE AfterEach DEF TypeOK, Places, RuncStates, BoxStates, Pairs, Names, ActionStates, Known, Processed,
        Coded, WiringOK, TornDown, RootStands, Reclaims, NoVeth, Wired, Wire, AddVeth, MoveTargetEnd,
        MoveProxyEnd, RuncAlive, BoxAlive, BoxWithoutRunc, Unmounted, Buildable,
        processVars, networkVars, caVars, actionVars, Goto, Fault, Setup, Trap, Alive, Works, Fails
<1>1. ASSUME NEW s \in Steps, Script(s) PROVE Known'
  <2>1. CASE Check(s) BY <2>1 DEF Check
  <2>2. CASE MountRoot(s) BY <2>2 DEF MountRoot
  <2>3. CASE AddNetns(s) BY <2>3 DEF AddNetns
  <2>4. CASE AddVeth(s) BY <2>4 DEF AddVeth
  <2>5. CASE MoveTargetEnd(s) BY <2>5 DEF MoveTargetEnd
  <2>6. CASE Attach(s) BY <2>6 DEF Attach
  <2>7. CASE MoveProxyEnd(s) BY <2>7 DEF MoveProxyEnd
  <2>8. CASE Configure(s) BY <2>8 DEF Configure
  <2>9. CASE ForkRunc(s) BY <2>9 DEF ForkRunc
  <2>10. CASE Reap(s) BY <2>10 DEF Reap
  <2>11. CASE DeleteContainer(s) BY <2>11 DEF DeleteContainer
  <2>12. CASE RemovePlaceholder(s) BY <2>12 DEF RemovePlaceholder
  <2>13. CASE UnmountRoot(s) BY <2>13 DEF UnmountRoot
  <2>14. CASE DeleteProxyEnd(s) BY <2>14 DEF DeleteProxyEnd
  <2>15. CASE DeleteNames(s) BY <2>15 DEF DeleteNames
  <2> QED BY <1>1, <2>1, <2>2, <2>3, <2>4, <2>5, <2>6, <2>7, <2>8, <2>9, <2>10, <2>11, <2>12, <2>13,
         <2>14, <2>15 DEF Script
<1>2. ASSUME NEW s \in Steps, Processes(s) PROVE Known'
  <2>1. CASE ArmRunc(s) BY <2>1 DEF ArmRunc
  <2>2. CASE RuncFails(s) BY <2>2 DEF RuncFails
  <2>3. CASE OpenPlaceholder(s) BY <2>3 DEF OpenPlaceholder
  <2>4. CASE StartBox(s) BY <2>4 DEF StartBox
  <2>5. CASE ArmBox(s) BY <2>5 DEF ArmBox
  <2>6. CASE BoxEnds(s) BY <2>6 DEF BoxEnds
  <2> QED BY <1>2, <2>1, <2>2, <2>3, <2>4, <2>5, <2>6 DEF Processes
<1>3. ASSUME NEW s \in Steps, Signals(s) PROVE Known'
  <2>1. CASE Term(s)
    <3>1. CASE script[s] \in Setup BY <2>1, <3>1 DEF Term
    <3>2. CASE script[s] = "wait"
      <4>1. UNCHANGED <<script, code, failed, processVars, rootfs, networkVars, caVars, actionVars>>
        BY <2>1, <3>2 DEF Term
      <4>2. faults' = faults + 1 BY <2>1 DEF Term
      <4>3. \A r \in Steps : r # s => pending'[r] = pending[r] BY <2>1, <3>2 DEF Term
      <4>4. \A r \in Steps : Coded(r)' BY <4>1, <4>3, <3>2
      <4>5. \A r \in Steps :
              Processed(r)' /\ WiringOK(r)' /\ TornDown(r)' /\ RootStands(r)' /\ Reclaims(r)'
        BY <4>1, <4>2
      <4> QED BY <4>4, <4>5
    <3> QED BY <2>1, <3>1, <3>2 DEF Term
  <2>2. CASE KillScript(s) BY <2>2 DEF KillScript
  <2>3. CASE KillRunc(s) BY <2>3 DEF KillRunc
  <2>4. CASE ProxyDies(s) BY <2>4 DEF ProxyDies
  <2> QED BY <1>3, <2>1, <2>2, <2>3, <2>4 DEF Signals
<1>4. ASSUME NEW s \in Steps, Kernel(s) PROVE Known'
  <2>1. CASE MountNamespaceGoes(s) BY <2>1 DEF MountNamespaceGoes
  <2>2. CASE SandboxMountsGo(s) BY <2>2 DEF SandboxMountsGo
  <2>3. CASE NetworkNamespaceGoes(s) BY <2>3 DEF NetworkNamespaceGoes
  <2> QED BY <1>4, <2>1, <2>2, <2>3 DEF Kernel
<1>5. ASSUME NEW s \in Steps, Action(s) PROVE Known'
  <2>1. CASE SudoReturns(s) BY <2>1 DEF SudoReturns
  <2>2. CASE PostTakesOver(s) BY <2>2 DEF PostTakesOver
  <2>3. CASE RemoveScratch(s) BY <2>3 DEF RemoveScratch
  <2>4. CASE StopProxy(s) BY <2>4 DEF StopProxy
  <2> QED BY <1>5, <2>1, <2>2, <2>3, <2>4 DEF Action
<1>6. CASE UNCHANGED vars BY <1>6 DEF vars
<1> QED BY <1>1, <1>2, <1>3, <1>4, <1>5, <1>6 DEF Next

-----------------------------------------------------------------------------
\* A step that comes past the removal without an effect has failed there, unless
\* it has no bind of "/" to remove anything from.
LEMMA RemovalGoesOn ==
  ASSUME NEW s \in Steps, RemovePlaceholder(s), failed \in [Steps -> SUBSET Trap], placeholder'
  PROVE  /\ script[s] = "ca" /\ UNCHANGED runc
         /\ "ca" \in failed'[s] \/ (~rootfs[s] /\ action[s] = "waiting")
<1>1. script[s] = "ca" BY DEF RemovePlaceholder, Works, Fails, Goto
<1>2. UNCHANGED runc BY DEF RemovePlaceholder, processVars
<1>3. \/ ~rootfs[s] /\ action[s] = "waiting"
      \/ failed' = [failed EXCEPT ![s] = @ \cup {"ca"}]
  BY DEF RemovePlaceholder, Fails
<1> QED BY <1>1, <1>2, <1>3

\* Whoever may have made the placeholder is there until it is removed.
LEMMA HoldersStay ==
  ASSUME TypeOK, Known, NEW r \in Steps, HoldsPlaceholder(r), [Next]_vars, placeholder'
  PROVE  HoldsPlaceholder(r)'
<1> USE AfterEach DEF TypeOK, Places, RuncStates, HoldsPlaceholder, RuncAlive, Wire, AddVeth, MoveTargetEnd,
        MoveProxyEnd, processVars, networkVars, caVars, actionVars, Goto, Setup, Trap, Alive, Works, Fails
<1>1. ASSUME NEW s \in Steps, Script(s) PROVE HoldsPlaceholder(r)'
  <2>1. CASE Check(s) BY <2>1 DEF Check
  <2>2. CASE MountRoot(s) BY <2>2 DEF MountRoot
  <2>3. CASE AddNetns(s) BY <2>3 DEF AddNetns
  <2>4. CASE AddVeth(s) BY <2>4 DEF AddVeth
  <2>5. CASE MoveTargetEnd(s) BY <2>5 DEF MoveTargetEnd
  <2>6. CASE Attach(s) BY <2>6 DEF Attach
  <2>7. CASE MoveProxyEnd(s) BY <2>7 DEF MoveProxyEnd
  <2>8. CASE Configure(s) BY <2>8 DEF Configure
  <2>9. CASE ForkRunc(s) BY <2>9 DEF ForkRunc
  <2>10. CASE Reap(s) BY <2>10 DEF Reap
  <2>11. CASE DeleteContainer(s) BY <2>11 DEF DeleteContainer
  <2>12. CASE RemovePlaceholder(s)
    <3>1. CASE r # s BY <2>12, <3>1 DEF RemovePlaceholder
    <3>2. CASE r = s
      <4>1. RootStands(s) BY DEF Known
      <4> QED BY <2>12, <3>2, <4>1, RemovalGoesOn DEF RootStands
    <3> QED BY <3>1, <3>2
  <2>13. CASE UnmountRoot(s) BY <2>13 DEF UnmountRoot
  <2>14. CASE DeleteProxyEnd(s) BY <2>14 DEF DeleteProxyEnd
  <2>15. CASE DeleteNames(s) BY <2>15 DEF DeleteNames
  <2> QED BY <1>1, <2>1, <2>2, <2>3, <2>4, <2>5, <2>6, <2>7, <2>8, <2>9, <2>10, <2>11, <2>12, <2>13,
         <2>14, <2>15 DEF Script
<1>2. ASSUME NEW s \in Steps, Processes(s) PROVE HoldsPlaceholder(r)'
  <2>1. CASE ArmRunc(s) BY <2>1 DEF ArmRunc
  <2>2. CASE RuncFails(s) BY <2>2 DEF RuncFails
  <2>3. CASE OpenPlaceholder(s) BY <2>3 DEF OpenPlaceholder
  <2>4. CASE StartBox(s) BY <2>4 DEF StartBox
  <2>5. CASE ArmBox(s) BY <2>5 DEF ArmBox
  <2>6. CASE BoxEnds(s) BY <2>6 DEF BoxEnds
  <2> QED BY <1>2, <2>1, <2>2, <2>3, <2>4, <2>5, <2>6 DEF Processes
<1>3. ASSUME NEW s \in Steps, Signals(s) PROVE HoldsPlaceholder(r)'
  <2>1. CASE Term(s) BY <2>1 DEF Term
  <2>2. CASE KillScript(s) BY <2>2 DEF KillScript
  <2>3. CASE KillRunc(s) BY <2>3 DEF KillRunc
  <2>4. CASE ProxyDies(s) BY <2>4 DEF ProxyDies
  <2> QED BY <1>3, <2>1, <2>2, <2>3, <2>4 DEF Signals
<1>4. ASSUME NEW s \in Steps, Kernel(s) PROVE HoldsPlaceholder(r)'
  <2>1. CASE MountNamespaceGoes(s) BY <2>1 DEF MountNamespaceGoes
  <2>2. CASE SandboxMountsGo(s) BY <2>2 DEF SandboxMountsGo
  <2>3. CASE NetworkNamespaceGoes(s) BY <2>3 DEF NetworkNamespaceGoes
  <2> QED BY <1>4, <2>1, <2>2, <2>3 DEF Kernel
<1>5. ASSUME NEW s \in Steps, Action(s) PROVE HoldsPlaceholder(r)'
  <2>1. CASE SudoReturns(s) BY <2>1 DEF SudoReturns
  <2>2. CASE PostTakesOver(s) BY <2>2 DEF PostTakesOver
  <2>3. CASE RemoveScratch(s) BY <2>3 DEF RemoveScratch
  <2>4. CASE StopProxy(s) BY <2>4 DEF StopProxy
  <2> QED BY <1>5, <2>1, <2>2, <2>3, <2>4 DEF Action
<1>6. CASE UNCHANGED vars BY <1>6 DEF vars
<1> QED BY <1>1, <1>2, <1>3, <1>4, <1>5, <1>6 DEF Next

LEMMA OnlyOpeningMakes ==
  ASSUME [Next]_vars, ~placeholder, placeholder'
  PROVE  \E s \in Steps : OpenPlaceholder(s)
<1>1. \E s \in Steps : Script(s) \/ Processes(s) \/ Signals(s) \/ Kernel(s) \/ Action(s)
  BY DEF Next, vars, caVars
<1>2. \A s \in Steps : Script(s) => ~placeholder'
  BY DEF Script, Check, MountRoot, AddNetns, AddVeth, MoveTargetEnd, MoveProxyEnd, Wire, Attach, Configure,
         ForkRunc, Reap, DeleteContainer, RemovePlaceholder, UnmountRoot, DeleteProxyEnd, DeleteNames, caVars
<1>3. \A s \in Steps : Processes(s) => ~placeholder' \/ OpenPlaceholder(s)
  BY DEF Processes, ArmRunc, RuncFails, StartBox, ArmBox, BoxEnds, caVars
<1>4. \A s \in Steps : Signals(s) => ~placeholder'
  BY DEF Signals, Term, KillScript, KillRunc, ProxyDies, caVars
<1>5. \A s \in Steps : Kernel(s) => ~placeholder'
  BY DEF Kernel, MountNamespaceGoes, SandboxMountsGo, NetworkNamespaceGoes, caVars
<1>6. \A s \in Steps : Action(s) => ~placeholder'
  BY DEF Action, SudoReturns, PostTakesOver, RemoveScratch, StopProxy, caVars
<1> QED BY <1>1, <1>2, <1>3, <1>4, <1>5, <1>6

LEMMA PlaceholderInductive ==
  TypeOK /\ Known /\ PlaceholderHeld /\ [Next]_vars => PlaceholderHeld'
<1> SUFFICES ASSUME TypeOK, Known, PlaceholderHeld, [Next]_vars, placeholder'
             PROVE  \E r \in Steps : HoldsPlaceholder(r)'
  BY DEF PlaceholderHeld
<1>1. CASE placeholder BY <1>1, HoldersStay DEF PlaceholderHeld
<1>2. CASE ~placeholder
  <2>1. PICK s \in Steps : OpenPlaceholder(s) BY <1>2, OnlyOpeningMakes
  <2>2. Processed(s) /\ runc[s] \in {"armed", "orphan"} /\ script[s] \in Places
    BY <2>1 DEF Known, OpenPlaceholder, TypeOK
  <2>3. script[s] \in {"wait", "killed"} BY <2>2 DEF Processed, Places
  <2>4. HoldsPlaceholder(s)' BY <2>1, <2>2, <2>3 DEF HoldsPlaceholder, OpenPlaceholder, processVars
  <2> QED BY <2>4
<1> QED BY <1>1, <1>2

-----------------------------------------------------------------------------
LEMMA InvariantHolds == Spec => []IInv
<1>1. Init => IInv
  <2> SUFFICES ASSUME Init PROVE IInv
    OBVIOUS
  <2>1. TypeOK BY DEF Init, TypeOK, Places, RuncStates, BoxStates, Pairs, Names, CaStates, ActionStates, NoVeth
  <2>2. Known
    BY DEF Init, Known, Processed, Coded, WiringOK, TornDown, RootStands, Reclaims, NoVeth, RuncAlive,
           BoxAlive, Setup, Trap
  <2>3. PlaceholderHeld BY DEF Init, PlaceholderHeld
  <2> QED BY <2>1, <2>2, <2>3 DEF IInv
<1>2. IInv /\ [Next]_vars => IInv' BY TypeInductive, KnownInductive, PlaceholderInductive DEF IInv
<1> QED BY <1>1, <1>2, PTL DEF Spec

\* One failure never leaves the scratch dir behind both the action and its post
\* step, whichever it is and wherever it strikes.
THEOREM ScratchIsReclaimed == Spec => []ScratchReclaimed
<1>1. IInv => ScratchReclaimed BY DEF IInv, Known, Reclaims, ScratchReclaimed
<1> QED BY InvariantHolds, <1>1, PTL

\* A command that runs is on its pair to the proxy or on none, whoever was killed
\* and whoever has stopped the proxy; and it loses the pair only as an orphan or
\* to a trap whose `runc delete` failed on it.
THEOREM CommandsKeepTheirNetwork == Spec => []CommandKeepsItsNetwork
<1>1. IInv => CommandKeepsItsNetwork
  BY DEF IInv, Known, WiringOK, CommandKeepsItsNetwork, NoVeth, Wired
<1> QED BY InvariantHolds, <1>1, PTL

\* The script's exit code is the command's.
THEOREM CodesAreFaithful == Spec => []CodeFaithful
<1>1. IInv => CodeFaithful BY DEF IInv, Known, TypeOK, Coded, CodeFaithful, Trap
<1> QED BY InvariantHolds, <1>1, PTL

\* A trap whose commands worked leaves nothing of its step, and all of them
\* together leave no placeholder.
THEOREM TrapsTearDown == Spec => []TrapTearsDown
<1>1. ASSUME IInv PROVE TrapTearsDown
  <2>1. ASSUME NEW s \in Steps, script[s] = "gone", failed[s] \subseteq {"ca"}
        PROVE  /\ ~RuncAlive(s) /\ ~BoxAlive(s)
               /\ ~rootfs[s] /\ netns[s] = "none" /\ attached[s] = "none"
               /\ ends[s].p = "proxy" => ~proxy[s]
    BY <1>1, <2>1 DEF IInv, Known, Processed, TornDown, RuncAlive, Trap
  <2>2. (\A s \in Steps : script[s] = "gone" /\ "ca" \notin failed[s]) => ~placeholder
    BY <1>1 DEF IInv, PlaceholderHeld, HoldsPlaceholder
  <2> QED BY <2>1, <2>2 DEF TrapTearsDown
<1> QED BY InvariantHolds, <1>1, PTL
=============================================================================
