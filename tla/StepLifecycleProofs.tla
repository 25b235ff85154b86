------------------------ MODULE StepLifecycleProofs ------------------------
(***************************************************************************)
(* The safety of StepLifecycle for any set of steps, any environment whose *)
(* owner tokens tell the recorded steps apart and any number of failures.  *)
(*                                                                         *)
(* The argument: a post process that passes its ownership check on another *)
(* step's name found no container under it. The name was learnt from a     *)
(* container, so its step is past `compose up` and never creates one       *)
(* again; a step without a container is past the phases that use one.      *)
(***************************************************************************)
EXTENDS StepLifecycle, TLAPS

\* Only `compose up` makes a container.
CreatedByUp ==
  \A s \in Steps : container[s] # "absent" => pc[s] \notin BeforeUp

\* A foreign name in a step's state is that of a step past `compose up`.
LearntNames ==
  \A t, s \in Steps : saved[t] = s /\ s # t => pc[s] \notin BeforeUp

\* The post process starts after the main process and acts on a step's name.
PostAfterMain ==
  \A t \in Steps :
    /\ post[t] # "waiting" => t \in Recorded /\ pc[t] \in Ended
    /\ post[t] \in {"check", "reclaim", "down"} => target[t] \in Steps

\* A foreign name that passed the ownership check has no container any more.
ClaimedTargets ==
  \A t, s \in Steps : target[t] = s /\ s # t =>
    /\ pc[s] \notin BeforeUp
    /\ post[t] \in {"reclaim", "down"} => container[s] = "absent"

\* `compose up --wait` is over once its container is used.
HealthyOnce == \A s \in Steps : pc[s] \in Using \ {"wait"} => container[s] # "unready"

Claims == CreatedByUp /\ LearntNames /\ PostAfterMain /\ ClaimedTargets /\ HealthyOnce

IInv == TypeOK /\ Claims /\ LiveStepKeepsResources

USE NamesAssumption, OwnerAssumption, BoundsAssumption

\* Every action keeps the types.
LEMMA TypeInductive == TypeOK /\ [Next]_vars => TypeOK'
<1> SUFFICES ASSUME TypeOK, [Next]_vars PROVE TypeOK'
  OBVIOUS
<1> USE DEF TypeOK, Phases, BeforeUp, Using, Ended, mainVars, hostVars, postVars,
            Goto, Throw, Fault
<1>1. ASSUME NEW s \in Steps, Main(s) PROVE TypeOK'
  <2>1. CASE Preflight(s) BY <2>1 DEF Preflight
  <2>2. CASE Plan(s)
    <3>1. UNCHANGED <<command, blocked, report, hostVars, saved, postVars, faults>>
      BY <2>2 DEF Plan
    <3>2. pc' \in [Steps -> Phases] BY <2>2 DEF Plan
    <3>3. owed' \in [Steps -> BOOLEAN] BY <2>2 DEF Plan
    <3>4. thrown' \in [Steps -> BOOLEAN] BY <2>2 DEF Plan
    <3> QED BY <3>1, <3>2, <3>3, <3>4
  <2>3. CASE Verify(s) BY <2>3 DEF Verify
  <2>4. CASE Save(s) BY <2>4 DEF Save
  <2>5. CASE CreateContainer(s) BY <2>5 DEF CreateContainer
  <2>6. CASE UpFails(s) BY <2>6 DEF UpFails
  <2>7. CASE Healthy(s) BY <2>7 DEF Healthy
  <2>8. CASE NotReady(s) BY <2>8 DEF NotReady
  <2>9. CASE Netns(s)
    <3>1. UNCHANGED <<owed, command, blocked, report, hostVars, saved, postVars>>
      BY <2>9 DEF Netns
    <3>2. pc' \in [Steps -> Phases] BY <2>9 DEF Netns
    <3>3. thrown' \in [Steps -> BOOLEAN] BY <2>9 DEF Netns
    <3>4. faults' \in 0 .. MaxFaults BY <2>9 DEF Netns
    <3> QED BY <3>1, <3>2, <3>3, <3>4
  <2>10. CASE MakeScratch(s)
    <3>1. UNCHANGED <<owed, command, blocked, report, container, sandbox, saved, postVars>>
      BY <2>10 DEF MakeScratch
    <3>2. pc' \in [Steps -> Phases] BY <2>10 DEF MakeScratch
    <3>3. thrown' \in [Steps -> BOOLEAN] BY <2>10 DEF MakeScratch
    <3>4. scratch' \in [Steps -> BOOLEAN] BY <2>10 DEF MakeScratch
    <3>5. faults' \in 0 .. MaxFaults BY <2>10 DEF MakeScratch
    <3> QED BY <3>1, <3>2, <3>3, <3>4, <3>5
  <2>11. CASE Assemble(s)
    <3>1. UNCHANGED <<owed, command, blocked, report, hostVars, saved, postVars>>
      BY <2>11 DEF Assemble
    <3>2. pc' \in [Steps -> Phases] BY <2>11 DEF Assemble
    <3>3. thrown' \in [Steps -> BOOLEAN] BY <2>11 DEF Assemble
    <3>4. faults' \in 0 .. MaxFaults BY <2>11 DEF Assemble
    <3> QED BY <3>1, <3>2, <3>3, <3>4
  <2>12. CASE StartSandbox(s)
    <3>1. UNCHANGED <<thrown, owed, blocked, report, container, scratch, saved, postVars>>
      BY <2>12 DEF StartSandbox
    <3>2. pc' \in [Steps -> Phases] BY <2>12 DEF StartSandbox
    <3>3. command' \in [Steps -> ExitCodes \cup {NoCode}] BY <2>12 DEF StartSandbox
    <3>4. sandbox' \in [Steps -> BOOLEAN] BY <2>12 DEF StartSandbox
    <3>5. faults' \in 0 .. MaxFaults BY <2>12 DEF StartSandbox
    <3> QED BY <3>1, <3>2, <3>3, <3>4, <3>5
  <2>13. CASE CommandExits(s) BY <2>13 DEF CommandExits
  <2>14. CASE RemoveScratch(s)
    <3>1. UNCHANGED <<owed, command, blocked, report, container, sandbox, saved, postVars>>
      BY <2>14 DEF RemoveScratch
    <3>2. pc' \in [Steps -> Phases] BY <2>14 DEF RemoveScratch
    <3>3. thrown' \in [Steps -> BOOLEAN] BY <2>14 DEF RemoveScratch
    <3>4. scratch' \in [Steps -> BOOLEAN] BY <2>14 DEF RemoveScratch
    <3>5. faults' \in 0 .. MaxFaults BY <2>14 DEF RemoveScratch
    <3> QED BY <3>1, <3>2, <3>3, <3>4, <3>5
  <2>15. CASE Report(s) BY <2>15 DEF Report
  <2>16. CASE StopProxy(s) BY <2>16 DEF StopProxy
  <2>17. CASE GiveBack(s) BY <2>17 DEF GiveBack
  <2> QED BY <1>1, <2>1, <2>2, <2>3, <2>4, <2>5, <2>6, <2>7, <2>8, <2>9, <2>10,
             <2>11, <2>12, <2>13, <2>14, <2>15, <2>16, <2>17 DEF Main
<1>2. ASSUME NEW s \in Steps, Environment(s) PROVE TypeOK'
  <2>1. CASE Kill(s) BY <2>1 DEF Kill
  <2>2. CASE OrphanEnds(s) BY <2>2 DEF OrphanEnds
  <2>3. CASE ProxyDies(s) BY <2>3 DEF ProxyDies
  <2>4. CASE RewriteState(s) BY <2>4 DEF RewriteState
  <2> QED BY <1>2, <2>1, <2>2, <2>3, <2>4 DEF Environment
<1>3. ASSUME NEW s \in Steps, Post(s) PROVE TypeOK'
  <2>1. CASE PostStart(s) BY <2>1 DEF PostStart
  <2>2. CASE PostCheck(s) BY <2>2 DEF PostCheck
  <2>3. CASE PostReclaim(s)
    <3>1. UNCHANGED <<pc, mainVars, container, sandbox, saved, target>>
      BY <2>3 DEF PostReclaim
    <3>2. post' \in [Steps -> {"waiting", "check", "reclaim", "down", "done",
                                "skipped", "crashed"}]
      BY <2>3 DEF PostReclaim
    <3>3. scratch' \in [Steps -> BOOLEAN] BY <2>3 DEF PostReclaim
    <3>4. faults' \in 0 .. MaxFaults BY <2>3 DEF PostReclaim
    <3> QED BY <3>1, <3>2, <3>3, <3>4
  <2>4. CASE PostDown(s) BY <2>4 DEF PostDown
  <2> QED BY <1>3, <2>1, <2>2, <2>3, <2>4 DEF Post
<1>4. CASE UNCHANGED vars BY <1>4 DEF vars
<1> QED BY <1>1, <1>2, <1>3, <1>4 DEF Next

\* Every action keeps the claims and the resources of the running steps.
LEMMA ClaimsInductive ==
  IInv /\ [Next]_vars => Claims' /\ LiveStepKeepsResources'
<1> SUFFICES ASSUME IInv, [Next]_vars PROVE Claims' /\ LiveStepKeepsResources'
  OBVIOUS
<1> USE DEF IInv, TypeOK, Claims, CreatedByUp, LearntNames, PostAfterMain, ClaimedTargets,
            HealthyOnce, LiveStepKeepsResources, Phases, BeforeUp, Using, Ended, InScratch,
            mainVars, hostVars, postVars, Goto, Throw
<1>1. ASSUME NEW s \in Steps, Main(s) PROVE Claims' /\ LiveStepKeepsResources'
  <2>1. CASE Preflight(s) BY <2>1 DEF Preflight
  <2>2. CASE Plan(s) BY <2>2 DEF Plan
  <2>3. CASE Verify(s) BY <2>3 DEF Verify
  <2>4. CASE Save(s) BY <2>4 DEF Save
  <2>5. CASE CreateContainer(s) BY <2>5 DEF CreateContainer
  <2>6. CASE UpFails(s) BY <2>6 DEF UpFails
  <2>7. CASE Healthy(s) BY <2>7 DEF Healthy
  <2>8. CASE NotReady(s) BY <2>8 DEF NotReady
  <2>9. CASE Netns(s) BY <2>9 DEF Netns
  <2>10. CASE MakeScratch(s) BY <2>10 DEF MakeScratch
  <2>11. CASE Assemble(s) BY <2>11 DEF Assemble
  <2>12. CASE StartSandbox(s) BY <2>12 DEF StartSandbox
  <2>13. CASE CommandExits(s) BY <2>13 DEF CommandExits
  <2>14. CASE RemoveScratch(s) BY <2>14 DEF RemoveScratch
  <2>15. CASE Report(s) BY <2>15 DEF Report
  <2>16. CASE StopProxy(s) BY <2>16 DEF StopProxy
  <2>17. CASE GiveBack(s) BY <2>17 DEF GiveBack
  <2> QED BY <1>1, <2>1, <2>2, <2>3, <2>4, <2>5, <2>6, <2>7, <2>8, <2>9, <2>10, <2>11, <2>12, <2>13, <2>14, <2>15, <2>16, <2>17 DEF Main
<1>2. ASSUME NEW s \in Steps, Environment(s) PROVE Claims' /\ LiveStepKeepsResources'
  <2>1. CASE Kill(s) BY <2>1 DEF Kill
  <2>2. CASE OrphanEnds(s) BY <2>2 DEF OrphanEnds
  <2>3. CASE ProxyDies(s) BY <2>3 DEF ProxyDies
  <2>4. CASE RewriteState(s) BY <2>4 DEF RewriteState
  <2> QED BY <1>2, <2>1, <2>2, <2>3, <2>4 DEF Environment
<1>3. ASSUME NEW s \in Steps, Post(s) PROVE Claims' /\ LiveStepKeepsResources'
  <2>1. CASE PostStart(s) BY <2>1 DEF PostStart
  <2>2. CASE PostCheck(s) BY <2>2 DEF PostCheck, StartedByThisStep
  <2>3. CASE PostReclaim(s) BY <2>3 DEF PostReclaim
  <2>4. CASE PostDown(s) BY <2>4 DEF PostDown
  <2> QED BY <1>3, <2>1, <2>2, <2>3, <2>4 DEF Post
<1>4. CASE UNCHANGED vars BY <1>4 DEF vars
<1> QED BY <1>1, <1>2, <1>3, <1>4 DEF Next

LEMMA InitEstablishes == Init => IInv
BY DEF Init, IInv, TypeOK, Claims, CreatedByUp, LearntNames, PostAfterMain, ClaimedTargets,
       HealthyOnce, LiveStepKeepsResources, Phases, BeforeUp, Using, Ended, InScratch

LEMMA InvariantHolds == Spec => []IInv
<1>1. IInv /\ [Next]_vars => IInv'
  BY TypeInductive, ClaimsInductive DEF IInv
<1> QED BY InitEstablishes, <1>1, PTL DEF Spec

\* The state of every step stays within its type, for any steps and bounds.
THEOREM TypeCorrect == Spec => []TypeOK
<1>1. IInv => TypeOK BY DEF IInv
<1> QED BY InvariantHolds, <1>1, PTL

\* No cleanup takes the container or the scratch dir of a running step away.
THEOREM LiveStepsKeepTheirResources == Spec => []LiveStepKeepsResources
<1>1. IInv => LiveStepKeepsResources BY DEF IInv
<1> QED BY InvariantHolds, <1>1, PTL

-----------------------------------------------------------------------------
\* Directories are owed from Plan to GiveBack, and at the end to nobody; and what
\* did not throw has removed its scratch dir by the time it reports.
DirsClaim == \A s \in Steps : pc[s] \in {"preflight", "plan", "done"} => ~owed[s]

ScratchClaim ==
  \A s \in Steps : pc[s] \in {"report", "down", "giveback", "done"} /\ ~thrown[s] => ~scratch[s]

LEMMA WayOutInductive ==
  TypeOK /\ DirsClaim /\ ScratchClaim /\ [Next]_vars => DirsClaim' /\ ScratchClaim'
<1> SUFFICES ASSUME TypeOK, DirsClaim, ScratchClaim, [Next]_vars
             PROVE  DirsClaim' /\ ScratchClaim'
  OBVIOUS
<1> USE DEF TypeOK, DirsClaim, ScratchClaim, Ended, mainVars, hostVars, postVars, Goto, Throw
<1>1. ASSUME NEW s \in Steps, Main(s) PROVE DirsClaim' /\ ScratchClaim'
  <2>1. CASE Preflight(s) BY <2>1 DEF Preflight
  <2>2. CASE Plan(s) BY <2>2 DEF Plan
  <2>3. CASE Verify(s) BY <2>3 DEF Verify
  <2>4. CASE Save(s) BY <2>4 DEF Save
  <2>5. CASE CreateContainer(s) BY <2>5 DEF CreateContainer
  <2>6. CASE UpFails(s) BY <2>6 DEF UpFails
  <2>7. CASE Healthy(s) BY <2>7 DEF Healthy
  <2>8. CASE NotReady(s) BY <2>8 DEF NotReady
  <2>9. CASE Netns(s) BY <2>9 DEF Netns
  <2>10. CASE MakeScratch(s) BY <2>10 DEF MakeScratch
  <2>11. CASE Assemble(s) BY <2>11 DEF Assemble
  <2>12. CASE StartSandbox(s) BY <2>12 DEF StartSandbox
  <2>13. CASE CommandExits(s) BY <2>13 DEF CommandExits
  <2>14. CASE RemoveScratch(s) BY <2>14 DEF RemoveScratch
  <2>15. CASE Report(s) BY <2>15 DEF Report
  <2>16. CASE StopProxy(s) BY <2>16 DEF StopProxy
  <2>17. CASE GiveBack(s) BY <2>17 DEF GiveBack
  <2> QED BY <1>1, <2>1, <2>2, <2>3, <2>4, <2>5, <2>6, <2>7, <2>8, <2>9, <2>10, <2>11,
         <2>12, <2>13, <2>14, <2>15, <2>16, <2>17 DEF Main
<1>2. ASSUME NEW s \in Steps, Environment(s) PROVE DirsClaim' /\ ScratchClaim'
  <2>1. CASE Kill(s) BY <2>1 DEF Kill
  <2>2. CASE OrphanEnds(s) BY <2>2 DEF OrphanEnds
  <2>3. CASE ProxyDies(s) BY <2>3 DEF ProxyDies
  <2>4. CASE RewriteState(s) BY <2>4 DEF RewriteState
  <2> QED BY <1>2, <2>1, <2>2, <2>3, <2>4 DEF Environment
<1>3. ASSUME NEW s \in Steps, Post(s) PROVE DirsClaim' /\ ScratchClaim'
  <2>1. CASE PostStart(s) BY <2>1 DEF PostStart
  <2>2. CASE PostCheck(s) BY <2>2 DEF PostCheck
  <2>3. CASE PostReclaim(s) BY <2>3 DEF PostReclaim
  <2>4. CASE PostDown(s) BY <2>4 DEF PostDown
  <2> QED BY <1>3, <2>1, <2>2, <2>3, <2>4 DEF Post
<1>4. CASE UNCHANGED vars BY <1>4 DEF vars
<1> QED BY <1>1, <1>2, <1>3, <1>4 DEF Next

\* Every way out of a step but a kill gives its directories back.
THEOREM DirsAreGivenBack == Spec => []DirsGivenBack
<1>1. Init => DirsClaim /\ ScratchClaim BY DEF Init, DirsClaim, ScratchClaim
<1>2. DirsClaim => DirsGivenBack BY DEF DirsClaim, DirsGivenBack
<1> QED BY TypeCorrect, WayOutInductive, <1>1, <1>2, PTL DEF Spec

\* A step succeeds only if its command, its report and its cleanup did, and the
\* code of a command reaches it as it is.
THEOREM ExitCodesAreFaithful == Spec => []ExitCodeFaithful
<1>1. Init => DirsClaim /\ ScratchClaim BY DEF Init, DirsClaim, ScratchClaim
<1>2. TypeOK /\ ScratchClaim => ExitCodeFaithful
  BY DEF TypeOK, ScratchClaim, ExitCodeFaithful, ExitCode
<1> QED BY TypeCorrect, WayOutInductive, <1>1, <1>2, PTL DEF Spec

-----------------------------------------------------------------------------
\* Only reportStepTraffic settles a report, in a phase that counts on the
\* container.
LEMMA ReportStep ==
  ASSUME IInv, [Next]_vars, NEW s \in Steps, report[s] = "none", report'[s] = "lost"
  PROVE  faults' > faults \/ container[s] = "stopped"
<1> USE DEF IInv, TypeOK, Using, mainVars, hostVars, postVars
<1>1. ASSUME NEW r \in Steps, Report(r) PROVE faults' > faults \/ container[s] = "stopped"
  <2>1. r = s /\ pc[s] = "report" BY <1>1 DEF Report, Goto
  <2>2. container[s] \notin {"absent", "unready"}
    BY <2>1 DEF Claims, HealthyOnce, LiveStepKeepsResources
  <2>3. container[s] # "running" \/ faults' = faults + 1
    BY <1>1, <2>1 DEF Report, Fault
  <2> QED BY <2>2, <2>3
<1>2. ASSUME NEW r \in Steps, Main(r), ~Report(r) PROVE UNCHANGED report
  BY <1>2 DEF Main, Preflight, Plan, Verify, Save, CreateContainer, UpFails, Healthy,
       NotReady, Netns, MakeScratch, Assemble, StartSandbox, CommandExits, RemoveScratch,
       StopProxy, GiveBack
<1>3. ASSUME NEW r \in Steps, Environment(r) PROVE UNCHANGED report
  BY <1>3 DEF Environment, Kill, OrphanEnds, ProxyDies, RewriteState
<1>4. ASSUME NEW r \in Steps, Post(r) PROVE UNCHANGED report
  BY <1>4 DEF Post, PostStart, PostCheck, PostReclaim, PostDown
<1>5. CASE UNCHANGED vars BY <1>5 DEF vars
<1> QED BY <1>1, <1>2, <1>3, <1>4, <1>5 DEF Next

\* A report is lost only to a failure or to a proxy that died by itself: no
\* teardown takes the proxy away before it was read.
THEOREM ReportsAreRead == Spec => ReportReadBeforeStop
<1>1. IInv /\ [Next]_vars =>
        [\A s \in Steps : report[s] = "none" /\ report'[s] = "lost" =>
           faults' > faults \/ container[s] = "stopped"]_vars
  BY ReportStep
<1> QED BY InvariantHolds, <1>1, PTL DEF Spec, ReportReadBeforeStop

-----------------------------------------------------------------------------
\* What a post process on its own step's name has achieved by each phase.
OwnClaim ==
  \A s \in Steps : target[s] = s =>
    /\ post[s] = "done" => container[s] = "absent"
    /\ post[s] \in {"down", "done"} /\ scratch[s] => faults > 0

LEMMA OwnClaimInductive == IInv /\ OwnClaim /\ [Next]_vars => OwnClaim'
<1> SUFFICES ASSUME IInv, OwnClaim, [Next]_vars PROVE OwnClaim'
  OBVIOUS
<1> USE DEF IInv, TypeOK, Claims, PostAfterMain, OwnClaim, Ended, mainVars,
            hostVars, postVars, Goto, Throw, Fault
<1>1. ASSUME NEW s \in Steps, Main(s) PROVE OwnClaim'
  <2>1. CASE Preflight(s) BY <2>1 DEF Preflight
  <2>2. CASE Plan(s) BY <2>2 DEF Plan
  <2>3. CASE Verify(s) BY <2>3 DEF Verify
  <2>4. CASE Save(s) BY <2>4 DEF Save
  <2>5. CASE CreateContainer(s) BY <2>5 DEF CreateContainer
  <2>6. CASE UpFails(s) BY <2>6 DEF UpFails
  <2>7. CASE Healthy(s) BY <2>7 DEF Healthy
  <2>8. CASE NotReady(s) BY <2>8 DEF NotReady
  <2>9. CASE Netns(s) BY <2>9 DEF Netns
  <2>10. CASE MakeScratch(s) BY <2>10 DEF MakeScratch
  <2>11. CASE Assemble(s) BY <2>11 DEF Assemble
  <2>12. CASE StartSandbox(s) BY <2>12 DEF StartSandbox
  <2>13. CASE CommandExits(s) BY <2>13 DEF CommandExits
  <2>14. CASE RemoveScratch(s) BY <2>14 DEF RemoveScratch
  <2>15. CASE Report(s) BY <2>15 DEF Report
  <2>16. CASE StopProxy(s) BY <2>16 DEF StopProxy
  <2>17. CASE GiveBack(s) BY <2>17 DEF GiveBack
  <2> QED BY <1>1, <2>1, <2>2, <2>3, <2>4, <2>5, <2>6, <2>7, <2>8, <2>9, <2>10, <2>11, <2>12, <2>13, <2>14, <2>15, <2>16, <2>17 DEF Main
<1>2. ASSUME NEW s \in Steps, Environment(s) PROVE OwnClaim'
  <2>1. CASE Kill(s) BY <2>1 DEF Kill
  <2>2. CASE OrphanEnds(s) BY <2>2 DEF OrphanEnds
  <2>3. CASE ProxyDies(s) BY <2>3 DEF ProxyDies
  <2>4. CASE RewriteState(s) BY <2>4 DEF RewriteState
  <2> QED BY <1>2, <2>1, <2>2, <2>3, <2>4 DEF Environment
<1>3. ASSUME NEW s \in Steps, Post(s) PROVE OwnClaim'
  <2>1. CASE PostStart(s) BY <2>1 DEF PostStart
  <2>2. CASE PostCheck(s) BY <2>2 DEF PostCheck
  <2>3. CASE PostReclaim(s) BY <2>3 DEF PostReclaim
  <2>4. CASE PostDown(s) BY <2>4 DEF PostDown
  <2> QED BY <1>3, <2>1, <2>2, <2>3, <2>4 DEF Post
<1>4. CASE UNCHANGED vars BY <1>4 DEF vars
<1> QED BY <1>1, <1>2, <1>3, <1>4 DEF Next

\* A post process that completes for its own step leaves nothing of it.
THEOREM PostReclaimsItsStep == Spec => []OwnPostReclaims
<1>1. Init => OwnClaim BY NamesAssumption DEF Init, OwnClaim
<1>2. OwnClaim => OwnPostReclaims BY DEF OwnClaim, OwnPostReclaims
<1> QED BY InvariantHolds, OwnClaimInductive, <1>1, <1>2, PTL DEF Spec

-----------------------------------------------------------------------------
\* The moves StepLease has for one step, a stutter included.
LeaseMoves ==
  {<<"none", "held">>, <<"none", "gone">>, <<"held", "gone">>,
   <<"held", "abandoned">>, <<"abandoned", "gone">>}

MovesOnly(s) ==
  /\ \A r \in Steps \ {s} : LeaseOf(r)' = LeaseOf(r)
  /\ LeaseOf(s)' = LeaseOf(s) \/ <<LeaseOf(s), LeaseOf(s)'>> \in LeaseMoves

LEMMA MoveIsLeaseStep ==
  ASSUME NEW s \in Steps, MovesOnly(s)
  PROVE  [Lease!Next]_leaseOf
<1>1. leaseOf' = [leaseOf EXCEPT ![s] = LeaseOf(s)']
  BY DEF leaseOf, MovesOnly
<1>2. CASE LeaseOf(s)' = LeaseOf(s)
  BY <1>1, <1>2 DEF leaseOf
<1>3. CASE <<LeaseOf(s), LeaseOf(s)'>> \in LeaseMoves
  <2>1. leaseOf[s] = LeaseOf(s) BY DEF leaseOf
  <2> QED BY <1>1, <1>3, <2>1 DEF LeaseMoves, Lease!Next, Lease!Acquire, Lease!Forgo,
             Lease!Release, Lease!Abandon, Lease!Reclaim, Lease!Move
<1> QED BY <1>2, <1>3 DEF MovesOnly

\* What the last phases of a post process know of the step they act on.
LEMMA PostTarget ==
  ASSUME IInv, NEW s \in Steps, post[s] \in {"reclaim", "down"}
  PROVE  /\ target[s] \in Steps
         /\ pc[target[s]] \in Ended \/ container[target[s]] = "absent"
         /\ pc[target[s]] \notin Using
         /\ pc[target[s]] \notin BeforeUp
<1> USE DEF IInv, TypeOK, Claims, PostAfterMain, ClaimedTargets,
            LiveStepKeepsResources, BeforeUp, Using, Ended
<1>1. target[s] \in Steps OBVIOUS
<1>2. CASE target[s] = s BY <1>2
<1>3. CASE target[s] # s BY <1>1, <1>3
<1> QED BY <1>1, <1>2, <1>3

LEMMA ReclaimIsLeaseStep ==
  ASSUME IInv, NEW s \in Steps, PostReclaim(s)
  PROVE  [Lease!Next]_leaseOf
<1>1. PICK n \in Steps : n = target[s] /\ pc[n] \notin Using
  BY PostTarget DEF PostReclaim
<1>2. UNCHANGED <<pc, container>> BY DEF PostReclaim
<1>3. \A r \in Steps : r # n => scratch'[r] = scratch[r]
  BY <1>1 DEF PostReclaim, IInv, TypeOK
<1>4. \A r \in Steps : LeaseOf(r)' = LeaseOf(r)
  BY <1>1, <1>2, <1>3 DEF LeaseOf, StepHasAll
<1>5. MovesOnly(n) BY <1>4 DEF MovesOnly
<1> QED BY <1>5, MoveIsLeaseStep

LEMMA PostDownIsLeaseStep ==
  ASSUME IInv, NEW s \in Steps, PostDown(s)
  PROVE  [Lease!Next]_leaseOf
<1>1. PICK n \in Steps : n = target[s] /\ pc[n] \notin Using /\ pc[n] \notin BeforeUp
  BY PostTarget DEF PostDown
<1>2. UNCHANGED <<pc, scratch>> BY DEF PostDown
<1>3. /\ \A r \in Steps : r # n => container'[r] = container[r]
      /\ container'[n] \in {"absent", container[n]}
  BY <1>1 DEF PostDown, IInv, TypeOK
<1>4. \A r \in Steps \ {n} : LeaseOf(r)' = LeaseOf(r)
  BY <1>2, <1>3 DEF LeaseOf, StepHasAll
<1>5. \/ LeaseOf(n)' = LeaseOf(n)
      \/ LeaseOf(n) = "abandoned" /\ LeaseOf(n)' = "gone"
  BY <1>1, <1>2, <1>3 DEF LeaseOf
<1>6. MovesOnly(n) BY <1>4, <1>5 DEF MovesOnly, LeaseMoves
<1> QED BY <1>6, MoveIsLeaseStep

LEMMA StepIsLeaseStep == IInv /\ IInv' /\ [Next]_vars => [Lease!Next]_leaseOf
<1> SUFFICES ASSUME IInv, IInv', [Next]_vars PROVE [Lease!Next]_leaseOf
  OBVIOUS
<1> USE DEF IInv, TypeOK, Claims, CreatedByUp, PostAfterMain, ClaimedTargets,
            LiveStepKeepsResources, LeaseOf, StepHasAll, LeaseMoves, MovesOnly,
            Phases, BeforeUp, Using, Ended, InScratch,
            mainVars, hostVars, postVars, Goto, Throw
<1>1. ASSUME NEW s \in Steps, Main(s) PROVE [Lease!Next]_leaseOf
  <2>1. CASE Preflight(s)
    <3>1. MovesOnly(s) BY <2>1 DEF Preflight
    <3> QED BY <3>1, MoveIsLeaseStep
  <2>2. CASE Plan(s)
    <3>1. MovesOnly(s) BY <2>2 DEF Plan
    <3> QED BY <3>1, MoveIsLeaseStep
  <2>3. CASE Verify(s)
    <3>1. MovesOnly(s) BY <2>3 DEF Verify
    <3> QED BY <3>1, MoveIsLeaseStep
  <2>4. CASE Save(s)
    <3>1. MovesOnly(s) BY <2>4 DEF Save
    <3> QED BY <3>1, MoveIsLeaseStep
  <2>5. CASE CreateContainer(s)
    <3>1. MovesOnly(s) BY <2>5 DEF CreateContainer
    <3> QED BY <3>1, MoveIsLeaseStep
  <2>6. CASE UpFails(s)
    <3>1. MovesOnly(s) BY <2>6 DEF UpFails
    <3> QED BY <3>1, MoveIsLeaseStep
  <2>7. CASE Healthy(s)
    <3>1. MovesOnly(s) BY <2>7 DEF Healthy
    <3> QED BY <3>1, MoveIsLeaseStep
  <2>8. CASE NotReady(s)
    <3>1. MovesOnly(s) BY <2>8 DEF NotReady
    <3> QED BY <3>1, MoveIsLeaseStep
  <2>9. CASE Netns(s)
    <3>1. MovesOnly(s) BY <2>9 DEF Netns
    <3> QED BY <3>1, MoveIsLeaseStep
  <2>10. CASE MakeScratch(s)
    <3>1. MovesOnly(s) BY <2>10 DEF MakeScratch
    <3> QED BY <3>1, MoveIsLeaseStep
  <2>11. CASE Assemble(s)
    <3>1. MovesOnly(s) BY <2>11 DEF Assemble
    <3> QED BY <3>1, MoveIsLeaseStep
  <2>12. CASE StartSandbox(s)
    <3>1. MovesOnly(s) BY <2>12 DEF StartSandbox
    <3> QED BY <3>1, MoveIsLeaseStep
  <2>13. CASE CommandExits(s)
    <3>1. MovesOnly(s) BY <2>13 DEF CommandExits
    <3> QED BY <3>1, MoveIsLeaseStep
  <2>14. CASE RemoveScratch(s)
    <3>1. MovesOnly(s) BY <2>14 DEF RemoveScratch
    <3> QED BY <3>1, MoveIsLeaseStep
  <2>15. CASE Report(s)
    <3>1. MovesOnly(s) BY <2>15 DEF Report
    <3> QED BY <3>1, MoveIsLeaseStep
  <2>16. CASE StopProxy(s)
    <3>1. MovesOnly(s) BY <2>16 DEF StopProxy
    <3> QED BY <3>1, MoveIsLeaseStep
  <2>17. CASE GiveBack(s)
    <3>1. MovesOnly(s) BY <2>17 DEF GiveBack
    <3> QED BY <3>1, MoveIsLeaseStep
  <2> QED BY <1>1, <2>1, <2>2, <2>3, <2>4, <2>5, <2>6, <2>7, <2>8, <2>9, <2>10, <2>11, <2>12, <2>13, <2>14, <2>15, <2>16, <2>17 DEF Main
<1>2. ASSUME NEW s \in Steps, Environment(s) PROVE [Lease!Next]_leaseOf
  <2>1. CASE Kill(s)
    <3>1. MovesOnly(s) BY <2>1 DEF Kill
    <3> QED BY <3>1, MoveIsLeaseStep
  <2>2. CASE OrphanEnds(s)
    <3>1. MovesOnly(s) BY <2>2 DEF OrphanEnds
    <3> QED BY <3>1, MoveIsLeaseStep
  <2>3. CASE ProxyDies(s)
    <3>1. MovesOnly(s) BY <2>3 DEF ProxyDies
    <3> QED BY <3>1, MoveIsLeaseStep
  <2>4. CASE RewriteState(s)
    <3>1. MovesOnly(s) BY <2>4 DEF RewriteState
    <3> QED BY <3>1, MoveIsLeaseStep
  <2> QED BY <1>2, <2>1, <2>2, <2>3, <2>4 DEF Environment
<1>3. ASSUME NEW s \in Steps, Post(s) PROVE [Lease!Next]_leaseOf
  <2>1. CASE PostStart(s)
    <3>1. MovesOnly(s) BY <2>1 DEF PostStart
    <3> QED BY <3>1, MoveIsLeaseStep
  <2>2. CASE PostCheck(s)
    <3>1. MovesOnly(s) BY <2>2 DEF PostCheck
    <3> QED BY <3>1, MoveIsLeaseStep
  <2>3. CASE PostReclaim(s) BY <2>3, ReclaimIsLeaseStep
  <2>4. CASE PostDown(s) BY <2>4, PostDownIsLeaseStep
  <2> QED BY <1>3, <2>1, <2>2, <2>3, <2>4 DEF Post
<1>4. CASE UNCHANGED vars BY <1>4 DEF vars, leaseOf
<1> QED BY <1>1, <1>2, <1>3, <1>4 DEF Next

\* The lifecycle implements StepLease: every step of it is one of StepLease's or
\* leaves the lease alone.
THEOREM ImplementsLease == Spec => LeaseSpec
<1>1. Init => Lease!Init
  BY DEF Init, Lease!Init, leaseOf, LeaseOf, BeforeUp
<1> QED BY InvariantHolds, StepIsLeaseStep, <1>1, PTL DEF Spec, LeaseSpec, Lease!Spec
=============================================================================
