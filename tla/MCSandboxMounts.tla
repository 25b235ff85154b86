-------------------------- MODULE MCSandboxMounts --------------------------
(* A host small enough for TLC: a home with a work disk in it, a data disk  *)
(* elsewhere, and one path of every kind the sandbox treats specially.      *)
EXTENDS SandboxMounts

MCHome == <<"home">>
MCWork == <<"home", "work">>
MCRepo == <<"home", "work", "repo">>
MCOut == <<"home", "work", "repo", "out">>
MCSrv == <<"srv">>
MCData == <<"srv", "data">>
MCEtc == <<"etc">>
MCResolv == <<"etc", "resolv.conf">>
MCOwnCa == <<"etc", "own-ca">>
MCCaStore == <<"etc", "ca-store">>
MCRun == <<"run">>
MCUser == <<"run", "user">>
MCTmp == <<"tmp">>
MCProc == <<"proc">>
MCSysrq == <<"proc", "sysrq">>
MCDev == <<"dev">>
MCShm == <<"dev", "shm">>
MCVar == <<"var">>
MCScratchBase == <<"var", "scratch">>
MCMine == <<"var", "scratch", "mine">>
MCExec == <<"var", "scratch", "mine", "exec">>
MCRootfs == <<"var", "scratch", "mine", "rootfs">>
MCTheirs == <<"var", "scratch", "theirs">>
MCGone == <<"gone">>

MCTree == {<<>>, MCHome, MCWork, MCRepo, MCOut, MCSrv, MCData, MCEtc, MCResolv, MCCaStore,
           MCRun, MCUser, MCTmp, MCProc, MCSysrq, MCDev, MCShm, MCVar, MCScratchBase, MCMine, MCExec,
           MCRootfs, MCTheirs}
MCMountPoints == {MCWork, MCRepo, MCSrv, MCUser}
MCFresh == <<MCProc, MCDev, MCShm>>
MCBaseReadonly == {MCSysrq}
MCSockets == {MCUser}
MCLayouts == {[workdir |-> MCRepo, home |-> MCHome, runnerTemp |-> MCTmp],
              [workdir |-> MCRepo, home |-> MCHome, runnerTemp |-> MCGone],
              [workdir |-> MCRepo, home |-> MCHome, runnerTemp |-> MCShm],
              [workdir |-> MCData, home |-> MCHome, runnerTemp |-> MCWork]}
MCInputs == {<<>>, <<<<>>>>, <<MCOut>>, <<MCData, MCSrv>>, <<MCEtc, MCRun>>, <<MCHome>>,
             <<MCResolv>>, <<MCSysrq>>, <<MCUser>>, <<MCVar>>}
=============================================================================
