SPECIFICATION Spec
CONSTANTS
  Tree <- MCTree
  MountPoints <- MCMountPoints
  Devices = {rootfs, disk}
  RootDevice = rootfs
  Layouts <- MCLayouts
  Inputs <- MCInputs
  Tmp <- MCTmp
  Resolv <- MCResolv
  OwnCa <- MCOwnCa
  CaStore <- MCCaStore
  Fresh <- MCFresh
  BaseReadonly <- MCBaseReadonly
  Sockets <- MCSockets
  ScratchBase <- MCScratchBase
  Mine <- MCMine
  Exec <- MCExec
  Rootfs <- MCRootfs
  MaxChanges = 1
INVARIANTS
  CommandWritesWhatWasDeclared
  ScratchIsHidden
  SandboxMountsWin
  DeclaredDirsAreUsable
