--------------------------- MODULE SandboxMounts ---------------------------
(***************************************************************************)
(* What the isolated command can reach of the host's files: the input is   *)
(* validated and turned into a filesystem plan, config.json's mount list,  *)
(* readonlyPaths and maskedPaths are built from it and from one reading of *)
(* the host's mount table (src/lib/sandbox/filesystem-plan.ts,             *)
(* ephemeral-fs.ts, oci-mounts.ts, oci-protected-paths.ts, oci-config.ts), *)
(* run-isolated.sh captures the table with `mount --rbind /`, and runc     *)
(* applies the config, one entry after the other.  Other processes of the  *)
(* host mount and unmount until the capture.                               *)
(*                                                                         *)
(* A path is a sequence of names, <<>> is "/".  Of the sandbox's mounts it *)
(* is kept which one every path is on (`shown`): the last one made at or   *)
(* above it, since a mount made later at an ancestor hides what was        *)
(* mounted below it before, for good.                                      *)
(***************************************************************************)
EXTENDS Naturals, FiniteSets, SequencesExt

CONSTANTS
  Tree,          \* the paths that exist on the host
  MountPoints,   \* where host mounts come and go
  Devices,       \* what a filesystem mounted there can be
  RootDevice,    \* the filesystem of "/"
  Layouts,       \* [workdir, home, runnerTemp]: the runner's directories
  Inputs,        \* resolved write_through lists
  Tmp, Resolv, OwnCa, CaStore,
  Fresh,         \* what runc's base spec mounts itself, in its order: /proc, /dev, ...
  BaseReadonly,  \* the base spec's readonlyPaths
  Sockets,       \* runtime sockets and per-user runtime directories
  ScratchBase, Mine, Exec, Rootfs,
  MaxChanges     \* bound on the host's mounts and unmounts during the step

Root == <<>>
Path == Seq(STRING)
Reserved == {Resolv, OwnCa, CaStore}
Fixed == Reserved \cup ToSet(Fresh) \cup BaseReadonly \cup Sockets
Places == Tree \cup Fixed

AtOrUnder(p, a) == IsPrefix(a, p)
Overlap(p, q) == AtOrUnder(p, q) \/ AtOrUnder(q, p)

ASSUME PathsAssumption ==
  /\ Fresh \in Seq(Path) /\ Fixed \subseteq Path /\ IsFiniteSet(Tree) /\ Tree \subseteq Path
  /\ Layouts \subseteq [workdir : Path, home : Path, runnerTemp : Path]
  /\ Inputs \subseteq Seq(Path)
  /\ {Root, Tmp, Resolv, ScratchBase, Mine, Exec, Rootfs} \subseteq Tree
  /\ MountPoints \subseteq Tree \ {Root}
  /\ IsPrefix(ScratchBase, Mine) /\ IsPrefix(Mine, Exec) /\ IsPrefix(Mine, Rootfs)

\* The paths the code names lie apart: runc's own mounts are directories of
\* the root's (or within one), and neither they nor what the action mounts is
\* within another's mount, the scratch base or a masked path.
ASSUME ApartAssumption ==
  /\ \A f \in ToSet(Fresh) : f # Root /\ <<f[1]>> \in ToSet(Fresh)
  /\ \A b \in BaseReadonly : \E f \in ToSet(Fresh) : AtOrUnder(b, f)
  /\ \A f \in ToSet(Fresh) : \A a \in Reserved \cup {ScratchBase} \cup Sockets : ~AtOrUnder(f, a)
  /\ \A r \in Reserved : \A a \in {ScratchBase} \cup Sockets : ~AtOrUnder(r, a)
  /\ \A l \in Layouts : \A d \in {l.workdir, l.home, l.runnerTemp, Tmp} :
       \A a \in Reserved \cup BaseReadonly : ~AtOrUnder(d, a)

EmptyConfig == [mounts |-> <<>>, readonly |-> {}, rootReadonly |-> TRUE]

VARIABLES
  phase,    \* "input", "planned", "assembled", "mounting", "running", "rejected", "failed"
  mode,     \* filesystem_mode
  engine,   \* proxy_engine
  dirs,     \* the runner's directories, one of Layouts
  input,    \* write_through
  host,     \* the host's mount table: mount point |-> device
  roots,    \* the plan's overlay roots
  config,   \* config.json
  shown,    \* path |-> the mount of the sandbox it is on
  todo,     \* what runc has yet to apply: [next, readonly, masked]
  late,     \* host mounts made since the table was listed
  moved,    \* the host's table changed since the plan
  changes

plan == <<mode, engine, dirs, input>>
vars == <<phase, plan, host, roots, config, shown, todo, late, moved, changes>>

-----------------------------------------------------------------------------
\* Paths.

\* Sorted by the length of the paths: an ancestor before what is below it.
ShallowFirst(S) ==
  CHOOSE s \in SetToSeqs(S) : \A i, j \in DOMAIN s : i < j => ~IsStrictPrefix(s[j], s[i])

\* The host mount a path is on, and the filesystem it shows.
Holder(p) == CHOOSE m \in DOMAIN host :
               AtOrUnder(p, m) /\ \A n \in DOMAIN host : AtOrUnder(p, n) => AtOrUnder(m, n)
DeviceOf(p) == host[Holder(p)]

\* A file is there on host mount `layer`, or a directory something is mounted on.
OnLayer(layer, p) ==
  /\ p \in Tree
  /\ Holder(p) = layer \/ (p \in DOMAIN host /\ p # Root /\ Holder(Front(p)) = layer)

-----------------------------------------------------------------------------
\* The input and the plan.

InputConflict ==
  \/ mode = "ephemeral" /\ Contains(input, Root)
  \/ \E p \in ToSet(input), r \in Reserved : AtOrUnder(p, r)

ScratchWritable(S) == \E p \in S : Overlap(p, ScratchBase)

Candidates == {dirs.home, dirs.runnerTemp, Tmp, dirs.workdir}

\* What the four candidates fold down to: existing, not persisted anyway by
\* a write_through entry, and not shown already by the overlay of another, the
\* first in the candidates' own order that it is nested under.
CandidateOrder == <<dirs.home, dirs.runnerTemp, Tmp, dirs.workdir>>
Covered(c) == \E a \in ToSet(input) : AtOrUnder(c, a)
Nests(p, c) == p # c /\ p \in Tree /\ ~Covered(p) /\ AtOrUnder(c, p)
NestingParent(c) ==
  CandidateOrder[CHOOSE i \in DOMAIN CandidateOrder :
                   /\ Nests(CandidateOrder[i], c)
                   /\ \A j \in 1..(i - 1) : ~Nests(CandidateOrder[j], c)]
OverlayRoots ==
  {c \in Candidates \cap Tree :
     /\ ~Covered(c)
     /\ (\E p \in Candidates : Nests(p, c)) => DeviceOf(c) # DeviceOf(NestingParent(c))}

Init ==
  /\ phase = "input"
  /\ mode \in {"persistent", "ephemeral"}
  /\ engine \in {"inspect", "universal"}
  /\ dirs \in Layouts
  /\ input \in Inputs
  /\ \E points \in SUBSET MountPoints : \E device \in [points -> Devices] :
       host = [m \in points \cup {Root} |-> IF m = Root THEN RootDevice ELSE device[m]]
  /\ roots = {} /\ config = EmptyConfig
  /\ shown = <<>> /\ todo = [next |-> 1, readonly |-> {}, masked |-> {}]
  /\ late = {} /\ moved = FALSE /\ changes = 0

Plan ==
  /\ phase = "input"
  /\ IF InputConflict \/ (~Contains(input, Root) /\ ScratchWritable(ToSet(input)))
     THEN phase' = "rejected" /\ UNCHANGED roots
     ELSE /\ phase' = "planned"
          /\ roots' = IF mode = "ephemeral" THEN OverlayRoots ELSE {}
  /\ UNCHANGED <<plan, host, config, shown, todo, late, moved, changes>>

-----------------------------------------------------------------------------
\* config.json.  A mount is [at, type]; every bind's source is the path itself.

Mount(at, type) == [at |-> at, type |-> type]
Mounts(S, type) == [i \in DOMAIN S |-> Mount(S[i], type)]

DisableReadonly == mode = "persistent" /\ Contains(input, Root)

\* Each where it is named first; nothing sorts them.
Named == <<dirs.workdir, dirs.home, Tmp, dirs.runnerTemp>> \o input
NamedFirst == {i \in DOMAIN Named : \A j \in 1..(i - 1) : Named[j] # Named[i]}
WritableDirs ==
  [k \in 1..Cardinality(NamedFirst) |->
     Named[CHOOSE i \in NamedFirst : Cardinality({j \in NamedFirst : j <= i}) = k]]

PersistentLayers == IF DisableReadonly THEN <<>> ELSE Mounts(WritableDirs, "rbind")

BugEphemeralLayers ==
  Mounts(ShallowFirst(ToSet(input)), "rbind") \o Mounts(ShallowFirst(roots), "overlay")
EphemeralLayers ==
  Mounts(ShallowFirst(roots), "overlay") \o Mounts(ShallowFirst(ToSet(input)), "rbind")

Layers == IF mode = "ephemeral" THEN EphemeralLayers ELSE PersistentLayers

\* The paths those layers bind read-write from the host, and all they keep writable.
Bound == IF mode = "ephemeral" THEN ToSet(input) ELSE ToSet(WritableDirs)
Writable == Bound \cup roots

\* runc mounts these first; a writable bind at or under one would shadow it.
ConfigConflict ==
  /\ ~DisableReadonly
  /\ \/ ScratchWritable(Writable)
     \/ \E p \in Bound, f \in ToSet(Fresh) : AtOrUnder(p, f)

InternalMounts ==
  <<Mount(Resolv, "internal")>>
    \o (IF engine # "inspect" THEN <<>>
        ELSE <<Mount(OwnCa, "internal")>>
               \o (IF CaStore \in Tree THEN <<Mount(CaStore, "internal")>> ELSE <<>>))

BugScratchBaseLayers == <<Mount(ScratchBase, "tmpfs"), Mount(Mine, "bind")>>
ScratchBaseLayers == <<Mount(ScratchBase, "tmpfs"), Mount(Exec, "bind")>>

\* The listed host mounts that have to be forced read-only one by one.
BugReadonlyHostMounts(listed) ==
  {m \in listed \ {Root} : m \notin ToSet(Fresh) /\ ~\E w \in Writable : AtOrUnder(w, m)}
ReadonlyHostMounts(listed) == {m \in listed \ {Root} : m \notin ToSet(Fresh) /\ m \notin Writable}

ReadonlyPaths(listed) ==
  (BaseReadonly \cup (IF DisableReadonly THEN {} ELSE ReadonlyHostMounts(listed))) \ Sockets

BugBuildConfig(listed) ==
  [mounts |-> Mounts(Fresh, "fresh") \o InternalMounts \o Layers
                \o ScratchBaseLayers,
   readonly |-> ReadonlyPaths(listed),
   rootReadonly |-> ~DisableReadonly]
BuildConfig(listed) ==
  [mounts |-> Mounts(Fresh, "fresh") \o Layers \o InternalMounts
                \o ScratchBaseLayers,
   readonly |-> ReadonlyPaths(listed),
   rootReadonly |-> ~DisableReadonly]

Assemble ==
  /\ phase = "planned"
  /\ IF ConfigConflict
     THEN phase' = "rejected" /\ UNCHANGED config
     ELSE phase' = "assembled" /\ config' = BuildConfig(DOMAIN host)
  /\ late' = {}
  /\ UNCHANGED <<plan, host, roots, shown, todo, moved, changes>>

-----------------------------------------------------------------------------
\* The host's other processes.  No mount is made over one that is there, so
\* that every mount of the table is in reach.

HostChanges ==
  /\ phase \in {"input", "planned", "assembled"}
  /\ changes < MaxChanges
  /\ changes' = changes + 1
  /\ moved' = (phase # "input")
  /\ UNCHANGED <<phase, plan, roots, config, shown, todo>>

HostMounts ==
  \E m \in MountPoints \ DOMAIN host, d \in Devices :
    /\ \A n \in DOMAIN host : ~IsStrictPrefix(m, n)
    /\ host' = [n \in DOMAIN host \cup {m} |-> IF n = m THEN d ELSE host[n]]
    /\ late' = IF phase = "assembled" THEN late \cup {m} ELSE late
    /\ HostChanges

HostUnmounts ==
  \E m \in DOMAIN host \ {Root} :
    /\ \A n \in DOMAIN host : ~IsStrictPrefix(m, n)
    /\ host' = [n \in DOMAIN host \ {m} |-> host[n]]
    /\ late' = late \ {m}
    /\ HostChanges

-----------------------------------------------------------------------------
\* run-isolated.sh and runc.  What a path is on is [at, kind, layer, ro]:
\* files of host mount `layer`, an overlay over them, or a mount of the
\* sandbox's own, mounted at `at`.

Entry(at, kind, layer, ro) == [at |-> at, kind |-> kind, layer |-> layer, ro |-> ro]

\* A recursive bind of host path p: what q at or under p is on, p's own mount
\* or one of the host's below p.
Rebound(p, q, ro) ==
  IF IsStrictPrefix(p, Holder(q)) THEN Entry(Holder(q), "host", Holder(q), FALSE)
  ELSE Entry(p, "host", Holder(p), ro)

\* The staged rootfs comes along with a recursive bind above it.
MountShows(m, q) ==
  CASE m.type = "rbind" /\ AtOrUnder(Rootfs, m.at) /\ AtOrUnder(q, Rootfs) ->
         Entry(Rootfs, "rootfs", Root, FALSE)
    [] m.type = "rbind" /\ ~(AtOrUnder(Rootfs, m.at) /\ AtOrUnder(q, Rootfs)) ->
         Rebound(m.at, q, FALSE)
    [] m.type = "bind" -> Entry(m.at, "host", Holder(m.at), TRUE)
    [] m.type = "overlay" -> Entry(m.at, "overlay", Holder(m.at), FALSE)
    [] m.type \in {"internal", "fresh", "tmpfs"} -> Entry(m.at, m.type, Root, m.type # "fresh")

AfterMount(m) ==
  [q \in Places |-> IF AtOrUnder(q, m.at) THEN MountShows(m, q) ELSE shown[q]]

\* A file of what the path is on, or a path something is mounted at or below.
Present(p) ==
  \/ shown[p].kind \in {"host", "overlay"} /\ OnLayer(shown[p].layer, p)
  \/ shown[p].kind = "fresh" /\ p \in Tree
Exists(p) == Present(p) \/ \E q \in Places : AtOrUnder(shown[q].at, p)

\* A path is bound to itself, with all that is mounted below it, and only the
\* mount on top is remounted read-only.
AfterReadonly(p) ==
  IF ~Exists(p) THEN shown
  ELSE [q \in Places |->
          IF AtOrUnder(q, p) /\ ~IsStrictPrefix(p, shown[q].at)
          THEN [shown[q] EXCEPT !.at = p, !.ro = TRUE] ELSE shown[q]]

AfterMask(p) ==
  IF ~Exists(p) THEN shown
  ELSE [q \in Places |-> IF AtOrUnder(q, p) THEN Entry(p, "null", Root, TRUE) ELSE shown[q]]

Capture ==
  /\ phase = "assembled"
  /\ phase' = "mounting"
  /\ shown' = [q \in Places |-> Rebound(Root, q, config.rootReadonly)]
  /\ todo' = [next |-> 1, readonly |-> config.readonly, masked |-> Sockets]
  /\ UNCHANGED <<plan, host, roots, config, late, moved, changes>>

MountNext ==
  /\ phase = "mounting"
  /\ todo.next \in DOMAIN config.mounts
  /\ LET m == config.mounts[todo.next]
     IN  IF m.type = "rbind" /\ m.at \notin Tree
         THEN phase' = "failed" /\ UNCHANGED <<shown, todo>>
         ELSE /\ shown' = AfterMount(m)
              /\ todo' = [todo EXCEPT !.next = @ + 1]
              /\ UNCHANGED phase
  /\ UNCHANGED <<plan, host, roots, config, late, moved, changes>>

\* In the table's order: parents first.
ReadonlyNext ==
  /\ phase = "mounting"
  /\ todo.next > Len(config.mounts)
  /\ \E p \in todo.readonly :
       /\ \A q \in todo.readonly : ~IsStrictPrefix(q, p)
       /\ shown' = AfterReadonly(p)
       /\ todo' = [todo EXCEPT !.readonly = @ \ {p}]
  /\ UNCHANGED <<phase, plan, host, roots, config, late, moved, changes>>

MaskNext ==
  /\ phase = "mounting"
  /\ todo.next > Len(config.mounts) /\ todo.readonly = {}
  /\ \E p \in todo.masked :
       /\ shown' = AfterMask(p)
       /\ todo' = [todo EXCEPT !.masked = @ \ {p}]
  /\ UNCHANGED <<phase, plan, host, roots, config, late, moved, changes>>

RunCommand ==
  /\ phase = "mounting"
  /\ todo.next > Len(config.mounts) /\ todo.readonly = {} /\ todo.masked = {}
  /\ phase' = "running"
  /\ UNCHANGED <<plan, host, roots, config, shown, todo, late, moved, changes>>

Done == phase \in {"running", "rejected", "failed"} /\ UNCHANGED vars

Next ==
  \/ Plan \/ Assemble \/ HostMounts \/ HostUnmounts
  \/ Capture \/ MountNext \/ ReadonlyNext \/ MaskNext \/ RunCommand
  \/ Done

Spec == Init /\ [][Next]_vars

-----------------------------------------------------------------------------
\* Properties.

Running == phase = "running"

\* No file of the host is written but under a directory declared writable
\* (in ephemeral mode: under a write_through entry), on whatever mount of
\* the host it is, except on a mount made after the table was listed and
\* before it was captured (run-isolated.sh's own remark on that gap).
CommandWritesWhatWasDeclared ==
  Running /\ ~DisableReadonly =>
    \A p \in Tree :
      shown[p].kind = "host" /\ ~shown[p].ro =>
        \/ \E d \in Bound : AtOrUnder(p, d)
        \/ \E m \in late : AtOrUnder(p, m)

\* Nothing of the scratch base shows but this run's exec directory, which is
\* read-only, and the staged rootfs is in reach nowhere, under any input
\* that was accepted, `write_through: /` included.
ScratchIsHidden ==
  Running =>
    \A p \in Tree :
      /\ shown[p].kind # "rootfs"
      /\ AtOrUnder(p, ScratchBase) /\ shown[p].kind \in {"host", "overlay"} =>
           AtOrUnder(p, Exec) /\ shown[p].ro

\* The sandbox's own mounts win: its resolver and CA whatever directory
\* around them is writable, runc's own /proc and /dev (but under an overlay,
\* when one of the runner's directories is in there), and no runtime socket is
\* in reach through a writable bind that brought it back: it is masked or its
\* file is not there.
SandboxMountsWin ==
  Running =>
    /\ \A i \in DOMAIN InternalMounts : shown[InternalMounts[i].at].kind = "internal"
    /\ \A f \in ToSet(Fresh) : shown[f].kind = "fresh" \/ \E r \in roots : AtOrUnder(f, r)
    /\ \A s \in Sockets : shown[s].kind = "null" \/ ~Present(s)

\* A declared directory can be written and shows the host's files (through an
\* overlay exactly when it is to be discarded), whatever else is declared
\* around it, but for one in a masked path, which stays masked, and for a
\* directory cut off by a host mount: one strictly
\* between it and a declared directory bound after it (persistent), one at or
\* above it that a write_through entry above brings in (ephemeral), or one of
\* the same filesystem as the overlay it was folded into (ephemeral).
CutOff(d) ==
  IF mode = "persistent"
  THEN \E i, j \in DOMAIN WritableDirs, m \in DOMAIN host :
         /\ i < j /\ WritableDirs[i] = d
         /\ IsStrictPrefix(WritableDirs[j], m) /\ IsStrictPrefix(m, d)
  ELSE /\ d \notin Bound
       /\ \/ \E a \in Bound, m \in DOMAIN host : IsStrictPrefix(a, m) /\ AtOrUnder(d, m)
          \/ \E a \in Candidates :
               IsStrictPrefix(a, d) /\ Holder(a) # Holder(d) /\ DeviceOf(a) = DeviceOf(d)

Usable(d) == ~shown[d].ro /\ shown[d].layer = Holder(d)

DeclaredDirsAreUsable ==
  Running /\ ~DisableReadonly /\ ~moved =>
    \A d \in (Candidates \cap Tree) \cup ToSet(input) :
      \/ CutOff(d)
      \/ \E m \in Sockets : AtOrUnder(d, m)
      \/ Usable(d) /\ (shown[d].kind = "overlay" <=> ~\E b \in Bound : AtOrUnder(d, b))

=============================================================================
