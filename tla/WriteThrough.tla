---------------------------- MODULE WriteThrough ----------------------------
(***************************************************************************)
(* The write_through targets of concurrent steps in the one directory tree *)
(* of the host (write-through.ts): a step creates what is missing before   *)
(* its sandbox starts, undoes that when it cannot go on, and removes what  *)
(* its command left empty. Every call runs under sudo as the owner of the  *)
(* closest directory there was, and other steps and their commands run in  *)
(* between. A path is the sequence of its names, and "/" the empty one.    *)
(*                                                                         *)
(* Some names may be symbolic links, which a command makes, points         *)
(* elsewhere and removes, and which every call follows anew; and some      *)
(* directories of the host are closed to the runner, whose existsSync says *)
(* of what is below them that it is not there.                             *)
(***************************************************************************)
EXTENDS Naturals, Sequences, SequencesExt

CONSTANTS
  Steps,
  Names,        \* what a directory is called in the one it is in
  Dirs,         \* the paths of the model
  Initial,      \* the directories there before any step
  InitialOwner, \* [Initial -> uids]
  InitialOpen,  \* those of Initial that anyone may write (mode 1777)
  InitialFilled,\* those of Initial that hold a file
  Closed,       \* those of Initial that only root may search
  LinkPaths,    \* the paths at which a command may put a link
  LinkTo,       \* the directories a link may lead to; none holds a link itself
  Root, Runner, \* the two uids
  Plans,        \* a set of [Steps -> Seq(Dirs)]: the resolved write_through entries
  KnownFiles,   \* the entries that are one of KNOWN_FILE_VARS
  MaxFaults     \* bound: failures of `sudo mkdir`

Uids == {Root, Runner}

\* dirname, and what it gives when iterated: the directories from "/" to d.
Parent(d) == SubSeq(d, 1, Len(d) - 1)
PathTo(d) == {SubSeq(d, 1, n) : n \in 0 .. Len(d)}
Below(d, dirs) == {p \in dirs \ {d} : d \in PathTo(p)}
Nearest(p, d, dirs) ==
  p \in PathTo(d) \cap dirs /\ \A q \in PathTo(d) \cap dirs : Len(q) <= Len(p)

\* Where a path can lead, by a link on its way or without one.
Leads(d) ==
  {d} \cup UNION {{to \o SubSeq(d, Len(q) + 1, Len(d)) : to \in LinkTo} : q \in PathTo(d) \cap LinkPaths}

ASSUME TreeAssumption ==
  /\ Dirs \subseteq Seq(Names) /\ \A d \in Dirs : PathTo(d) \subseteq Dirs
  /\ Initial \subseteq Dirs /\ <<>> \in Initial /\ \A d \in Initial : PathTo(d) \subseteq Initial
  /\ InitialOpen \subseteq Initial /\ InitialOwner \in [Initial -> Uids]
  /\ InitialFilled \subseteq Initial /\ Closed \subseteq Initial
  /\ \A d \in Closed : InitialOwner[d] = Root /\ d \notin InitialOpen
  /\ LinkPaths \subseteq Dirs \ Initial /\ LinkTo \subseteq InitialFilled \ {<<>>}
  /\ \A to \in LinkTo, q \in LinkPaths : to \notin PathTo(q)
  /\ \A d \in Dirs : Leads(d) \subseteq Dirs
  /\ \A plan \in Plans : plan \in [Steps -> Seq(Dirs)]
  /\ Root # Runner /\ KnownFiles \subseteq Dirs /\ MaxFaults \in Nat

VARIABLES
  targets,  \* the plan of this job's steps, which never changes
  exists,   \* the directories there now
  owner,    \* [Dirs -> uid], what stat says of those that exist
  open,     \* the directories anyone may write
  filled,   \* the directories that hold a file
  byCommand,\* the directories and links a command has made, removed since or not
  link,     \* [LinkPaths -> where the link there leads, or NoLink]
  astray,   \* what a mkdir has made where its stat did not look, and what is gone of Initial
  pc,       \* where each step is
  entry,    \* the index of the entry a step works on
  anc,      \* the existing ancestor its walk found
  as,       \* the identity and mode stat gave for that ancestor, and where it was
  created,  \* Seq of [path, uid]: what the step holds itself to have created
  leftover, \* what a step's failed mkdir had made of its path
  faults

tree == <<exists, owner, open, filled, byCommand, link, astray>>
vars == <<targets, tree, pc, entry, anc, as, created, leftover, faults>>

Nobody == [uid |-> Root, open |-> FALSE, at |-> <<>>]
NoLink == <<>>

Init ==
  /\ targets \in Plans
  /\ exists = Initial
  /\ owner = [d \in Dirs |-> IF d \in Initial THEN InitialOwner[d] ELSE Root]
  /\ open = InitialOpen
  /\ filled = InitialFilled
  /\ byCommand = {}
  /\ link = [q \in LinkPaths |-> NoLink]
  /\ astray = {}
  /\ pc = [s \in Steps |-> "look"]
  /\ entry = [s \in Steps |-> 1]
  /\ anc = [s \in Steps |-> <<>>]
  /\ as = [s \in Steps |-> Nobody]
  /\ created = [s \in Steps |-> <<>>]
  /\ leftover = [s \in Steps |-> {}]
  /\ faults = 0

Target(s) == targets[s][entry[s]]

\* Where the kernel comes to for a path.
LinksOn(d) == {q \in PathTo(d) \cap LinkPaths : link[q] # NoLink}
At(d) ==
  IF LinksOn(d) = {} THEN d
  ELSE LET q == CHOOSE q \in LinksOn(d) : TRUE IN link[q] \o SubSeq(d, Len(q) + 1, Len(d))

\* What the runner's own existsSync and stat can see.
Hidden(d) == \E c \in Closed : c # d /\ c \in PathTo(d)
Found(d) == At(d) \in exists /\ ~Hidden(At(d))
FoundDirs == {d \in Dirs : Found(d)}

Goto(s, to) == pc' = [pc EXCEPT ![s] = to]

CanWrite(uid, d) == uid = Root \/ owner[d] = uid \/ d \in open

\* Mode 1777 is sticky: anyone makes there, and removes what is his own.
MayRemove(uid, d) ==
  uid = Root \/ owner[Parent(d)] = uid \/ (Parent(d) \in open /\ owner[d] = uid)

-----------------------------------------------------------------------------
(* ensureWriteThroughTargetsExist                                          *)

\* Bug: a runner file that is missing is reported without the rollback.
BugLook(s) ==
  /\ pc[s] = "look" /\ entry[s] <= Len(targets[s])
  /\ \/ /\ Found(Target(s))
        /\ entry' = [entry EXCEPT ![s] = @ + 1]
        /\ UNCHANGED <<pc, anc>>
     \/ /\ ~Found(Target(s))
        /\ \E p \in PathTo(Target(s)) : Nearest(p, Target(s), FoundDirs) /\ anc' = [anc EXCEPT ![s] = p]
        /\ Goto(s, IF Target(s) \in KnownFiles THEN "failed" ELSE "stat")
        /\ UNCHANGED entry
  /\ UNCHANGED <<tree, as, created, leftover, faults>>

\* exists(path), the known-file check, and the walk up to the closest ancestor
\* that is found; "/" always is.
Look(s) ==
  /\ pc[s] = "look" /\ entry[s] <= Len(targets[s])
  /\ \/ /\ Found(Target(s))
        /\ entry' = [entry EXCEPT ![s] = @ + 1]
        /\ UNCHANGED <<pc, anc>>
     \/ /\ ~Found(Target(s)) /\ Target(s) \in KnownFiles
        /\ Goto(s, "rollback")
        /\ UNCHANGED <<entry, anc>>
     \/ /\ ~Found(Target(s)) /\ Target(s) \notin KnownFiles
        /\ \E p \in PathTo(Target(s)) : Nearest(p, Target(s), FoundDirs) /\ anc' = [anc EXCEPT ![s] = p]
        /\ Goto(s, "stat")
        /\ UNCHANGED entry
  /\ UNCHANGED <<tree, as, created, leftover, faults>>

\* stat(ancestor) follows what links there are by now, and throws when there is
\* nothing to be seen.
Stat(s) ==
  /\ pc[s] = "stat"
  /\ \/ /\ Found(anc[s])
        /\ as' = [as EXCEPT ![s] =
                   [uid |-> owner[At(anc[s])], open |-> At(anc[s]) \in open, at |-> At(anc[s])]]
        /\ Goto(s, "make")
     \/ ~Found(anc[s]) /\ Goto(s, "rollback") /\ UNCHANGED as
  /\ UNCHANGED <<tree, entry, anc, created, leftover, faults>>

\* The mkdir comes out below another directory of the host than the one the
\* stat was of, or the stat was of something that had gone astray itself.
LedAway(s) ==
  \/ PathTo(as[s].at) \cap astray # {}
  \/ \A top \in Initial : ~(Nearest(top, as[s].at, Initial) /\ Nearest(top, At(Target(s)), Initial))

\* Bug: what was made is handed to the runner's uid.
BugMakeDirs(s, dirs) ==
  /\ exists' = exists \cup dirs
  /\ owner' = [d \in Dirs |-> IF d \in dirs THEN Runner ELSE owner[d]]
  /\ open' = open \ dirs
  /\ astray' = IF LedAway(s) THEN astray \cup dirs ELSE astray
  /\ UNCHANGED <<filled, byCommand, link>>

\* `mkdir -p -m` makes the missing part of the path from the top down; mode and
\* owner of the last one are those of the ancestor.
MakeDirs(s, dirs) ==
  /\ exists' = exists \cup dirs
  /\ owner' = [d \in Dirs |-> IF d \in dirs THEN as[s].uid ELSE owner[d]]
  /\ open' = (open \ dirs) \cup (IF as[s].open THEN dirs \cap {At(Target(s))} ELSE {})
  /\ astray' = IF LedAway(s) THEN astray \cup dirs ELSE astray
  /\ UNCHANGED <<filled, byCommand, link>>

Missing(d) == PathTo(d) \ exists

\* pathSegmentsBetween: below the ancestor down to the path.
SegmentsBetween(a, d) == [i \in 1 .. Len(d) - Len(a) |-> SubSeq(d, 1, Len(a) + i)]

MaySearch(uid, d) == uid = Root \/ ~Hidden(d)

MkdirAllowed(s) ==
  /\ MaySearch(as[s].uid, At(Target(s)))
  /\ \A d \in Missing(At(Target(s))) : Parent(d) \in exists => CanWrite(as[s].uid, Parent(d))

\* `sudo -u owner mkdir -p`, wherever the path leads by now: what is recorded as
\* created are the names between the ancestor and the target, whoever has made
\* them.
Make(s) ==
  /\ pc[s] = "make" /\ MkdirAllowed(s)
  /\ MakeDirs(s, Missing(At(Target(s))))
  /\ created' = [created EXCEPT ![s] = @ \o
       [i \in DOMAIN SegmentsBetween(anc[s], Target(s)) |->
         [path |-> SegmentsBetween(anc[s], Target(s))[i], uid |-> as[s].uid]]]
  /\ entry' = [entry EXCEPT ![s] = @ + 1]
  /\ Goto(s, "look")
  /\ UNCHANGED <<anc, as, leftover, faults>>

\* The mkdir fails, and may have made a part of the path by then.
MakeFails(s) ==
  /\ pc[s] = "make"
  /\ \/ ~MkdirAllowed(s) /\ UNCHANGED <<tree, leftover, faults>>
     \/ /\ MkdirAllowed(s) /\ faults < MaxFaults /\ faults' = faults + 1
        /\ \E n \in 0 .. Len(At(Target(s))) - 1 :
             LET made == {d \in Missing(At(Target(s))) : Len(d) <= n}
             IN  MakeDirs(s, made) /\ leftover' = [leftover EXCEPT ![s] = made]
  /\ Goto(s, "rollback")
  /\ UNCHANGED <<entry, anc, as, created>>

\* Bug: `rm -rf` instead of `rmdir`.
BugRmdirAt(d, uid) ==
  LET gone == IF d # <<>> /\ d \in exists /\ MaySearch(uid, d) /\ MayRemove(uid, d)
              THEN {d} \cup Below(d, exists) ELSE {}
  IN  /\ exists' = exists \ gone
      /\ open' = open \ gone
      /\ filled' = filled \ gone
      /\ astray' = astray \cup (gone \cap Initial)
      /\ UNCHANGED <<owner, byCommand, link>>

\* The directories and the links in d.
Inside(d) == Below(d, exists) \cup {q \in LinkPaths : link[q] # NoLink /\ d \in PathTo(q)}

\* rmdir of a directory: only when it is empty, and only where that uid may.
RmdirAt(d, uid) ==
  LET gone == IF /\ d # <<>> /\ d \notin filled /\ Inside(d) = {}
                 /\ MaySearch(uid, d) /\ MayRemove(uid, d)
              THEN exists \cap {d} ELSE {}
  IN  /\ exists' = exists \ gone
      /\ open' = open \ gone
      /\ astray' = astray \cup (gone \cap Initial)
      /\ UNCHANGED <<owner, filled, byCommand, link>>

\* `sudo -u owner rmdir path` follows the links on the way and fails on a link.
Rmdir(d, uid) ==
  IF d \in LinksOn(d) THEN UNCHANGED tree ELSE RmdirAt(At(d), uid)

\* Bug: the directories are removed shallowest first.
BugRemoveNext(s, to) ==
  \/ /\ created[s] # <<>>
     /\ Rmdir(Head(created[s]).path, Head(created[s]).uid)
     /\ created' = [created EXCEPT ![s] = Tail(@)]
     /\ UNCHANGED pc
  \/ created[s] = <<>> /\ Goto(s, to) /\ UNCHANGED <<tree, created>>

\* One rmdir after the other, deepest first; failures are ignored.
RemoveNext(s, to) ==
  \/ /\ created[s] # <<>>
     /\ Rmdir(Last(created[s]).path, Last(created[s]).uid)
     /\ created' = [created EXCEPT ![s] = Front(@)]
     /\ UNCHANGED pc
  \/ created[s] = <<>> /\ Goto(s, to) /\ UNCHANGED <<tree, created>>

Rollback(s) ==
  /\ pc[s] = "rollback" /\ RemoveNext(s, "failed")
  /\ UNCHANGED <<entry, anc, as, leftover, faults>>

-----------------------------------------------------------------------------
(* The rest of the step                                                    *)

\* Every entry is there; the step goes on to the proxy, or fails on the way
\* there and gives the directories back.
Planned(s) ==
  /\ pc[s] = "look" /\ entry[s] > Len(targets[s])
  /\ Goto(s, "mount") \/ Goto(s, "giveback")
  /\ UNCHANGED <<tree, entry, anc, as, created, leftover, faults>>

TargetsThere(s) == \A i \in DOMAIN targets[s] : At(targets[s][i]) \in exists

\* The rbind of "/" and runc's mounts over the targets. oci-mounts.ts holds that
\* every target is there by now; where another step has given an empty one back
\* in the meantime, runc fails and the step ends.
Mount(s) ==
  /\ pc[s] = "mount"
  /\ Goto(s, IF TargetsThere(s) THEN "running" ELSE "giveback")
  /\ UNCHANGED <<tree, entry, anc, as, created, leftover, faults>>

\* The isolated command runs as the runner's uid. It leaves the directories
\* that were there before the job alone.
CommandWrites(s) ==
  /\ pc[s] = "running"
  /\ \E d \in exists : CanWrite(Runner, d) /\ ~Hidden(d) /\ filled' = filled \cup {d}
  /\ UNCHANGED <<exists, owner, open, byCommand, link, astray, pc, entry, anc, as, created, leftover, faults>>

CommandMakesDir(s) ==
  /\ pc[s] = "running"
  /\ \E d \in Dirs \ exists :
       /\ d \notin LinksOn(d) /\ ~Hidden(d) /\ Parent(d) \in exists /\ CanWrite(Runner, Parent(d))
       /\ exists' = exists \cup {d}
       /\ owner' = [owner EXCEPT ![d] = Runner]
       /\ byCommand' = byCommand \cup {d}
  /\ UNCHANGED <<open, filled, link, astray, pc, entry, anc, as, created, leftover, faults>>

CommandRemovesDir(s) ==
  /\ pc[s] = "running"
  /\ \E d \in exists \ Initial : owner[d] = Runner /\ RmdirAt(d, Runner)
  /\ UNCHANGED <<pc, entry, anc, as, created, leftover, faults>>

\* A link is made, pointed elsewhere or removed, where there is no directory.
CommandLinks(s) ==
  /\ pc[s] = "running"
  /\ \E q \in LinkPaths \ exists, to \in LinkTo \cup {NoLink} :
       /\ Parent(q) \in exists /\ ~Hidden(q) /\ CanWrite(Runner, Parent(q))
       /\ link' = [link EXCEPT ![q] = to]
       /\ byCommand' = byCommand \cup {q}
  /\ UNCHANGED <<exists, owner, open, filled, astray, pc, entry, anc, as, created, leftover, faults>>

CommandEnds(s) ==
  /\ pc[s] = "running" /\ Goto(s, "giveback")
  /\ UNCHANGED <<tree, entry, anc, as, created, leftover, faults>>

\* removeCreatedDirsIfEmpty.
GiveBack(s) ==
  /\ pc[s] = "giveback" /\ RemoveNext(s, "done")
  /\ UNCHANGED <<entry, anc, as, leftover, faults>>

\* A kill leaves everything where it is; no post step takes over.
Kill(s) ==
  /\ pc[s] \notin {"done", "failed", "killed"}
  /\ Goto(s, "killed")
  /\ UNCHANGED <<tree, entry, anc, as, created, leftover, faults>>

Command(s) ==
  CommandWrites(s) \/ CommandMakesDir(s) \/ CommandRemovesDir(s) \/ CommandLinks(s)

Next ==
  /\ UNCHANGED targets
  /\ \E s \in Steps :
       \/ Look(s) \/ Stat(s) \/ Make(s) \/ MakeFails(s) \/ Rollback(s)
       \/ Planned(s) \/ Mount(s) \/ Command(s) \/ CommandEnds(s) \/ GiveBack(s)
       \/ Kill(s)

Spec == Init /\ [][Next]_vars

-----------------------------------------------------------------------------
\* Of a directory below one the runner may not write: it is as restricted.
AsRestricted(d) ==
  \A top \in PathTo(d) :
    Nearest(top, d, Initial) /\ InitialOwner[top] # Runner /\ top \notin InitialOpen
      => owner[d] = InitialOwner[top] /\ d \notin open

\* A directory below one the runner may not write stays as restricted as that
\* one, whatever other steps and their commands make, link and remove between
\* the look, the stat and the mkdir of a step; save below what a mkdir has made
\* where its stat did not look, and below what was of the host and is gone.
RestrictedStaysRestricted ==
  \A d \in exists : PathTo(d) \cap astray = {} => AsRestricted(d)

\* A name under which a step may take a directory of the host for missing: a
\* link may be on its way, it is below a closed one, or it was gone once.
Obscured(d) == PathTo(d) \cap LinkPaths # {} \/ Hidden(d) \/ d \in astray

\* Nothing that a file is in is ever removed, and a directory there before the
\* job only by the rmdir of a step under a name it could not see it by.
NothingOfOthersIsRemoved ==
  [][/\ filled \subseteq filled'
     /\ \A d \in Initial \ exists' : d \in exists =>
          \E s \in Steps : /\ created[s] # <<>> /\ At(Last(created[s]).path) = d
                          /\ Obscured(Last(created[s]).path)]_vars

\* A directory nobody has use for: no command ever made anything in it.
LeftEmpty(d) ==
  /\ d \in exists \ Initial
  /\ \A p \in filled \cup byCommand : d \notin PathTo(p)

\* A step names what its entries may lead to; one that no link and no closed
\* directory can be on names just what it says.
NamedBy(s, d) == \E i \in DOMAIN targets[s] : \E p \in Leads(targets[s][i]) : d \in PathTo(p)
Plain(s) == \A i \in DOMAIN targets[s] : PathTo(targets[s][i]) \cap (LinkPaths \cup Closed) = {}

\* A step that does not get started leaves nothing of the entries that succeeded
\* before the failing one (write-through.ts, the comment on `created`), except
\* where another step names the same path, or where the `mkdir -p` that failed
\* has made a part of its own path, which nothing removes.
RollbackComplete ==
  \A s \in Steps : pc[s] = "failed" /\ Plain(s) =>
    \A i \in 1 .. entry[s] - 1 : \A d \in PathTo(targets[s][i]) :
      LeftEmpty(d) => \/ \E r \in Steps \ {s} : NamedBy(r, d)
                      \/ \E p \in leftover[s] : d \in PathTo(p)

\* "removed again at the end of the step if the command left it empty"
\* (action.yml): nothing that one step alone names is left empty once it is done,
\* whatever the other steps do.
EmptyDirsGivenBack ==
  \A s \in Steps : pc[s] = "done" /\ Plain(s) =>
    \A d \in exists :
      NamedBy(s, d) /\ LeftEmpty(d) => \E r \in Steps \ {s} : NamedBy(r, d)
=============================================================================
