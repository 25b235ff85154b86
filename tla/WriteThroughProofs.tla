------------------------ MODULE WriteThroughProofs ------------------------
(***************************************************************************)
(* What the write_through targets of any number of steps do to the host's  *)
(* directories, for any tree, any entries, any links the commands put in   *)
(* the way and any failures of mkdir: what a mkdir makes where its stat    *)
(* looked is as restricted, what goes of the host goes by a name it could  *)
(* not be seen by, and a step whose entries no link is on gives back every *)
(* directory it alone has made and no command has used.                    *)
(***************************************************************************)
EXTENDS WriteThrough, SequenceTheorems, TLAPS

Ident == [uid : Uids, open : BOOLEAN, at : Dirs]
Record == [path : Dirs, uid : Uids]
Working == {"look", "stat", "make", "mount", "running"}
Stages == Working \cup {"rollback", "giveback", "failed", "done", "killed"}

TreeTyped ==
  /\ exists \subseteq Dirs /\ open \subseteq exists /\ filled \subseteq Dirs /\ byCommand \subseteq Dirs
  /\ owner \in [Dirs -> Uids] /\ link \in [LinkPaths -> LinkTo \cup {NoLink}] /\ astray \subseteq Dirs

StepsTyped ==
  /\ targets \in [Steps -> Seq(Dirs)] /\ pc \in [Steps -> Stages] /\ entry \in [Steps -> Nat \ {0}]
  /\ anc \in [Steps -> Dirs] /\ as \in [Steps -> Ident] /\ created \in [Steps -> Seq(Record)]
  /\ leftover \in [Steps -> SUBSET Dirs] /\ faults \in Nat

\* No directory is without its parent, what is gone of the host is known to be,
\* and links are made by commands.
TreeOK ==
  /\ \A d \in exists : PathTo(d) \subseteq exists
  /\ Initial \ exists \subseteq astray
  /\ \A q \in LinkPaths : link[q] # NoLink => q \in byCommand

\* Between the look and the mkdir the ancestor is one of the path, and what is
\* of the host below it could not be seen.
WalkOK(s) ==
  pc[s] \in {"stat", "make"} =>
    /\ entry[s] \in DOMAIN targets[s] /\ anc[s] \in PathTo(Target(s))
    /\ \A d \in PathTo(Target(s)) \cap Initial : Len(d) > Len(anc[s]) => Obscured(d)

Restricted(top) == InitialOwner[top] # Runner /\ top \notin InitialOpen

\* Who the mkdir runs as, where the stat was of what the runner may not write.
IdentityOK(s) ==
  pc[s] = "make" /\ PathTo(as[s].at) \cap astray = {} => \A top \in PathTo(as[s].at) :
    Nearest(top, as[s].at, Initial) /\ Restricted(top) => as[s].uid = InitialOwner[top] /\ as[s].open = FALSE

\* What a step records are names of its entries, of a directory of the host only
\* where it could not be seen.
OnEntries(s, p) == \E e \in DOMAIN targets[s] : p \in PathTo(targets[s][e])
CreatedOK(s) ==
  \A i \in DOMAIN created[s] :
    OnEntries(s, created[s][i].path) /\ (created[s][i].path \in Initial => Obscured(created[s][i].path))

LeftoverOK(s) == pc[s] \in Working \cup {"giveback", "done"} => leftover[s] = {}

\* A directory that only s can have made, and that s alone has to give back.
Clean(d) == \A p \in filled \cup byCommand : d \notin PathTo(p)
Mine(s, d) ==
  /\ d \in Dirs \ Initial /\ Clean(d)
  /\ \A r \in Steps \ {s} : ~NamedBy(r, d)
  /\ \A p \in leftover[s] : d \notin PathTo(p)

\* The last time s recorded it.
LastRecord(s, d, k) ==
  /\ k \in DOMAIN created[s] /\ created[s][k].path = d
  /\ \A j \in DOMAIN created[s] : j > k => created[s][j].path # d

RecordedAfter(s, c, k) == \E j \in DOMAIN created[s] : j > k /\ created[s][j].path = c

\* It is recorded, by who owns it and may remove it, and before what is in it.
GivenBack(s, d) ==
  \E k \in DOMAIN created[s] :
    /\ LastRecord(s, d, k) /\ owner[d] = created[s][k].uid /\ CanWrite(created[s][k].uid, Parent(d))
    /\ \A c \in Below(d, exists) : owner[c] = owner[d] /\ RecordedAfter(s, c, k)

RecordsOK(s) ==
  pc[s] # "killed" /\ Plain(s) => \A d \in exists : Mine(s, d) => GivenBack(s, d)

\* The same of what the walk of s has seen, should it have gone meanwhile.
SeenOK(s) ==
  /\ pc[s] \in {"stat", "make"} /\ Plain(s) =>
       \A d \in exists \cap PathTo(Target(s)) : Mine(s, d) => Len(d) <= Len(anc[s])
  /\ pc[s] = "make" /\ Plain(s) => \A d \in PathTo(anc[s]) : Mine(s, d) =>
       \E k \in DOMAIN created[s] :
         /\ LastRecord(s, d, k) /\ created[s][k].uid = as[s].uid
         /\ \A c \in Below(d, PathTo(anc[s])) : RecordedAfter(s, c, k)

NothingLeft(s) == pc[s] \in {"failed", "done"} => created[s] = <<>>

StepOK(s) ==
  /\ WalkOK(s) /\ IdentityOK(s) /\ CreatedOK(s) /\ LeftoverOK(s)
  /\ RecordsOK(s) /\ SeenOK(s) /\ NothingLeft(s)

TreeInv == TreeTyped /\ TreeOK /\ RestrictedStaysRestricted
IInv == StepsTyped /\ TreeInv /\ \A s \in Steps : StepOK(s)

-----------------------------------------------------------------------------
(* Paths.                                                                  *)

LEMMA Prefix ==
  ASSUME NEW d \in Seq(Names), NEW n \in 0..Len(d)
  PROVE  /\ SubSeq(d, 1, n) \in Seq(Names) /\ Len(SubSeq(d, 1, n)) = n
         /\ \A i \in 1..n : SubSeq(d, 1, n)[i] = d[i]
<1>1. n \in Nat /\ Len(d) \in Nat OBVIOUS
<1>2. \A i \in 1..n : d[i] \in Names BY <1>1, ElementOfSeq
<1> QED BY <1>1, <1>2, SubSeqProperties

\* A directory on the way to d, by its length.
LEMMA OnPath ==
  ASSUME NEW d \in Seq(Names), NEW p \in PathTo(d)
  PROVE  p \in Seq(Names) /\ Len(p) \in 0..Len(d) /\ p = SubSeq(d, 1, Len(p))
<1>1. PICK n \in 0..Len(d) : p = SubSeq(d, 1, n) BY DEF PathTo
<1> QED BY <1>1, Prefix

LEMMA Ends ==
  ASSUME NEW d \in Seq(Names)
  PROVE  /\ d \in PathTo(d) /\ <<>> \in PathTo(d)
         /\ \A p \in PathTo(d) : Len(p) = Len(d) => p = d
<1>1. Len(d) \in 0..Len(d) /\ 0 \in 0..Len(d) OBVIOUS
<1>2. SubSeq(d, 1, Len(d)) = d BY SubSeqFull
<1>3. SubSeq(d, 1, 0) = <<>> BY SubSeqEmpty
<1> QED BY <1>1, <1>2, <1>3, OnPath DEF PathTo

\* Of two on the way to d, the shorter is on the way to the longer.
LEMMA Nested ==
  ASSUME NEW d \in Seq(Names), NEW p \in PathTo(d), NEW q \in PathTo(d), Len(q) <= Len(p)
  PROVE  q \in PathTo(p)
<1>1. /\ p \in Seq(Names) /\ Len(p) \in 0..Len(d) /\ p = SubSeq(d, 1, Len(p))
      /\ q \in Seq(Names) /\ Len(q) \in 0..Len(d) /\ q = SubSeq(d, 1, Len(q))
  BY OnPath
<1>2. Len(q) \in 0..Len(p) BY <1>1
<1>3. \A i \in 1..Len(p) : p[i] = d[i] BY <1>1, Prefix
<1>4. \A i \in 1..Len(q) : q[i] = d[i] BY <1>1, Prefix
<1>5. /\ SubSeq(p, 1, Len(q)) \in Seq(Names) /\ Len(SubSeq(p, 1, Len(q))) = Len(q)
      /\ \A i \in 1..Len(q) : SubSeq(p, 1, Len(q))[i] = p[i]
  BY <1>1, <1>2, Prefix
<1>6. \A i \in 1..Len(q) : i \in 1..Len(p) BY <1>1, <1>2
<1>7. SubSeq(p, 1, Len(q)) = q BY <1>1, <1>3, <1>4, <1>5, <1>6, SeqEqual
<1> QED BY <1>2, <1>7 DEF PathTo

LEMMA Further ==
  ASSUME NEW d \in Seq(Names), NEW p \in PathTo(d), NEW q \in PathTo(p)
  PROVE  q \in PathTo(d)
<1>1. p \in Seq(Names) /\ Len(p) \in 0..Len(d) /\ p = SubSeq(d, 1, Len(p)) BY OnPath
<1>2. q \in Seq(Names) /\ Len(q) \in 0..Len(p) /\ q = SubSeq(p, 1, Len(q)) BY <1>1, OnPath
<1>3. Len(q) \in 0..Len(d) BY <1>1, <1>2
<1>4. /\ SubSeq(d, 1, Len(q)) \in Seq(Names) /\ Len(SubSeq(d, 1, Len(q))) = Len(q)
      /\ \A i \in 1..Len(q) : SubSeq(d, 1, Len(q))[i] = d[i]
  BY <1>3, Prefix
<1>5. \A i \in 1..Len(q) : i \in 1..Len(p) /\ q[i] = p[i] BY <1>1, <1>2, Prefix
<1>6. \A i \in 1..Len(p) : p[i] = d[i] BY <1>1, Prefix
<1>7. SubSeq(d, 1, Len(q)) = q BY <1>2, <1>4, <1>5, <1>6, SeqEqual
<1> QED BY <1>3, <1>7 DEF PathTo

\* The parent is the last on the way before d itself.
LEMMA ParentOnPath ==
  ASSUME NEW d \in Seq(Names), d # <<>>
  PROVE  /\ Parent(d) \in PathTo(d) /\ Len(Parent(d)) = Len(d) - 1 /\ Len(d) \in Nat \ {0}
         /\ \A p \in PathTo(d) : p # d => p \in PathTo(Parent(d))
<1>1. Len(d) \in Nat \ {0} BY EmptySeq
<1>2. Len(d) - 1 \in 0..Len(d) BY <1>1
<1>3. Parent(d) \in PathTo(d) BY <1>2 DEF Parent, PathTo
<1>4. Len(Parent(d)) = Len(d) - 1 BY <1>2, Prefix DEF Parent
<1>5. ASSUME NEW p \in PathTo(d), p # d PROVE p \in PathTo(Parent(d))
  <2>1. Len(p) \in 0..Len(d) /\ Len(p) # Len(d) BY <1>5, OnPath, Ends
  <2>2. Len(p) <= Len(Parent(d)) BY <1>1, <1>4, <2>1
  <2> QED BY <1>3, <2>2, Nested
<1> QED BY <1>1, <1>3, <1>4, <1>5

\* What is below c is below what c is below.
LEMMA BelowFurther ==
  ASSUME NEW dirs \in SUBSET Seq(Names), NEW d, NEW c \in Below(d, dirs)
  PROVE  /\ Below(c, dirs) \subseteq Below(d, dirs) /\ c \in dirs /\ d \in PathTo(c) /\ c # d
         /\ Len(d) < Len(c)
<1>1. c \in dirs /\ c # d /\ d \in PathTo(c) BY DEF Below
<1>2. c \in Seq(Names) /\ Len(c) \in Nat BY <1>1
<1>3. Len(d) \in 0..Len(c) /\ Len(d) # Len(c) BY <1>1, <1>2, OnPath, Ends
<1>4. ASSUME NEW e \in Below(c, dirs) PROVE e \in Below(d, dirs)
  <2>1. e \in dirs /\ e # c /\ c \in PathTo(e) /\ e \in Seq(Names) BY <1>4 DEF Below
  <2>2. d \in PathTo(e) BY <2>1, <1>1, Further
  <2>3. e # d
    <3>1. Len(c) \in 0..Len(e) BY <2>1, OnPath
    <3> QED BY <3>1, <1>2, <1>3
  <2> QED BY <2>1, <2>2, <2>3 DEF Below
<1> QED BY <1>1, <1>2, <1>3, <1>4

LEMMA DirsArePaths ==
  /\ \A d \in Dirs : d \in Seq(Names) /\ PathTo(d) \subseteq Dirs
  /\ \A d \in Initial : d \in Dirs /\ PathTo(d) \subseteq Initial
  /\ <<>> \in Initial
BY TreeAssumption

\* What lies past all that is there for good has the same directory of the
\* host above it.
LEMMA SameTop ==
  ASSUME NEW c \in Dirs, NEW d \in PathTo(c), \A q \in PathTo(c) \cap Initial : Len(q) <= Len(d),
         NEW top
  PROVE  Nearest(top, c, Initial) <=> Nearest(top, d, Initial)
<1>1. c \in Seq(Names) BY DirsArePaths
<1>2. PathTo(c) \cap Initial = PathTo(d) \cap Initial BY <1>1, Nested, Further
<1> QED BY <1>2 DEF Nearest

LEMMA PastInitial ==
  ASSUME NEW c \in Dirs, NEW d \in PathTo(c), d \notin Initial
  PROVE  \A q \in PathTo(c) \cap Initial : Len(q) <= Len(d)
<1> SUFFICES ASSUME NEW q \in PathTo(c) \cap Initial, ~(Len(q) <= Len(d)) PROVE FALSE OBVIOUS
<1>1. c \in Seq(Names) BY DirsArePaths
<1>2. Len(d) \in 0..Len(c) /\ Len(q) \in 0..Len(c) BY <1>1, OnPath
<1>3. d \in PathTo(q) BY <1>1, <1>2, Nested
<1> QED BY <1>3, DirsArePaths

\* Only one directory is the nearest.
LEMMA OneNearest ==
  ASSUME NEW c \in Dirs, NEW top, NEW other, Nearest(top, c, Initial), Nearest(other, c, Initial)
  PROVE  top = other
<1>1. c \in Seq(Names) /\ top \in PathTo(c) /\ other \in PathTo(c) BY DirsArePaths DEF Nearest
<1>2. /\ Len(top) \in Nat /\ Len(other) \in Nat
      /\ top = SubSeq(c, 1, Len(top)) /\ other = SubSeq(c, 1, Len(other))
  <2>1. Len(c) \in Nat BY <1>1
  <2> QED BY <1>1, <2>1, OnPath
<1>3. Len(top) <= Len(other) /\ Len(other) <= Len(top) BY DEF Nearest
<1>4. PICK m \in Nat, n \in Nat : m = Len(top) /\ n = Len(other) BY <1>2
<1>5. m = n BY <1>3, <1>4
<1> QED BY <1>2, <1>4, <1>5

\* Where the kernel comes to is one of the directories a path can lead to, and
\* the path itself where no link can be on its way.
LEMMA LeadsThere ==
  ASSUME TreeTyped, NEW d \in Dirs
  PROVE  /\ At(d) \in Leads(d) /\ At(d) \in Dirs
         /\ PathTo(d) \cap LinkPaths = {} => At(d) = d /\ LinksOn(d) = {} /\ Leads(d) = {d}
<1>1. At(d) \in Leads(d)
  <2>1. CASE LinksOn(d) = {} BY <2>1 DEF At, Leads
  <2>2. CASE LinksOn(d) # {}
    <3>1. PICK q : q = CHOOSE r \in LinksOn(d) : TRUE OBVIOUS
    <3>2. q \in LinksOn(d) BY <3>1, <2>2
    <3>3. q \in PathTo(d) \cap LinkPaths /\ link[q] \in LinkTo BY <3>2 DEF LinksOn, TreeTyped
    <3>4. At(d) = link[q] \o SubSeq(d, Len(q) + 1, Len(d)) BY <2>2, <3>1 DEF At
    <3>5. At(d) \in {to \o SubSeq(d, Len(q) + 1, Len(d)) : to \in LinkTo} BY <3>3, <3>4
    <3>6. {to \o SubSeq(d, Len(q) + 1, Len(d)) : to \in LinkTo} \subseteq Leads(d) BY <3>3, Zenon DEF Leads
    <3> HIDE DEF At, Leads
    <3> QED BY <3>5, <3>6
  <2> QED BY <2>1, <2>2
<1>2. At(d) \in Dirs BY <1>1, TreeAssumption
<1>3. PathTo(d) \cap LinkPaths = {} => At(d) = d /\ LinksOn(d) = {} /\ Leads(d) = {d}
  BY DEF At, LinksOn, Leads
<1> QED BY <1>1, <1>2, <1>3

\* The names of a step that no link and no closed directory is on.
LEMMA PlainNames ==
  ASSUME TreeTyped, targets \in [Steps -> Seq(Dirs)], NEW s \in Steps, Plain(s), NEW p, OnEntries(s, p)
  PROVE  At(p) = p /\ LinksOn(p) = {} /\ ~Hidden(p)
<1>1. PICK e \in DOMAIN targets[s] : p \in PathTo(targets[s][e]) BY DEF OnEntries
<1>2. targets[s][e] \in Dirs BY ElementOfSeq
<1>3. p \in Dirs /\ PathTo(p) \subseteq PathTo(targets[s][e]) BY <1>1, <1>2, DirsArePaths, Further
<1>4. PathTo(p) \cap (LinkPaths \cup Closed) = {} BY <1>3 DEF Plain
<1> QED BY <1>3, <1>4, LeadsThere DEF Hidden

LEMMA ObscuredStays == ASSUME NEW d, Obscured(d), astray \subseteq astray' PROVE Obscured(d)'
BY DEF Obscured, Hidden

-----------------------------------------------------------------------------
(* The tree under mkdir and rmdir.                                         *)

\* What a mkdir leaves as it was.
TreeKept == \A d \in exists \cap exists' : owner'[d] = owner[d] /\ (d \in open' <=> d \in open)

LEMMA RmdirAtKeepsTree ==
  ASSUME TreeInv, NEW d \in Dirs, NEW uid, RmdirAt(d, uid)
  PROVE  /\ TreeInv' /\ TreeKept /\ UNCHANGED <<owner, filled, byCommand, link>>
         /\ exists' \subseteq exists /\ exists \ exists' \subseteq {d} /\ astray \subseteq astray'
         /\ /\ d # <<>> /\ d \notin filled /\ Inside(d) = {} /\ MaySearch(uid, d) /\ MayRemove(uid, d)
            => d \notin exists'
<1> DEFINE Goes == /\ d # <<>> /\ d \notin filled /\ Inside(d) = {}
                   /\ MaySearch(uid, d) /\ MayRemove(uid, d)
<1>1. PICK gone \in SUBSET {d} :
        /\ exists' = exists \ gone /\ open' = open \ gone /\ UNCHANGED <<owner, filled, byCommand, link>>
        /\ astray' = astray \cup (gone \cap Initial)
        /\ gone # {} => Below(d, exists) = {}
        /\ Goes => gone = exists \cap {d}
  <2>1. CASE Goes
    <3>1. /\ exists' = exists \ (exists \cap {d}) /\ open' = open \ (exists \cap {d})
          /\ UNCHANGED <<owner, filled, byCommand, link>>
          /\ astray' = astray \cup ((exists \cap {d}) \cap Initial)
      BY <2>1 DEF RmdirAt
    <3>2. Below(d, exists) = {} BY <2>1 DEF Inside
    <3> WITNESS exists \cap {d} \in SUBSET {d}
    <3> QED BY <2>1, <3>1, <3>2
  <2>2. CASE ~Goes
    <3>1. /\ exists' = exists \ {} /\ open' = open \ {} /\ UNCHANGED <<owner, filled, byCommand, link>>
          /\ astray' = astray \cup ({} \cap Initial)
      BY <2>2 DEF RmdirAt
    <3> WITNESS {} \in SUBSET {d}
    <3> QED BY <2>2, <3>1
  <2> QED BY <2>1, <2>2
<1> HIDE DEF Goes
<1>2. TreeTyped' BY <1>1 DEF TreeInv, TreeTyped
<1>3. TreeOK'
  <2>1. Initial \ exists' \subseteq astray' BY <1>1 DEF TreeInv, TreeOK
  <2>2. ASSUME NEW e \in exists', NEW p \in PathTo(e) PROVE p \in exists'
    <3>1. e \in exists /\ p \in exists BY <1>1, <2>2 DEF TreeInv, TreeOK
    <3>2. CASE gone = {} BY <1>1, <3>1, <3>2
    <3>3. CASE gone # {} /\ p = d
      <4>1. e # d /\ e \notin Below(d, exists) BY <1>1, <2>2, <3>3
      <4> QED BY <4>1, <3>1, <3>3, <2>2 DEF Below
    <3>4. CASE p # d BY <1>1, <3>1, <3>4
    <3> QED BY <3>2, <3>3, <3>4
  <2> QED BY <2>1, <2>2, <1>1 DEF TreeOK, TreeInv
<1>4. RestrictedStaysRestricted' BY <1>1 DEF TreeInv, RestrictedStaysRestricted, AsRestricted
<1>5. TreeKept BY <1>1 DEF TreeKept
<1> QED BY <1>1, <1>2, <1>3, <1>4, <1>5 DEF TreeInv, Goes

LEMMA RmdirKeepsTree ==
  ASSUME TreeInv, NEW d \in Dirs, NEW uid, Rmdir(d, uid)
  PROVE  /\ TreeInv' /\ TreeKept /\ UNCHANGED <<owner, filled, byCommand, link>>
         /\ exists' \subseteq exists /\ exists \ exists' \subseteq {At(d)} /\ astray \subseteq astray'
<1>1. CASE d \in LinksOn(d)
  <2>1. UNCHANGED <<exists, owner, open, filled, byCommand, link, astray>> BY <1>1 DEF Rmdir, tree
  <2> QED BY <2>1 DEF TreeInv, TreeTyped, TreeOK, RestrictedStaysRestricted, AsRestricted, TreeKept
<1>2. CASE d \notin LinksOn(d)
  <2>1. PICK at \in Dirs : at = At(d) BY LeadsThere DEF TreeInv
  <2>2. RmdirAt(at, uid) BY <1>2, <2>1 DEF Rmdir
  <2> QED BY <2>1, <2>2, RmdirAtKeepsTree
<1> QED BY <1>1, <1>2

LEMMA MkdirKeepsTree ==
  ASSUME StepsTyped, TreeInv, NEW s \in Steps, IdentityOK(s), pc[s] = "make", At(Target(s)) \in Dirs,
         NEW dirs, dirs \subseteq Missing(At(Target(s))), MakeDirs(s, dirs),
         \A d \in dirs : PathTo(d) \cap Missing(At(Target(s))) \subseteq dirs
  PROVE  /\ TreeInv' /\ TreeKept /\ UNCHANGED <<filled, byCommand>> /\ astray \subseteq astray'
         /\ exists' = exists \cup dirs /\ \A d \in dirs : owner'[d] = as[s].uid
<1>t. PICK t \in Dirs : t = At(Target(s)) OBVIOUS
<1>1. t \in Seq(Names) /\ as[s] \in Ident BY DirsArePaths DEF StepsTyped
<1>2. \A d \in dirs : d \in PathTo(t) /\ d \notin exists /\ d \in Dirs
  BY <1>1, <1>t, DirsArePaths DEF Missing
<1>3. /\ exists' = exists \cup dirs
      /\ owner' = [d \in Dirs |-> IF d \in dirs THEN as[s].uid ELSE owner[d]]
      /\ open' = (open \ dirs) \cup (IF as[s].open THEN dirs \cap {t} ELSE {})
      /\ astray' = IF LedAway(s) THEN astray \cup dirs ELSE astray
      /\ UNCHANGED <<filled, byCommand, link>>
  BY <1>t DEF MakeDirs
<1>a. astray \subseteq astray' BY <1>3
<1>4. TreeTyped'
  <2>1. as[s].uid \in Uids BY <1>1 DEF Ident
  <2>2. owner' \in [Dirs -> Uids] BY <2>1, <1>3 DEF TreeInv, TreeTyped
  <2>3. astray' \subseteq Dirs BY <1>2, <1>3 DEF TreeInv, TreeTyped
  <2> QED BY <2>2, <2>3, <1>2, <1>3 DEF TreeInv, TreeTyped
<1>5. TreeOK'
  <2>1. ASSUME NEW e \in dirs, NEW p \in PathTo(e) PROVE p \in exists \cup dirs
    <3>1. p \in PathTo(t) BY <1>1, <1>2, Further
    <3> QED BY <3>1, <1>t, <2>1 DEF Missing
  <2>2. Initial \ exists' \subseteq astray' BY <1>3, <1>a DEF TreeOK, TreeInv
  <2> QED BY <2>1, <2>2, <1>3 DEF TreeOK, TreeInv
<1>6. \A d \in dirs : owner'[d] = as[s].uid BY <1>2, <1>3
<1>7. TreeKept
  <2> SUFFICES ASSUME NEW d \in exists \cap exists'
               PROVE  owner'[d] = owner[d] /\ (d \in open' <=> d \in open)
    BY DEF TreeKept
  <2>1. d \notin dirs /\ d \in Dirs BY <1>2 DEF TreeInv, TreeTyped
  <2> QED BY <2>1, <1>3
<1>8. RestrictedStaysRestricted'
  <2> SUFFICES ASSUME NEW d \in exists', PathTo(d) \cap astray' = {}, NEW top \in PathTo(d),
                      Nearest(top, d, Initial), Restricted(top)
               PROVE  owner'[d] = InitialOwner[top] /\ d \notin open'
    BY DEF RestrictedStaysRestricted, AsRestricted, Nearest, Restricted
  <2>1. CASE d \in exists
    <3>1. owner[d] = InitialOwner[top] /\ d \notin open
      BY <2>1, <1>a DEF TreeInv, RestrictedStaysRestricted, AsRestricted, Restricted
    <3> QED BY <2>1, <3>1, <1>7 DEF TreeKept
  <2>2. CASE d \in dirs
    <3>1. d \in PathTo(d) BY <1>2, <2>2, DirsArePaths, Ends
    <3>2. ~LedAway(s) BY <3>1, <2>2, <1>3
    <3>3. PathTo(as[s].at) \cap astray = {} BY <3>2 DEF LedAway
    <3>4. PICK other \in Initial : Nearest(other, as[s].at, Initial) /\ Nearest(other, t, Initial)
      BY <3>2, <1>t DEF LedAway
    <3>5. d \notin Initial BY <3>1, <2>2, <1>2, <1>a DEF TreeInv, TreeOK
    <3>6. Nearest(top, t, Initial) BY <1>1, <1>2, <2>2, <3>5, PastInitial, SameTop
    <3>7. top = other BY <3>4, <3>6, OneNearest
    <3>8. top \in PathTo(as[s].at) BY <3>4, <3>7 DEF Nearest
    <3>9. as[s].uid = InitialOwner[top] /\ as[s].open = FALSE BY <3>3, <3>4, <3>7, <3>8 DEF IdentityOK
    <3> QED BY <3>9, <2>2, <1>2, <1>3, <1>6 DEF TreeInv, TreeTyped
  <2> QED BY <2>1, <2>2, <1>3
<1> QED BY <1>3, <1>4, <1>5, <1>6, <1>7, <1>8, <1>a DEF TreeInv

LEMMA CommandKeepsTree ==
  ASSUME TreeInv, NEW d \in Dirs \ exists, Parent(d) \in exists, CanWrite(Runner, Parent(d)),
         exists' = exists \cup {d}, owner' = [owner EXCEPT ![d] = Runner], byCommand' = byCommand \cup {d},
         UNCHANGED <<open, filled, link, astray>>, d # <<>>
  PROVE  TreeInv' /\ TreeKept
<1>1. d \in Seq(Names) BY DirsArePaths
<1>2. /\ Parent(d) \in PathTo(d) /\ Parent(d) \in Dirs
      /\ \A p \in PathTo(d) : p # d => p \in PathTo(Parent(d))
  BY <1>1, ParentOnPath DEF TreeInv, TreeTyped
<1>3. TreeTyped'
  <2>1. owner' \in [Dirs -> Uids] BY DEF TreeInv, TreeTyped, Uids
  <2> QED BY <2>1 DEF TreeInv, TreeTyped
<1>4. TreeOK' BY <1>2 DEF TreeInv, TreeOK
<1>5. TreeKept BY DEF TreeKept, TreeInv, TreeTyped
<1>6. RestrictedStaysRestricted'
  <2> SUFFICES ASSUME NEW e \in exists', PathTo(e) \cap astray = {}, NEW top \in PathTo(e),
                      Nearest(top, e, Initial), InitialOwner[top] # Runner, top \notin InitialOpen
               PROVE  owner'[e] = InitialOwner[top] /\ e \notin open'
    BY DEF RestrictedStaysRestricted, AsRestricted, Nearest
  <2>1. CASE e \in exists
    <3>1. owner[e] = InitialOwner[top] /\ e \notin open
      BY <2>1 DEF TreeInv, RestrictedStaysRestricted, AsRestricted
    <3> QED BY <2>1, <3>1, <1>5 DEF TreeKept
  <2>2. CASE e = d
    <3>a. d \in PathTo(d) /\ d \notin Initial BY <1>1, <2>2, Ends DEF TreeInv, TreeOK
    <3>1. \A q \in PathTo(d) \cap Initial : Len(q) <= Len(Parent(d))
      <4> TAKE q \in PathTo(d) \cap Initial
      <4>1. q \in PathTo(Parent(d)) BY <3>a, <1>2
      <4>2. Parent(d) \in Seq(Names) BY <1>2, DirsArePaths
      <4> QED BY <4>1, <4>2, OnPath
    <3>2. Nearest(top, Parent(d), Initial) BY <2>2, <3>1, <1>2, SameTop
    <3>3. top \in PathTo(Parent(d)) BY <3>2 DEF Nearest
    <3>b. PathTo(Parent(d)) \cap astray = {} BY <1>1, <1>2, <2>2, Further
    <3>4. owner[Parent(d)] = InitialOwner[top] /\ Parent(d) \notin open
      BY <3>2, <3>3, <3>b DEF TreeInv, RestrictedStaysRestricted, AsRestricted
    <3> QED BY <3>4, TreeAssumption DEF CanWrite
  <2> QED BY <2>1, <2>2
<1> QED BY <1>3, <1>4, <1>5, <1>6 DEF TreeInv

-----------------------------------------------------------------------------
(* What a step has made stays its own while the tree moves under it.       *)

\* Nothing that s alone has to give back is made, nor anything in it.
NoneMadeFor(s) == \A d \in exists' \ exists : \A e \in PathTo(d) : ~Mine(s, e)'

Elsewhere(s) ==
  /\ TreeInv' /\ TreeKept /\ NoneMadeFor(s) /\ UNCHANGED targets
  /\ filled \subseteq filled' /\ byCommand \subseteq byCommand' /\ astray \subseteq astray'
  /\ leftover[s] \subseteq leftover'[s] /\ created'[s] = created[s]

LEMMA MineBefore ==
  ASSUME NEW s, Elsewhere(s), NEW d, Mine(s, d)'
  PROVE  Mine(s, d)
<1>1. Clean(d)' => Clean(d) BY DEF Elsewhere, Clean
<1>2. \A r : NamedBy(r, d)' <=> NamedBy(r, d) BY DEF Elsewhere, NamedBy
<1> QED BY <1>1, <1>2 DEF Mine, Elsewhere

LEMMA LastRecordStays ==
  ASSUME NEW s, created'[s] = created[s], NEW d, NEW k
  PROVE  (LastRecord(s, d, k)' <=> LastRecord(s, d, k)) /\ (RecordedAfter(s, d, k)' <=> RecordedAfter(s, d, k))
BY DEF LastRecord, RecordedAfter

LEMMA RecordsStay ==
  ASSUME TreeInv, NEW s, Elsewhere(s), RecordsOK(s), pc'[s] # "killed" => pc[s] # "killed"
  PROVE  RecordsOK(s)'
<1> SUFFICES ASSUME pc[s] # "killed", Plain(s), NEW d \in exists', Mine(s, d)' PROVE GivenBack(s, d)'
  BY DEF RecordsOK, Plain, Elsewhere
<1>1. Mine(s, d) BY MineBefore
<1>2. d \in Dirs /\ d \in Seq(Names) /\ d \notin Initial /\ d # <<>> BY <1>1, DirsArePaths DEF Mine
<1>3. d \in exists
  <2>1. d \in PathTo(d) BY <1>2, Ends
  <2> QED BY <2>1 DEF Elsewhere, NoneMadeFor
<1>4. PICK k \in DOMAIN created[s] :
        /\ LastRecord(s, d, k) /\ owner[d] = created[s][k].uid /\ CanWrite(created[s][k].uid, Parent(d))
        /\ \A c \in Below(d, exists) : owner[c] = owner[d] /\ RecordedAfter(s, c, k)
  BY <1>1, <1>3 DEF RecordsOK, GivenBack
<1>5. Parent(d) \in exists /\ Parent(d) \in exists'
  <2>1. Parent(d) \in PathTo(d) BY <1>2, ParentOnPath
  <2> QED BY <2>1, <1>3 DEF TreeInv, TreeOK, Elsewhere
<1>u. PICK u : u = created[s][k].uid OBVIOUS
<1>6. CanWrite(u, Parent(d))'
  <2>1. CanWrite(u, Parent(d)) BY <1>4, <1>u
  <2> QED BY <2>1, <1>5 DEF CanWrite, TreeKept, Elsewhere
<1>7. owner'[d] = owner[d] BY <1>3 DEF TreeKept, Elsewhere
<1>8. ASSUME NEW c \in Below(d, exists') PROVE owner'[c] = owner[c] /\ c \in Below(d, exists)
  <2>1. c \in exists' /\ c # d /\ d \in PathTo(c) BY DEF Below
  <2>2. c \in exists BY <2>1 DEF Elsewhere, NoneMadeFor
  <2> QED BY <2>1, <2>2 DEF Below, TreeKept, Elsewhere
<1>9. created'[s] = created[s] BY DEF Elsewhere
<1>10. LastRecord(s, d, k)' BY <1>4, <1>9, LastRecordStays
<1>11. \A c \in Below(d, exists') : owner'[c] = owner'[d] /\ RecordedAfter(s, c, k)'
  BY <1>4, <1>7, <1>8, <1>9, LastRecordStays
<1>12. created'[s][k].uid = u /\ owner'[d] = u BY <1>4, <1>7, <1>9, <1>u
<1>13. k \in DOMAIN created'[s] BY <1>9
<1> QED
  <2> HIDE DEF LastRecord, RecordedAfter, CanWrite, Below
  <2>1. /\ LastRecord(s, d, k)' /\ owner'[d] = created'[s][k].uid /\ CanWrite(created[s][k].uid, Parent(d))'
        /\ \A c \in Below(d, exists') : owner'[c] = owner'[d] /\ RecordedAfter(s, c, k)'
    <3>1. CanWrite(created[s][k].uid, Parent(d))' BY <1>6, <1>12 DEF CanWrite
    <3> QED BY <1>10, <1>11, <1>12, <3>1
  <2> QED BY <2>1, <1>13 DEF GivenBack

LEMMA SeenStays ==
  ASSUME NEW s, Elsewhere(s), SeenOK(s), pc'[s] = pc[s], entry'[s] = entry[s], anc'[s] = anc[s], as'[s] = as[s]
  PROVE  SeenOK(s)'
<1>1. Target(s)' = Target(s) /\ created'[s] = created[s] /\ (Plain(s)' <=> Plain(s))
  BY DEF Target, Elsewhere, Plain
<1>2. ASSUME pc[s] \in {"stat", "make"}, Plain(s), NEW d \in exists' \cap PathTo(Target(s)), Mine(s, d)'
      PROVE  Len(d) <= Len(anc[s])
  <2>1. Mine(s, d) BY <1>2, MineBefore
  <2>2. d \in PathTo(d) BY <2>1, DirsArePaths, Ends DEF Mine
  <2>3. d \in exists BY <1>2, <2>2 DEF Elsewhere, NoneMadeFor
  <2> QED BY <1>2, <2>1, <2>3 DEF SeenOK
<1>3. ASSUME pc[s] = "make", Plain(s), NEW d \in PathTo(anc[s]), Mine(s, d)'
      PROVE  \E k \in DOMAIN created'[s] :
               /\ LastRecord(s, d, k)' /\ created'[s][k].uid = as'[s].uid
               /\ \A c \in Below(d, PathTo(anc'[s])) : RecordedAfter(s, c, k)'
  <2>1. Mine(s, d) BY <1>3, MineBefore
  <2>2. PICK k \in DOMAIN created[s] :
          /\ LastRecord(s, d, k) /\ created[s][k].uid = as[s].uid
          /\ \A c \in Below(d, PathTo(anc[s])) : RecordedAfter(s, c, k)
    BY <1>3, <2>1 DEF SeenOK
  <2> QED BY <2>2, <1>1, LastRecordStays
<1> QED BY <1>1, <1>2, <1>3 DEF SeenOK

LEMMA StepStays ==
  ASSUME TreeInv, NEW s, Elsewhere(s), StepOK(s), pc'[s] = pc[s], entry'[s] = entry[s], anc'[s] = anc[s],
         as'[s] = as[s], leftover'[s] = leftover[s]
  PROVE  StepOK(s)'
<1>1. /\ Target(s)' = Target(s) /\ created'[s] = created[s] /\ UNCHANGED targets
      /\ astray \subseteq astray'
  BY DEF Target, Elsewhere
<1>2. WalkOK(s)' BY <1>1, ObscuredStays DEF StepOK, WalkOK
<1>3. IdentityOK(s)' BY <1>1 DEF StepOK, IdentityOK
<1>4. CreatedOK(s)' BY <1>1, ObscuredStays DEF StepOK, CreatedOK, OnEntries
<1>5. LeftoverOK(s)' /\ NothingLeft(s)' BY <1>1 DEF StepOK, LeftoverOK, NothingLeft
<1>6. RecordsOK(s)' BY RecordsStay DEF StepOK
<1>7. SeenOK(s)' BY SeenStays DEF StepOK
<1> QED BY <1>2, <1>3, <1>4, <1>5, <1>6, <1>7 DEF StepOK


LEMMA NamedOnPath ==
  ASSUME targets \in [Steps -> Seq(Dirs)], NEW s \in Steps, NEW d, NamedBy(s, d), NEW e \in PathTo(d)
  PROVE  NamedBy(s, e)
<1>1. PICK i \in DOMAIN targets[s] : \E p \in Leads(targets[s][i]) : d \in PathTo(p) BY DEF NamedBy
<1>2. PICK p \in Leads(targets[s][i]) : d \in PathTo(p) BY <1>1
<1>3. targets[s][i] \in Dirs BY ElementOfSeq
<1>4. p \in Dirs /\ p \in Seq(Names) BY <1>2, <1>3, TreeAssumption, DirsArePaths
<1>5. e \in PathTo(p) BY <1>2, <1>4, Further
<1> QED BY <1>2, <1>5 DEF NamedBy

\* A directory made by a step is one it names, one made by a command is known
\* as such: neither is another step's own.
Attributed(s) == \A d \in exists' \ exists : NamedBy(s, d) \/ d \in byCommand'

LEMMA OthersStay ==
  ASSUME StepsTyped, TreeInv, TreeInv', TreeKept, UNCHANGED targets, filled \subseteq filled',
         byCommand \subseteq byCommand', astray \subseteq astray', NEW s \in Steps, Attributed(s), NEW r \in Steps \ {s}, StepOK(r),
         pc'[r] = pc[r], entry'[r] = entry[r], anc'[r] = anc[r], as'[r] = as[r],
         leftover'[r] = leftover[r], created'[r] = created[r]
  PROVE  StepOK(r)'
<1>1. NoneMadeFor(r)
  <2> SUFFICES ASSUME NEW d \in exists' \ exists, NEW e \in PathTo(d), Mine(r, e)' PROVE FALSE
    BY DEF NoneMadeFor
  <2>1. CASE NamedBy(s, d)
    <3>1. NamedBy(s, e) BY <2>1, NamedOnPath DEF StepsTyped
    <3>2. NamedBy(s, e)' BY <3>1 DEF NamedBy
    <3> QED BY <3>2 DEF Mine
  <2>2. CASE d \in byCommand' BY <2>2 DEF Mine, Clean
  <2> QED BY <2>1, <2>2 DEF Attributed
<1>2. Elsewhere(r) BY <1>1 DEF Elsewhere
<1> QED BY <1>2, StepStays

\* A step that leaves the tree alone.
LEMMA TreeStays ==
  ASSUME TreeInv, UNCHANGED <<targets, tree>>
  PROVE  /\ TreeInv' /\ TreeKept /\ filled \subseteq filled' /\ byCommand \subseteq byCommand' /\ astray \subseteq astray'
         /\ \A s : Attributed(s) /\ NoneMadeFor(s)
<1>1. UNCHANGED <<exists, owner, open, filled, byCommand, link, astray>> BY DEF tree
<1>2. TreeInv' BY <1>1 DEF TreeInv, TreeTyped, TreeOK, RestrictedStaysRestricted, AsRestricted
<1> QED BY <1>1, <1>2 DEF TreeKept, Attributed, NoneMadeFor

\* What a step keeps of its own where it has not come to a walk or to an end.
LEMMA OwnStays ==
  ASSUME TreeInv, NEW s, Elsewhere(s), StepOK(s), pc[s] # "killed"
  PROVE  /\ CreatedOK(s)' /\ RecordsOK(s)'
         /\ pc'[s] \notin {"stat", "make", "done", "failed"} =>
              WalkOK(s)' /\ IdentityOK(s)' /\ SeenOK(s)' /\ NothingLeft(s)'
<1>1. CreatedOK(s)' BY ObscuredStays DEF StepOK, CreatedOK, OnEntries, Elsewhere
<1>2. RecordsOK(s)' BY RecordsStay DEF StepOK
<1>3. ASSUME pc'[s] \notin {"stat", "make", "done", "failed"}
      PROVE  WalkOK(s)' /\ IdentityOK(s)' /\ SeenOK(s)' /\ NothingLeft(s)'
  BY <1>3 DEF WalkOK, IdentityOK, SeenOK, NothingLeft
<1> QED BY <1>1, <1>2, <1>3

-----------------------------------------------------------------------------
(* One lemma per action.                                                   *)

\* What is common to the steps that leave the tree and the records alone.
LEMMA QuietStep ==
  ASSUME IInv, UNCHANGED <<targets, tree, as, created, leftover, faults>>, NEW s \in Steps, NEW to \in Stages,
         NEW e \in Nat \ {0}, NEW a \in Dirs,
         pc' = [pc EXCEPT ![s] = to], entry' = [entry EXCEPT ![s] = e], anc' = [anc EXCEPT ![s] = a]
  PROVE  /\ StepsTyped' /\ TreeInv' /\ TreeKept /\ Elsewhere(s)
         /\ pc'[s] = to /\ entry'[s] = e /\ anc'[s] = a
         /\ \A r \in Steps \ {s} : StepOK(r)'
<1>1. TreeInv' /\ TreeKept /\ filled \subseteq filled' /\ byCommand \subseteq byCommand' /\ astray \subseteq astray' /\ Attributed(s) /\ NoneMadeFor(s)
  BY TreeStays DEF IInv
<1>2. StepsTyped' BY DEF IInv, StepsTyped
<1>3. Elsewhere(s) BY <1>1 DEF Elsewhere
<1>4. pc'[s] = to /\ entry'[s] = e /\ anc'[s] = a BY DEF IInv, StepsTyped
<1>5. ASSUME NEW r \in Steps \ {s} PROVE StepOK(r)'
  <2>1. pc'[r] = pc[r] /\ entry'[r] = entry[r] /\ anc'[r] = anc[r] BY DEF IInv, StepsTyped
  <2> QED BY <1>1, <2>1, OthersStay DEF IInv
<1> QED BY <1>1, <1>2, <1>3, <1>4, <1>5

LEMMA LookKeepsIInv ==
  ASSUME IInv, NEW s \in Steps, UNCHANGED targets, Look(s)
  PROVE  IInv'
<1> DEFINE t == Target(s)
<1>1. /\ targets[s] \in Seq(Dirs) /\ entry[s] \in Nat \ {0} /\ anc[s] \in Dirs /\ pc[s] = "look"
      /\ pc \in [Steps -> Stages] /\ entry \in [Steps -> Nat \ {0}] /\ anc \in [Steps -> Dirs]
      /\ entry[s] <= Len(targets[s]) /\ UNCHANGED <<tree, as, created, leftover, faults>>
  BY DEF IInv, StepsTyped, Look
<1>2. entry[s] \in DOMAIN targets[s] /\ t \in Dirs /\ t \in Seq(Names)
  <2>1. entry[s] \in DOMAIN targets[s] BY <1>1
  <2>2. t \in Dirs BY <1>1, <2>1, ElementOfSeq DEF Target
  <2> QED BY <2>1, <2>2, DirsArePaths
<1> HIDE DEF t
<1> DEFINE Goes(to, e, a) ==
             /\ pc' = [pc EXCEPT ![s] = to] /\ entry' = [entry EXCEPT ![s] = e] /\ anc' = [anc EXCEPT ![s] = a]
             /\ to \in {"look", "rollback", "stat"}
             /\ to = "stat" => e = entry[s] /\ Nearest(a, t, FoundDirs)
<1>3. PICK to \in Stages, e \in Nat \ {0}, a \in Dirs : Goes(to, e, a)
  <2>1. CASE UNCHANGED <<pc, anc>> /\ entry' = [entry EXCEPT ![s] = @ + 1]
    <3>1. Goes("look", entry[s] + 1, anc[s]) BY <1>1, <2>1
    <3>2. entry[s] + 1 \in Nat \ {0} /\ "look" \in Stages BY <1>1 DEF Stages, Working
    <3> HIDE DEF Goes
    <3> QED BY <1>1, <3>1, <3>2
  <2>2. CASE Goto(s, "rollback") /\ UNCHANGED <<entry, anc>>
    <3>1. Goes("rollback", entry[s], anc[s]) BY <1>1, <2>2 DEF Goto
    <3>2. "rollback" \in Stages BY DEF Stages
    <3> HIDE DEF Goes
    <3> QED BY <1>1, <3>1, <3>2
  <2>3. CASE /\ \E p \in PathTo(t) : Nearest(p, t, FoundDirs) /\ anc' = [anc EXCEPT ![s] = p]
             /\ Goto(s, "stat") /\ UNCHANGED entry
    <3>1. PICK p \in PathTo(t) : Nearest(p, t, FoundDirs) /\ anc' = [anc EXCEPT ![s] = p] BY <2>3
    <3>2. Goes("stat", entry[s], p) BY <1>1, <2>3, <3>1 DEF Goto
    <3>3. p \in Dirs /\ "stat" \in Stages BY <1>2, DirsArePaths DEF Stages, Working
    <3> HIDE DEF Goes
    <3> QED BY <1>1, <3>2, <3>3
  <2> QED BY <2>1, <2>2, <2>3 DEF Look, t
<1>4. /\ StepsTyped' /\ TreeInv' /\ Elsewhere(s) /\ pc'[s] = to /\ entry'[s] = e /\ anc'[s] = a
      /\ \A r \in Steps \ {s} : StepOK(r)'
  BY <1>1, <1>3, QuietStep
<1>5. LeftoverOK(s)' BY <1>1, <1>3, <1>4 DEF IInv, StepOK, LeftoverOK, Working
<1>6. CreatedOK(s)' /\ RecordsOK(s)' /\ (to # "stat" => WalkOK(s)' /\ IdentityOK(s)' /\ SeenOK(s)' /\ NothingLeft(s)')
  BY <1>1, <1>3, <1>4, OwnStays DEF IInv
<1>7. ASSUME to = "stat" PROVE WalkOK(s)' /\ IdentityOK(s)' /\ SeenOK(s)' /\ NothingLeft(s)'
  <2>1. Target(s)' = t /\ exists' = exists /\ astray' = astray /\ e = entry[s] /\ Nearest(a, t, FoundDirs)
    BY <1>1, <1>3, <1>4, <1>7 DEF Target, t, tree
  <2>2. ASSUME NEW d \in PathTo(t) \cap Initial, Len(d) > Len(a) PROVE Obscured(d)
    <3>1. d \in Dirs /\ Len(d) \in Nat /\ Len(a) \in Nat BY DirsArePaths
    <3>2. ~(Len(d) <= Len(a)) BY <3>1, <2>2
    <3>3. ~Found(d) BY <3>1, <3>2, <2>1 DEF Nearest, FoundDirs
    <3>4. PathTo(d) \cap LinkPaths = {} => At(d) = d BY <3>1, LeadsThere DEF IInv, TreeInv
    <3> QED BY <3>3, <3>4 DEF Found, Obscured, IInv, TreeInv, TreeOK
  <2>3. WalkOK(s)' BY <1>2, <1>4, <2>1, <2>2, ObscuredStays DEF WalkOK, Nearest
  <2>4. SeenOK(s)'
    <3> SUFFICES ASSUME Plain(s), NEW d \in exists \cap PathTo(t) PROVE Len(d) <= Len(a)
      BY <1>4, <1>7, <2>1 DEF SeenOK, Plain
    <3>1. OnEntries(s, d) BY <1>2 DEF OnEntries, Target, t
    <3>2. d \in Dirs BY <1>2, DirsArePaths
    <3>3. Found(d) BY <3>1, PlainNames DEF Found, IInv, TreeInv, StepsTyped
    <3> QED BY <3>2, <3>3, <2>1 DEF Nearest, FoundDirs
  <2> QED BY <1>4, <1>7, <2>3, <2>4 DEF IdentityOK, NothingLeft
<1> QED BY <1>4, <1>5, <1>6, <1>7 DEF IInv, StepOK

LEMMA StatKeepsIInv ==
  ASSUME IInv, NEW s \in Steps, UNCHANGED targets, Stat(s)
  PROVE  IInv'
<1> DEFINE t == Target(s) a == anc[s]
<1>1. /\ pc[s] = "stat" /\ UNCHANGED <<tree, entry, anc, created, leftover, faults>>
      /\ pc \in [Steps -> Stages] /\ as \in [Steps -> Ident] /\ a \in Dirs /\ StepOK(s)
  BY DEF IInv, StepsTyped, Stat
<1>2. /\ entry[s] \in DOMAIN targets[s] /\ a \in PathTo(t)
  BY <1>1 DEF StepOK, WalkOK
<1>3. t \in Dirs /\ t \in Seq(Names)
  <2>1. t \in Dirs BY <1>2, ElementOfSeq DEF Target, IInv, StepsTyped
  <2> QED BY <2>1, DirsArePaths
<1> HIDE DEF t, a
<1>4. TreeInv' /\ TreeKept /\ filled \subseteq filled' /\ byCommand \subseteq byCommand' /\ astray \subseteq astray' /\ Attributed(s) /\ NoneMadeFor(s)
  BY <1>1, TreeStays DEF IInv
<1>5. Elsewhere(s) BY <1>1, <1>4 DEF Elsewhere
<1>p. PICK at \in Dirs : at = At(a) BY <1>1, LeadsThere DEF IInv, TreeInv
<1>6. PICK to \in {"make", "rollback"}, id \in Ident :
        /\ pc' = [pc EXCEPT ![s] = to] /\ as' = [as EXCEPT ![s] = id]
        /\ to = "make" => at \in exists /\ id = [uid |-> owner[at], open |-> at \in open, at |-> at]
  <2>1. CASE Found(a)
    <3>1. [uid |-> owner[at], open |-> at \in open, at |-> at] \in Ident
      BY <2>1 DEF Ident, IInv, TreeInv, TreeTyped
    <3>2. /\ pc' = [pc EXCEPT ![s] = "make"]
          /\ as' = [as EXCEPT ![s] = [uid |-> owner[at], open |-> at \in open, at |-> at]]
      BY <2>1, <1>p DEF Stat, Goto, a
    <3>3. at \in exists BY <2>1, <1>p DEF Found
    <3> QED BY <3>1, <3>2, <3>3
  <2>2. CASE ~Found(a)
    <3>1. pc' = [pc EXCEPT ![s] = "rollback"] /\ as' = [as EXCEPT ![s] = as[s]]
      BY <1>1, <2>2 DEF Stat, Goto, a
    <3> QED BY <3>1, <1>1
  <2> QED BY <2>1, <2>2
<1>7. /\ StepsTyped' /\ pc'[s] = to /\ as'[s] = id /\ to \in Stages
      /\ \A r \in Steps \ {s} : pc'[r] = pc[r] /\ as'[r] = as[r]
  <2>1. to \in Stages BY DEF Stages, Working
  <2> QED BY <1>1, <1>6, <2>1 DEF IInv, StepsTyped
<1>8. \A r \in Steps \ {s} : StepOK(r)' BY <1>1, <1>4, <1>7, OthersStay DEF IInv
<1>9. Target(s)' = t /\ anc'[s] = a /\ exists' = exists BY <1>1 DEF Target, t, a, tree
<1>10. WalkOK(s)' BY <1>1, <1>2, <1>9, ObscuredStays DEF WalkOK, StepOK, t, a, tree
<1>11. IdentityOK(s)'
  <2>1. CASE to = "rollback" BY <2>1, <1>7 DEF IdentityOK
  <2>2. CASE to = "make"
    <3>1. at \in exists /\ id = [uid |-> owner[at], open |-> at \in open, at |-> at] BY <2>2, <1>6
    <3>2. id.uid = owner[at] /\ id.open = (at \in open) /\ id.at = at BY <3>1, Zenon
    <3>3. ASSUME PathTo(at) \cap astray = {}, NEW top \in PathTo(at), Nearest(top, at, Initial), Restricted(top)
          PROVE  id.uid = InitialOwner[top] /\ id.open = FALSE
      <4>1. owner[at] = InitialOwner[top] /\ at \notin open
        BY <3>1, <3>3 DEF IInv, TreeInv, RestrictedStaysRestricted, AsRestricted, Restricted
      <4>2. (at \in open) = FALSE BY <4>1
      <4> QED BY <3>2, <4>1, <4>2
    <3>4. astray' = astray BY <1>1 DEF tree
    <3> QED BY <3>2, <3>3, <3>4, <1>7 DEF IdentityOK
  <2> QED BY <2>1, <2>2
<1>12. LeftoverOK(s)' BY <1>1, <1>7 DEF StepOK, LeftoverOK, Working
<1>13. CreatedOK(s)' /\ RecordsOK(s)' /\ NothingLeft(s)'
  BY <1>1, <1>5, <1>7, OwnStays DEF IInv, NothingLeft
<1>14. SeenOK(s)'
  <2>0. Plain(s)' <=> Plain(s) BY <1>5 DEF Plain, Elsewhere
  <2>1. ASSUME to = "make", Plain(s), NEW d \in exists \cap PathTo(t), Mine(s, d)' PROVE Len(d) <= Len(a)
    BY <2>1, <1>1, <1>5, MineBefore DEF StepOK, SeenOK, t, a
  <2>2. ASSUME to = "make", Plain(s), NEW d \in PathTo(a), Mine(s, d)'
        PROVE  \E k \in DOMAIN created'[s] :
                 /\ LastRecord(s, d, k)' /\ created'[s][k].uid = id.uid
                 /\ \A c \in Below(d, PathTo(a)) : RecordedAfter(s, c, k)'
    <3>1. Mine(s, d) BY <2>2, <1>5, MineBefore
    <3>a. at = a
      <4>1. OnEntries(s, a) BY <1>2 DEF OnEntries, Target, t
      <4> QED BY <4>1, <2>2, <1>p, PlainNames DEF IInv, TreeInv, StepsTyped
    <3>2. a \in exists /\ PathTo(a) \subseteq exists /\ id.uid = owner[a]
      <4>1. a \in exists /\ id = [uid |-> owner[a], open |-> a \in open, at |-> a] BY <3>a, <1>6, <2>2
      <4>2. id.uid = owner[a] BY <4>1, Zenon
      <4> QED BY <4>1, <4>2 DEF IInv, TreeInv, TreeOK
    <3>3. PICK k \in DOMAIN created[s] :
            /\ LastRecord(s, d, k) /\ owner[d] = created[s][k].uid
            /\ \A c \in Below(d, exists) : owner[c] = owner[d] /\ RecordedAfter(s, c, k)
      BY <3>1, <3>2, <1>1, <2>2 DEF StepOK, RecordsOK, GivenBack
    <3>4. Below(d, PathTo(a)) \subseteq Below(d, exists) BY <3>2 DEF Below
    <3>5. owner[a] = owner[d]
      <4>1. a = d \/ a \in Below(d, exists) BY <3>2 DEF Below
      <4> QED BY <4>1, <3>3
    <3>6. created'[s] = created[s] BY <1>5 DEF Elsewhere
    <3> QED BY <3>2, <3>3, <3>4, <3>5, <3>6, LastRecordStays
  <2> QED BY <1>7, <1>9, <2>0, <2>1, <2>2 DEF SeenOK
<1> QED BY <1>4, <1>7, <1>8, <1>10, <1>11, <1>12, <1>13, <1>14 DEF IInv, StepOK

\* The steps that only go on, to where no walk and no end is.
LEMMA GoOnKeepsIInv ==
  ASSUME IInv, NEW s \in Steps, UNCHANGED <<targets, tree, entry, anc, as, created, leftover, faults>>,
         NEW to \in {"mount", "running", "giveback", "killed"}, Goto(s, to), pc[s] \notin {"done", "failed", "killed"},
         to # "killed" => pc[s] \in Working
  PROVE  IInv'
<1>1. /\ to \in Stages /\ UNCHANGED <<targets, tree>> /\ UNCHANGED <<entry, anc, as, created, leftover, faults>>
      /\ pc'[s] = to /\ \A r \in Steps \ {s} : pc'[r] = pc[r]
  BY DEF IInv, StepsTyped, Stages, Working, Goto
<1>2. StepsTyped' /\ TreeInv' /\ Elsewhere(s) /\ \A r \in Steps \ {s} : StepOK(r)'
  <2>1. TreeInv' /\ TreeKept /\ filled \subseteq filled' /\ byCommand \subseteq byCommand' /\ astray \subseteq astray' /\ Attributed(s) /\ NoneMadeFor(s)
    BY <1>1, TreeStays DEF IInv
  <2>2. StepsTyped' BY <1>1 DEF IInv, StepsTyped, Goto
  <2>3. \A r \in Steps \ {s} : StepOK(r)' BY <1>1, <2>1, OthersStay DEF IInv
  <2>4. Elsewhere(s) BY <1>1, <2>1 DEF Elsewhere
  <2> QED BY <2>1, <2>2, <2>3, <2>4
<1>3. /\ CreatedOK(s)' /\ RecordsOK(s)' /\ WalkOK(s)' /\ IdentityOK(s)' /\ SeenOK(s)' /\ NothingLeft(s)'
  BY <1>1, <1>2, OwnStays DEF IInv
<1>4. LeftoverOK(s)' BY <1>1 DEF IInv, StepOK, LeftoverOK, Working
<1> QED BY <1>2, <1>3, <1>4 DEF IInv, StepOK

LEMMA MakeFailsKeepsIInv ==
  ASSUME IInv, NEW s \in Steps, UNCHANGED targets, MakeFails(s)
  PROVE  IInv'
<1>1. /\ pc[s] = "make" /\ UNCHANGED <<entry, anc, as, created>> /\ pc' = [pc EXCEPT ![s] = "rollback"]
      /\ StepOK(s) /\ leftover[s] = {}
  BY DEF MakeFails, Goto, IInv, StepOK, LeftoverOK, Working
<1>3. /\ entry[s] \in DOMAIN targets[s] /\ Target(s) \in Dirs
      /\ At(Target(s)) \in Dirs /\ At(Target(s)) \in Leads(Target(s))
  <2>1. entry[s] \in DOMAIN targets[s] BY <1>1 DEF StepOK, WalkOK
  <2>2. Target(s) \in Dirs BY <2>1, ElementOfSeq DEF Target, IInv, StepsTyped
  <2> QED BY <2>1, <2>2, LeadsThere DEF IInv, TreeInv
<1>t. PICK t \in Dirs : t = At(Target(s)) BY <1>3
<1>2. PICK made :
        /\ TreeInv' /\ TreeKept /\ UNCHANGED <<filled, byCommand>> /\ exists' = exists \cup made
        /\ astray \subseteq astray'
        /\ made \subseteq PathTo(t) /\ leftover' = [leftover EXCEPT ![s] = made] /\ faults' \in Nat
  <2>1. CASE UNCHANGED <<tree, leftover, faults>>
    <3>1. TreeInv' /\ TreeKept BY <2>1, TreeStays DEF IInv
    <3>2. leftover' = [leftover EXCEPT ![s] = {}] BY <2>1, <1>1 DEF IInv, StepsTyped
    <3>3. UNCHANGED <<filled, byCommand, exists, astray>> /\ exists' = exists \cup {} BY <2>1 DEF tree
    <3> QED BY <2>1, <3>1, <3>2, <3>3 DEF IInv, StepsTyped
  <2>2. CASE /\ faults' = faults + 1
             /\ \E n \in 0 .. Len(t) - 1 :
                  LET made == {d \in Missing(t) : Len(d) <= n}
                  IN  MakeDirs(s, made) /\ leftover' = [leftover EXCEPT ![s] = made]
    <3>0. PICK n \in 0 .. Len(t) - 1 :
            LET made == {d \in Missing(t) : Len(d) <= n}
            IN  MakeDirs(s, made) /\ leftover' = [leftover EXCEPT ![s] = made]
      BY <2>2
    <3>n. n \in Nat BY SMT
    <3>1. PICK made :
            /\ made = {d \in Missing(t) : Len(d) <= n}
            /\ MakeDirs(s, made) /\ leftover' = [leftover EXCEPT ![s] = made]
      BY <3>0
    <3>2. /\ TreeInv' /\ TreeKept /\ UNCHANGED <<filled, byCommand>> /\ exists' = exists \cup made
          /\ astray \subseteq astray'
      <4>1. ASSUME NEW d \in made, NEW e \in PathTo(d) \cap Missing(t) PROVE e \in made
        <5>1. d \in Seq(Names) /\ Len(d) \in Nat /\ Len(d) <= n BY <3>1, <1>t, DirsArePaths DEF Missing
        <5>2. Len(e) \in 0..Len(d) BY <5>1, OnPath
        <5>3. Len(e) <= n BY <5>1, <5>2, <3>n
        <5> QED BY <5>3, <3>1
      <4>2. made \subseteq Missing(At(Target(s))) /\ MakeDirs(s, made) BY <3>1, <1>t
      <4>3. \A d \in made : PathTo(d) \cap Missing(At(Target(s))) \subseteq made BY <4>1, <1>t
      <4>4. StepsTyped /\ TreeInv /\ IdentityOK(s) BY <1>1 DEF IInv, StepOK
      <4> QED BY <4>2, <4>3, <4>4, <1>1, <1>3, MkdirKeepsTree
    <3>3. made \subseteq PathTo(t) BY <3>1 DEF Missing
    <3>4. faults' \in Nat BY <2>2 DEF IInv, StepsTyped
    <3> QED BY <3>1, <3>2, <3>3, <3>4
  <2> QED BY <2>1, <2>2, <1>t DEF MakeFails
<1>4. \A d \in made : NamedBy(s, d) /\ d \in Dirs
  <2>1. t \in Leads(targets[s][entry[s]]) /\ PathTo(t) \subseteq Dirs BY <1>3, <1>t, DirsArePaths DEF Target
  <2> QED BY <1>2, <1>3, <2>1 DEF NamedBy
<1>5. /\ pc'[s] = "rollback" /\ leftover'[s] = made
      /\ \A r \in Steps \ {s} : pc'[r] = pc[r] /\ leftover'[r] = leftover[r]
  BY <1>1, <1>2 DEF IInv, StepsTyped
<1>6. StepsTyped'
  <2>1. made \in SUBSET Dirs BY <1>4
  <2>2. leftover' \in [Steps -> SUBSET Dirs] BY <1>2, <2>1 DEF IInv, StepsTyped
  <2>3. pc' \in [Steps -> Stages] BY <1>1 DEF IInv, StepsTyped, Stages
  <2> QED BY <1>1, <1>2, <2>2, <2>3 DEF IInv, StepsTyped
<1>7. Attributed(s) BY <1>2, <1>4 DEF Attributed
<1>8. \A r \in Steps \ {s} : StepOK(r)' BY <1>1, <1>2, <1>5, <1>7, OthersStay DEF IInv
<1>9. Elsewhere(s)
  <2>1. NoneMadeFor(s) BY <1>2, <1>5 DEF NoneMadeFor, Mine
  <2> QED BY <1>1, <1>2, <1>5, <2>1 DEF Elsewhere
<1>10. /\ CreatedOK(s)' /\ RecordsOK(s)' /\ WalkOK(s)' /\ IdentityOK(s)' /\ SeenOK(s)' /\ NothingLeft(s)'
  BY <1>1, <1>5, <1>9, OwnStays DEF IInv
<1>11. LeftoverOK(s)' BY <1>5 DEF LeftoverOK, Working
<1> QED BY <1>2, <1>6, <1>8, <1>10, <1>11 DEF IInv, StepOK

\* The records that a mkdir adds: one for each directory past the ancestor, each
\* after what it is in.
LEMMA MakeRecords ==
  ASSUME IInv, NEW s \in Steps, Make(s), UNCHANGED targets
  PROVE  /\ created'[s] \in Seq(Record) /\ Len(created[s]) \in Nat
         /\ DOMAIN created[s] = 1..Len(created[s]) /\ DOMAIN created[s] \subseteq DOMAIN created'[s]
         /\ \A k \in DOMAIN created[s] : created'[s][k] = created[s][k]
         /\ \A k \in DOMAIN created'[s] \ DOMAIN created[s] :
              /\ k \in Nat \ {0} /\ created'[s][k].path \in PathTo(Target(s))
              /\ Len(created'[s][k].path) = Len(anc[s]) + (k - Len(created[s]))
         /\ \A d \in PathTo(Target(s)) : Len(d) > Len(anc[s]) =>
              LET k == Len(created[s]) + (Len(d) - Len(anc[s]))
              IN  k \in DOMAIN created'[s] \ DOMAIN created[s] /\ created'[s][k] = [path |-> d, uid |-> as[s].uid]
<1> DEFINE t == Target(s) a == anc[s] old == created[s] u == as[s].uid
           new == [i \in 1 .. Len(t) - Len(a) |-> [path |-> SubSeq(t, 1, Len(a) + i), uid |-> u]]
<1>1. /\ pc[s] = "make" /\ old \in Seq(Record) /\ u \in Uids /\ WalkOK(s)
      /\ entry[s] \in DOMAIN targets[s] /\ targets[s] \in Seq(Dirs)
  BY DEF Make, IInv, StepsTyped, StepOK, WalkOK, Ident
<1>2. t \in Dirs /\ t \in Seq(Names) /\ a \in PathTo(t) /\ Len(t) \in Nat /\ Len(a) \in 0..Len(t)
  <2>1. t \in Dirs BY <1>1, ElementOfSeq DEF Target
  <2>2. t \in Seq(Names) /\ a \in PathTo(t) BY <2>1, <1>1, DirsArePaths DEF WalkOK
  <2> QED BY <2>1, <2>2, OnPath
<1>3. created'[s] = old \o new
  <2>1. [i \in DOMAIN SegmentsBetween(a, t) |-> [path |-> SegmentsBetween(a, t)[i], uid |-> u]] = new
    BY DEF SegmentsBetween
  <2> QED BY <2>1 DEF Make, IInv, StepsTyped
<1>4. \A i \in 1 .. Len(t) - Len(a) : /\ Len(a) + i \in 0..Len(t) /\ i \in Nat
                                      /\ new[i].path \in PathTo(t) /\ Len(new[i].path) = Len(a) + i
                                      /\ new[i] \in Record
  <2> TAKE i \in 1 .. Len(t) - Len(a)
  <2>1. Len(a) + i \in 0..Len(t) /\ i \in Nat BY <1>2
  <2>2. new[i] = [path |-> SubSeq(t, 1, Len(a) + i), uid |-> u] OBVIOUS
  <2>3. SubSeq(t, 1, Len(a) + i) \in PathTo(t) BY <2>1 DEF PathTo
  <2>4. Len(SubSeq(t, 1, Len(a) + i)) = Len(a) + i BY <2>1, <1>2, Prefix
  <2>5. SubSeq(t, 1, Len(a) + i) \in Dirs BY <2>3, <1>2, DirsArePaths
  <2> QED BY <2>1, <2>2, <2>3, <2>4, <2>5, <1>1 DEF Record
<1>5. new \in Seq(Record) /\ Len(new) = Len(t) - Len(a)
  <2>1. PICK n \in Nat : n = Len(t) - Len(a)
    <3> HIDE DEF t, a
    <3> QED BY <1>2
  <2>2. new \in [1..n -> Record] BY <2>1, <1>4
  <2>3. new \in Seq(Record)
    <3> HIDE DEF new
    <3> QED BY <2>1, <2>2, SeqDef
  <2> HIDE DEF new
  <2>4. Len(new) = n BY <2>2, <2>3
  <2> QED BY <2>1, <2>3, <2>4
<1> HIDE DEF t, a, old, u, new
<1>6. /\ created'[s] \in Seq(Record) /\ Len(created'[s]) = Len(old) + Len(new) /\ Len(old) \in Nat
      /\ DOMAIN old = 1..Len(old) /\ DOMAIN created'[s] = 1..(Len(old) + Len(new))
      /\ \A k \in 1..Len(old) : created'[s][k] = old[k]
      /\ \A k \in 1..(Len(old) + Len(new)) : k > Len(old) => created'[s][k] = new[k - Len(old)]
  <2>1. old \o new \in Seq(Record) /\ Len(old \o new) = Len(old) + Len(new) /\ Len(old) \in Nat /\ Len(new) \in Nat
    BY <1>1, <1>5
  <2>2. DOMAIN old = 1..Len(old) /\ DOMAIN (old \o new) = 1..(Len(old) + Len(new)) BY <1>1, <2>1
  <2>3. \A k \in 1..(Len(old) + Len(new)) : (old \o new)[k] = IF k <= Len(old) THEN old[k] ELSE new[k - Len(old)]
    BY <1>1, <1>5
  <2>4. \A k \in 1..Len(old) : k \in 1..(Len(old) + Len(new)) /\ k <= Len(old) BY <2>1
  <2>5. \A k \in 1..(Len(old) + Len(new)) : k > Len(old) => ~(k <= Len(old)) BY <2>1
  <2> QED BY <1>3, <2>1, <2>2, <2>3, <2>4, <2>5
<1>7. ASSUME NEW k \in DOMAIN created'[s] \ DOMAIN old
      PROVE  k \in Nat \ {0} /\ created'[s][k].path \in PathTo(t) /\ Len(created'[s][k].path) = Len(a) + (k - Len(old))
  <2>1. k \in Nat \ {0} /\ k > Len(old) /\ k - Len(old) \in 1..Len(t) - Len(a) BY <1>5, <1>6
  <2> QED BY <2>1, <1>4, <1>6
<1>8. ASSUME NEW d \in PathTo(t), Len(d) > Len(a)
      PROVE  LET k == Len(old) + (Len(d) - Len(a))
             IN  k \in DOMAIN created'[s] \ DOMAIN old /\ created'[s][k] = [path |-> d, uid |-> u]
  <2> DEFINE i == Len(d) - Len(a)
  <2>1. Len(d) \in 0..Len(t) /\ d = SubSeq(t, 1, Len(d)) BY <1>2, OnPath
  <2>2. i \in 1..Len(t) - Len(a) /\ Len(a) + i = Len(d) BY <2>1, <1>2, <1>8
  <2>3. new[i] = [path |-> d, uid |-> u] BY <2>1, <2>2 DEF new
  <2> HIDE DEF i
  <2>4. Len(old) + i \in 1..(Len(old) + Len(new)) /\ Len(old) + i > Len(old) /\ (Len(old) + i) - Len(old) = i
    BY <2>2, <1>2, <1>5, <1>6
  <2>5. created'[s][Len(old) + i] = [path |-> d, uid |-> u] BY <2>3, <2>4, <1>6
  <2>6. Len(old) + i \in DOMAIN created'[s] \ DOMAIN old BY <2>4, <1>6
  <2> QED BY <2>5, <2>6 DEF i
<1>9. DOMAIN old \subseteq DOMAIN created'[s] BY <1>5, <1>6
<1> QED BY <1>6, <1>7, <1>8, <1>9 DEF t, a, old, u

\* Everything on the path of the target that s alone has to give back is held to
\* be made under one identity, whether it was there, has gone, or is made now.
LEMMA MakeGivesBack ==
  ASSUME IInv, NEW s \in Steps, Plain(s), Make(s), UNCHANGED targets, TreeInv', TreeKept,
         NEW dirs, dirs = Missing(Target(s)), exists' = exists \cup dirs, \A e \in dirs : owner'[e] = as[s].uid,
         NEW d \in exists', Mine(s, d)
  PROVE  GivenBack(s, d)'
<1> DEFINE t == Target(s) a == anc[s] old == created[s]
<1>1. /\ pc[s] = "make" /\ WalkOK(s) /\ SeenOK(s) /\ RecordsOK(s) /\ MkdirAllowed(s) /\ TreeInv
      /\ entry[s] \in DOMAIN targets[s] /\ targets[s] \in Seq(Dirs)
      /\ \A e \in Missing(t) : Parent(e) \in exists => CanWrite(as[s].uid, Parent(e))
  <2>1. /\ pc[s] = "make" /\ WalkOK(s) /\ SeenOK(s) /\ RecordsOK(s) /\ MkdirAllowed(s) /\ TreeInv
        /\ entry[s] \in DOMAIN targets[s] /\ targets[s] \in Seq(Dirs)
    BY DEF Make, IInv, StepsTyped, StepOK, WalkOK
  <2>2. t \in Dirs /\ t \in PathTo(t) BY <2>1, ElementOfSeq, DirsArePaths, Ends DEF Target
  <2>3. OnEntries(s, t) BY <2>1, <2>2 DEF OnEntries, Target
  <2>4. At(t) = t BY <2>3, PlainNames DEF IInv, TreeInv, StepsTyped
  <2> QED BY <2>1, <2>4 DEF MkdirAllowed
<1>2. t \in Dirs /\ t \in Seq(Names) /\ a \in PathTo(t) /\ Len(t) \in Nat /\ Len(a) \in 0..Len(t)
  <2>1. t \in Dirs BY <1>1, ElementOfSeq DEF Target
  <2>2. t \in Seq(Names) /\ a \in PathTo(t) BY <2>1, <1>1, DirsArePaths DEF WalkOK
  <2> QED BY <2>1, <2>2, OnPath
<1>3. /\ Len(old) \in Nat /\ DOMAIN old = 1..Len(old) /\ DOMAIN old \subseteq DOMAIN created'[s]
      /\ \A k \in DOMAIN old : created'[s][k] = old[k]
      /\ \A k \in DOMAIN created'[s] \ DOMAIN old :
           k \in Nat \ {0} /\ created'[s][k].path \in PathTo(t) /\ Len(created'[s][k].path) = Len(a) + (k - Len(old))
      /\ \A e \in PathTo(t) : Len(e) > Len(a) =>
           LET k == Len(old) + (Len(e) - Len(a))
           IN  k \in DOMAIN created'[s] \ DOMAIN old /\ created'[s][k] = [path |-> e, uid |-> as[s].uid]
  BY MakeRecords
<1>4. PICK u : u = as[s].uid OBVIOUS
<1>5. d \in Dirs /\ d \in Seq(Names) /\ d # <<>> /\ Parent(d) \in PathTo(d) BY DirsArePaths, ParentOnPath DEF Mine
<1>6. \A e \in exists : owner'[e] = owner[e] /\ (e \in open' <=> e \in open) BY DEF TreeKept
<1> HIDE DEF t, a, old
\* The one past the ancestor has a new record, which comes after every old one.
<1>7. ASSUME NEW e \in PathTo(t), Len(e) > Len(a), NEW k \in DOMAIN old PROVE RecordedAfter(s, e, k)'
  <2>1. PICK j : j \in DOMAIN created'[s] \ DOMAIN old /\ created'[s][j] = [path |-> e, uid |-> as[s].uid]
    BY <1>3, <1>7
  <2>2. j > k BY <2>1, <1>3
  <2> QED BY <2>1, <2>2 DEF RecordedAfter
<1>8. ASSUME NEW e, NEW k \in DOMAIN old, RecordedAfter(s, e, k) PROVE RecordedAfter(s, e, k)'
  <2>1. PICK j \in DOMAIN old : j > k /\ old[j].path = e BY <1>8 DEF RecordedAfter, old
  <2> QED BY <2>1, <1>3 DEF RecordedAfter
<1>9. ASSUME NEW k \in DOMAIN old, LastRecord(s, d, k), d \notin PathTo(t) \/ Len(d) <= Len(a)
      PROVE  LastRecord(s, d, k)'
  <2>1. created'[s][k].path = d /\ k \in DOMAIN created'[s] BY <1>3, <1>9 DEF LastRecord, old
  <2>2. ASSUME NEW j \in DOMAIN created'[s], j > k PROVE created'[s][j].path # d
    <3>1. CASE j \in DOMAIN old BY <3>1, <2>2, <1>3, <1>9 DEF LastRecord, old
    <3>2. CASE j \notin DOMAIN old
      <4>1. /\ j \in Nat /\ created'[s][j].path \in PathTo(t)
            /\ Len(created'[s][j].path) = Len(a) + (j - Len(old)) /\ j \in 1..j
        <5>1. j > 0 BY <1>3, <2>2
        <5> QED BY <1>3, <3>2, <5>1
      <4>2. j > Len(old) BY <4>1, <1>3, <3>2
      <4>3. ~(Len(created'[s][j].path) <= Len(a)) BY <4>1, <4>2, <1>2, <1>3
      <4> QED BY <4>1, <4>3, <1>9
    <3> QED BY <3>1, <3>2
  <2> QED BY <2>1, <2>2 DEF LastRecord
\* What is made below d is on the path, and so is d.
<1>10. ASSUME NEW e \in Below(d, exists'), e \notin exists PROVE e \in PathTo(t) /\ e \in dirs /\ d \in PathTo(t) /\ Len(e) > Len(d)
  <2>1. e \in dirs /\ d \in PathTo(e) /\ e # d BY <1>10 DEF Below
  <2>2. e \in PathTo(t) BY <2>1 DEF Missing, t
  <2>3. e \in Seq(Names) /\ Len(e) \in Nat BY <1>2, <2>2, OnPath
  <2>4. Len(d) \in 0..Len(e) /\ Len(d) # Len(e) BY <2>1, <2>3, OnPath, Ends
  <2> QED BY <2>1, <2>2, <2>3, <2>4, <1>2, Further
<1>11. d \notin exists => d \in dirs /\ d \in PathTo(t) /\ owner'[d] = u /\ CanWrite(u, Parent(d))' /\ Below(d, exists) = {}
  <2> SUFFICES ASSUME d \notin exists
               PROVE  d \in dirs /\ d \in PathTo(t) /\ owner'[d] = u /\ CanWrite(u, Parent(d))' /\ Below(d, exists) = {}
    OBVIOUS
  <2>1. d \in dirs /\ d \in PathTo(t) /\ owner'[d] = u BY <1>4 DEF Missing, t
  <2>2. Parent(d) \in PathTo(t) BY <2>1, <1>2, <1>5, Further
  <2>3. CanWrite(u, Parent(d))'
    <3>1. CASE Parent(d) \in exists
      <4>1. CanWrite(u, Parent(d)) BY <2>1, <3>1, <1>1, <1>4 DEF t
      <4> QED BY <4>1, <3>1, <1>6 DEF CanWrite
    <3>2. CASE Parent(d) \notin exists
      <4>1. Parent(d) \in dirs BY <2>2, <3>2 DEF Missing, t
      <4>2. owner'[Parent(d)] = u BY <4>1, <1>4
      <4> QED BY <4>2 DEF CanWrite
    <3> QED BY <3>1, <3>2
  <2>4. Below(d, exists) = {} BY <1>1 DEF Below, TreeInv, TreeOK
  <2> QED BY <2>1, <2>3, <2>4
<1>12. d \in exists => GivenBack(s, d) BY <1>1 DEF RecordsOK
<1>13. ASSUME d \in exists, NEW v, CanWrite(v, Parent(d)) PROVE CanWrite(v, Parent(d))'
  <2>1. Parent(d) \in exists BY <1>13, <1>1, <1>5 DEF TreeInv, TreeOK
  <2> QED BY <2>1, <1>13, <1>6 DEF CanWrite
<1>14. ASSUME NEW k, NEW v, LastRecord(s, d, k)', k \in DOMAIN created'[s], created'[s][k].uid = v,
              owner'[d] = v, CanWrite(v, Parent(d))',
              \A c \in Below(d, exists') : owner'[c] = v /\ RecordedAfter(s, c, k)'
       PROVE  GivenBack(s, d)'
  <2>1. CanWrite(created[s][k].uid, Parent(d))' BY <1>14 DEF CanWrite
  <2> HIDE DEF LastRecord, RecordedAfter, CanWrite, Below
  <2> QED BY <2>1, <1>14 DEF GivenBack
<1>15. CASE d \in PathTo(t) /\ ~(Len(d) <= Len(a))
  <2>1. d \notin exists
    <3>1. d \in exists => Len(d) <= Len(a) BY <1>1, <1>15 DEF SeenOK, t, a
    <3> QED BY <3>1, <1>15
  <2>2. Len(d) \in 0..Len(t) /\ Len(d) > Len(a) BY <1>2, <1>15, OnPath
  <2>3. PICK k : k = Len(old) + (Len(d) - Len(a)) OBVIOUS
  <2>4. k \in DOMAIN created'[s] \ DOMAIN old /\ created'[s][k] = [path |-> d, uid |-> u] /\ k \in Nat
    BY <2>2, <2>3, <1>3, <1>4, <1>15
  <2>5. ASSUME NEW j \in DOMAIN created'[s], j > k PROVE created'[s][j].path # d
    <3>1. k > Len(old) BY <2>2, <2>3, <1>2, <1>3
    <3>2. j \notin DOMAIN old BY <3>1, <2>5, <2>4, <1>3
    <3>3. Len(created'[s][j].path) = Len(a) + (j - Len(old)) /\ j \in Nat BY <3>2, <1>3
    <3> QED BY <3>3, <2>2, <2>3, <2>5, <1>2, <1>3
  <2>6. LastRecord(s, d, k)' BY <2>4, <2>5 DEF LastRecord
  <2>7. ASSUME NEW c \in Below(d, exists') PROVE owner'[c] = u /\ RecordedAfter(s, c, k)'
    <3>1. c \notin exists BY <2>1, <2>7, <1>11 DEF Below
    <3>2. c \in PathTo(t) /\ c \in dirs /\ Len(c) > Len(d) BY <3>1, <2>7, <1>10
    <3>3. Len(c) \in 0..Len(t) /\ Len(c) > Len(a) BY <3>2, <2>2, <1>2, OnPath
    <3>4. PICK j : j = Len(old) + (Len(c) - Len(a)) OBVIOUS
    <3>5. j \in DOMAIN created'[s] /\ created'[s][j].path = c
      <4>1. j \in DOMAIN created'[s] \ DOMAIN old /\ created'[s][j] = [path |-> c, uid |-> as[s].uid]
        BY <3>2, <3>3, <3>4, <1>3
      <4> QED BY <4>1
    <3>6. j > k BY <3>2, <3>3, <3>4, <2>2, <2>3, <1>2, <1>3
    <3> QED BY <3>2, <3>5, <3>6, <1>4 DEF RecordedAfter
  <2>8. k \in DOMAIN created'[s] /\ created'[s][k].uid = u BY <2>4
  <2>9. owner'[d] = u /\ CanWrite(u, Parent(d))' BY <2>1, <1>11
  <2> QED BY <2>6, <2>7, <2>8, <2>9, <1>14
<1>16. CASE d \in PathTo(t) /\ Len(d) <= Len(a)
  <2>1. d \in PathTo(a) BY <1>2, <1>16, Nested
  <2>2. PICK k \in DOMAIN old :
          /\ LastRecord(s, d, k) /\ old[k].uid = u
          /\ \A c \in Below(d, PathTo(a)) : RecordedAfter(s, c, k)
    BY <2>1, <1>1, <1>4 DEF SeenOK, a, old
  <2>3. LastRecord(s, d, k)' /\ k \in DOMAIN created'[s] /\ created'[s][k].uid = u BY <2>2, <1>3, <1>9, <1>16
  <2>4. ASSUME NEW c \in Below(d, exists'), c \notin exists PROVE owner'[c] = u /\ RecordedAfter(s, c, k)'
    <3>1. c \in PathTo(t) /\ c \in dirs /\ c \in Below(d, exists') BY <2>4, <1>10
    <3>2. CASE Len(c) <= Len(a)
      <4>1. c \in PathTo(a) BY <3>1, <3>2, <1>2, Nested
      <4>2. c \in Below(d, PathTo(a)) BY <3>1, <4>1 DEF Below
      <4> QED BY <4>2, <3>1, <2>2, <1>4, <1>8
    <3>3. CASE ~(Len(c) <= Len(a))
      <4>1. Len(c) \in 0..Len(t) /\ Len(c) > Len(a) BY <3>1, <3>3, <1>2, OnPath
      <4> QED BY <4>1, <3>1, <1>4, <1>7
    <3> QED BY <3>2, <3>3
  <2>5. CASE d \notin exists
    <3>1. \A c \in Below(d, exists') : c \notin exists BY <2>5, <1>11 DEF Below
    <3> QED BY <3>1, <2>3, <2>4, <2>5, <1>11, <1>14
  <2>6. CASE d \in exists
    <3>1. PICK m \in DOMAIN old :
            /\ LastRecord(s, d, m) /\ owner[d] = old[m].uid /\ CanWrite(old[m].uid, Parent(d))
            /\ \A c \in Below(d, exists) : owner[c] = owner[d] /\ RecordedAfter(s, c, m)
      BY <2>6, <1>12 DEF GivenBack, old
    <3>2. m = k BY <3>1, <2>2, <1>3 DEF LastRecord, old
    <3>3. owner[d] = u /\ CanWrite(u, Parent(d)) BY <3>1, <3>2, <2>2
    <3>4. owner'[d] = u /\ CanWrite(u, Parent(d))' BY <3>3, <2>6, <1>6, <1>13
    <3>5. ASSUME NEW c \in Below(d, exists'), c \in exists PROVE owner'[c] = u /\ RecordedAfter(s, c, k)'
      <4>1. c \in Below(d, exists) BY <3>5 DEF Below
      <4> QED BY <4>1, <3>1, <3>2, <3>3, <3>5, <1>6, <1>8
    <3> QED BY <2>3, <2>4, <3>4, <3>5, <1>14
  <2> QED BY <2>5, <2>6
<1>17. CASE d \notin PathTo(t)
  <2>1. d \in exists BY <1>17, <1>11
  <2>2. PICK k \in DOMAIN old :
          /\ LastRecord(s, d, k) /\ owner[d] = old[k].uid /\ CanWrite(old[k].uid, Parent(d))
          /\ \A c \in Below(d, exists) : owner[c] = owner[d] /\ RecordedAfter(s, c, k)
    BY <2>1, <1>12 DEF GivenBack, old
  <2>3. PICK v : v = old[k].uid OBVIOUS
  <2>4. LastRecord(s, d, k)' /\ k \in DOMAIN created'[s] /\ created'[s][k].uid = v BY <2>2, <2>3, <1>3, <1>9, <1>17
  <2>5. owner'[d] = v /\ CanWrite(v, Parent(d))' BY <2>1, <2>2, <2>3, <1>6, <1>13
  <2>6. ASSUME NEW c \in Below(d, exists') PROVE owner'[c] = v /\ RecordedAfter(s, c, k)'
    <3>1. c \in exists BY <2>6, <1>10, <1>17
    <3>2. c \in Below(d, exists) BY <2>6, <3>1 DEF Below
    <3> QED BY <3>1, <3>2, <2>2, <2>3, <1>6, <1>8
  <2> QED BY <2>4, <2>5, <2>6, <1>14
<1> QED BY <1>15, <1>16, <1>17

LEMMA MakeKeepsIInv ==
  ASSUME IInv, NEW s \in Steps, UNCHANGED targets, Make(s)
  PROVE  IInv'
<1> DEFINE t == At(Target(s)) dirs == Missing(At(Target(s)))
<1>1. /\ pc[s] = "make" /\ UNCHANGED <<anc, as, leftover, faults>> /\ StepOK(s) /\ MakeDirs(s, dirs)
      /\ pc' = [pc EXCEPT ![s] = "look"] /\ entry' = [entry EXCEPT ![s] = @ + 1]
      /\ entry[s] \in DOMAIN targets[s] /\ targets[s] \in Seq(Dirs) /\ entry[s] \in Nat \ {0}
  BY DEF Make, Goto, IInv, StepsTyped, StepOK, WalkOK
<1>2. t \in Dirs /\ t \in Seq(Names) /\ Len(t) \in Nat /\ Target(s) \in Dirs /\ t \in Leads(Target(s))
  <2>1. Target(s) \in Dirs BY <1>1, ElementOfSeq DEF Target
  <2>2. t \in Dirs /\ t \in Leads(Target(s)) BY <2>1, LeadsThere DEF IInv, TreeInv
  <2> HIDE DEF t
  <2> QED BY <2>1, <2>2, DirsArePaths
<1>4. PICK made : made = dirs OBVIOUS
<1>5. /\ TreeInv' /\ TreeKept /\ UNCHANGED <<filled, byCommand>> /\ astray \subseteq astray'
      /\ exists' = exists \cup made /\ \A d \in made : owner'[d] = as[s].uid
  <2>1. StepsTyped /\ TreeInv BY DEF IInv
  <2>2. IdentityOK(s) /\ pc[s] = "make" BY <1>1 DEF StepOK
  <2>3. MakeDirs(s, made) /\ made = Missing(At(Target(s))) /\ At(Target(s)) \in Dirs BY <1>1, <1>2, <1>4
  <2> HIDE DEF t, dirs
  <2> QED BY <2>1, <2>2, <2>3, MkdirKeepsTree
<1>6. \A d \in made : NamedBy(s, d)
  <2>1. t \in Leads(targets[s][entry[s]]) BY <1>2 DEF Target
  <2>2. \A d \in made : d \in PathTo(t) BY <1>4 DEF Missing
  <2> HIDE DEF t
  <2> QED BY <2>1, <2>2, <1>1 DEF NamedBy
<1>7. /\ created'[s] \in Seq(Record) /\ DOMAIN created[s] \subseteq DOMAIN created'[s]
      /\ \A k \in DOMAIN created[s] : created'[s][k] = created[s][k]
      /\ \A k \in DOMAIN created'[s] \ DOMAIN created[s] :
           created'[s][k].path \in PathTo(Target(s)) /\ Len(created'[s][k].path) > Len(anc[s])
      /\ created' = [created EXCEPT ![s] = created'[s]]
  <2>1. created' = [created EXCEPT ![s] = created'[s]] BY DEF Make, IInv, StepsTyped
  <2>2. /\ created'[s] \in Seq(Record) /\ DOMAIN created[s] \subseteq DOMAIN created'[s]
        /\ Len(created[s]) \in Nat /\ DOMAIN created[s] = 1..Len(created[s])
        /\ \A k \in DOMAIN created[s] : created'[s][k] = created[s][k]
        /\ \A k \in DOMAIN created'[s] \ DOMAIN created[s] :
             /\ k \in Nat \ {0} /\ created'[s][k].path \in PathTo(Target(s))
             /\ Len(created'[s][k].path) = Len(anc[s]) + (k - Len(created[s]))
    BY MakeRecords
  <2>3. Len(anc[s]) \in Nat BY <1>1, DirsArePaths DEF IInv, StepsTyped
  <2>4. ASSUME NEW k \in DOMAIN created'[s] \ DOMAIN created[s] PROVE Len(created'[s][k].path) > Len(anc[s])
    <3>1. k \in Nat \ {0} /\ k \notin 1..Len(created[s]) BY <2>2
    <3>2. PICK m \in Nat : m = Len(created[s]) BY <2>2
    <3>3. PICK l \in Nat : l = Len(anc[s]) BY <2>3
    <3>4. k > m BY <3>1, <3>2
    <3>5. l + (k - m) > l BY <3>1, <3>4
    <3> QED BY <3>2, <3>3, <3>5, <2>2
  <2> HIDE DEF t, dirs
  <2> QED BY <2>1, <2>2, <2>4
<1>8. /\ pc'[s] = "look"
      /\ \A r \in Steps \ {s} : pc'[r] = pc[r] /\ entry'[r] = entry[r] /\ created'[r] = created[r]
  BY <1>1, <1>7 DEF IInv, StepsTyped
<1>9. StepsTyped'
  <2>1. created' \in [Steps -> Seq(Record)] BY <1>7 DEF IInv, StepsTyped
  <2>2. pc' \in [Steps -> Stages] /\ entry' \in [Steps -> Nat \ {0}]
    BY <1>1 DEF IInv, StepsTyped, Stages, Working
  <2> QED BY <1>1, <2>1, <2>2 DEF IInv, StepsTyped
<1>10. \A r \in Steps \ {s} : StepOK(r)'
  <2>1. Attributed(s) BY <1>5, <1>6 DEF Attributed
  <2> QED BY <2>1, <1>1, <1>5, <1>8, OthersStay DEF IInv
<1>11. WalkOK(s)' /\ IdentityOK(s)' /\ SeenOK(s)' /\ NothingLeft(s)'
  BY <1>8 DEF WalkOK, IdentityOK, SeenOK, NothingLeft
<1>12. LeftoverOK(s)' BY <1>1, <1>8 DEF StepOK, LeftoverOK, Working
<1>13. CreatedOK(s)'
  <2> SUFFICES ASSUME NEW i \in DOMAIN created'[s]
               PROVE  /\ OnEntries(s, created'[s][i].path)
                      /\ \/ created'[s][i].path \notin Initial \/ created'[s][i].path \in astray'
                         \/ PathTo(created'[s][i].path) \cap LinkPaths # {} \/ Hidden(created'[s][i].path)
    BY DEF CreatedOK, OnEntries, Obscured, Hidden
  <2> DEFINE q == created'[s][i].path
  <2>1. OnEntries(s, q) /\ (q \in Initial => Obscured(q))
    <3>1. CASE i \in DOMAIN created[s] BY <3>1, <1>1, <1>7 DEF StepOK, CreatedOK
    <3>2. CASE i \notin DOMAIN created[s] BY <3>2, <1>1, <1>7 DEF StepOK, WalkOK, OnEntries, Target
    <3> QED BY <3>1, <3>2
  <2> QED BY <2>1, <1>5 DEF Obscured
<1>14. RecordsOK(s)'
  <2> SUFFICES ASSUME Plain(s), NEW d \in exists', Mine(s, d)' PROVE GivenBack(s, d)' BY DEF RecordsOK, Plain
  <2>1. Mine(s, d) BY <1>1, <1>5 DEF Mine, Clean, NamedBy
  <2>2. OnEntries(s, Target(s)) BY <1>1, <1>2, DirsArePaths, Ends DEF OnEntries, Target
  <2>3. At(Target(s)) = Target(s) BY <2>2, PlainNames DEF IInv, TreeInv, StepsTyped
  <2>4. made = Missing(Target(s)) BY <2>3, <1>4
  <2> HIDE DEF t, dirs
  <2> QED BY <2>1, <2>4, <1>5, MakeGivesBack
<1> QED BY <1>5, <1>9, <1>10, <1>11, <1>12, <1>13, <1>14 DEF IInv, StepOK

\* Whatever a step has to give back goes when its last record is worked off,
\* and so nothing is in the way of what it is in.
LEMMA RemoveGivesBack ==
  ASSUME IInv, NEW s \in Steps, pc[s] # "killed", UNCHANGED <<targets, leftover>>, created[s] # <<>>,
         Rmdir(Last(created[s]).path, Last(created[s]).uid), created' = [created EXCEPT ![s] = Front(@)]
  PROVE  /\ TreeInv' /\ TreeKept /\ UNCHANGED <<owner, filled, byCommand>> /\ exists' \subseteq exists
         /\ astray \subseteq astray' /\ created'[s] \in Seq(Record) /\ DOMAIN created'[s] \subseteq DOMAIN created[s]
         /\ \A k \in DOMAIN created'[s] : created'[s][k] = created[s][k]
         /\ Plain(s) => \A d \in exists' : Mine(s, d) => GivenBack(s, d)'
<1> DEFINE old == created[s]
<1>1. old \in Seq(Record) /\ RecordsOK(s) /\ CreatedOK(s) /\ TreeInv BY DEF IInv, StepsTyped, StepOK
<1>2. PICK n \in Nat \ {0} : n = Len(old) /\ DOMAIN old = 1..n
  <2>1. Len(old) # 0 /\ Len(old) \in Nat BY <1>1, EmptySeq
  <2> QED BY <2>1, <1>1
<1>3. n \in DOMAIN old /\ old[n] \in Record /\ Last(old) = old[n]
  <2>1. n \in DOMAIN old BY <1>2
  <2> QED BY <2>1, <1>1, <1>2, ElementOfSeq DEF Last
<1>4. PICK p \in Dirs, u \in Uids : p = old[n].path /\ u = old[n].uid BY <1>3 DEF Record
<1>5. Rmdir(p, u) BY <1>3, <1>4
<1>6. /\ TreeInv' /\ TreeKept /\ UNCHANGED <<owner, filled, byCommand>> /\ exists' \subseteq exists
      /\ astray \subseteq astray'
  BY <1>1, <1>5, RmdirKeepsTree
<1>e. ASSUME Plain(s), p # <<>>, p \notin filled, Inside(p) = {}, MayRemove(u, p) PROVE p \notin exists'
  <2>1. OnEntries(s, p) BY <1>1, <1>3, <1>4 DEF CreatedOK
  <2>2. At(p) = p /\ LinksOn(p) = {} /\ ~Hidden(p)
    BY <2>1, <1>1, <1>e, PlainNames DEF IInv, TreeInv, StepsTyped
  <2>3. RmdirAt(p, u) /\ MaySearch(u, p) BY <2>2, <1>5 DEF Rmdir, MaySearch
  <2> QED BY <2>3, <1>1, <1>e, RmdirAtKeepsTree
<1>7. /\ created'[s] \in Seq(Record) /\ DOMAIN created'[s] = 1..(n - 1)
      /\ \A k \in 1..(n - 1) : created'[s][k] = old[k] /\ k \in DOMAIN old
  <2>1. created'[s] = Front(old) BY DEF IInv, StepsTyped
  <2>2. n - 1 \in Nat /\ 1..(n - 1) \subseteq DOMAIN old BY <1>2
  <2>3. \A i \in 1..(n - 1) : old[i] \in Record BY <1>1, <2>2, ElementOfSeq
  <2>4. 1 \in Nat /\ n - 1 \in Nat /\ Front(old) = SubSeq(old, 1, n - 1) BY <1>2, <2>2 DEF Front
  <2>5. /\ SubSeq(old, 1, n - 1) = [i \in 1..(n - 1) |-> old[i]]
    <3> HIDE DEF old
    <3>1. SubSeq(old, 1, n - 1) = [i \in 1..((n - 1) - 1 + 1) |-> old[i + 1 - 1]] OBVIOUS
    <3>2. (n - 1) - 1 + 1 = n - 1 /\ \A i \in 1..(n - 1) : i + 1 - 1 = i BY <1>2
    <3> QED BY <3>1, <3>2
  <2>6. [i \in 1..(n - 1) |-> old[i]] \in Seq(Record)
    <3> HIDE DEF old
    <3>1. [i \in 1..(n - 1) |-> old[i]] \in [1..(n - 1) -> Record] BY <2>3
    <3> QED BY <2>2, <3>1, SeqDef
  <2> QED BY <2>1, <2>2, <2>4, <2>5, <2>6
<1> HIDE DEF old
<1>8. ASSUME Plain(s), NEW d \in exists', Mine(s, d)
      PROVE  d # p /\ \E k \in DOMAIN old :
               /\ LastRecord(s, d, k) /\ owner[d] = old[k].uid /\ CanWrite(old[k].uid, Parent(d))
               /\ \A c \in Below(d, exists) : owner[c] = owner[d] /\ RecordedAfter(s, c, k)
  <2>1. PICK k \in DOMAIN old :
          /\ LastRecord(s, d, k) /\ owner[d] = old[k].uid /\ CanWrite(old[k].uid, Parent(d))
          /\ \A c \in Below(d, exists) : owner[c] = owner[d] /\ RecordedAfter(s, c, k)
    BY <1>1, <1>6, <1>8 DEF RecordsOK, GivenBack, old
  <2>2. ASSUME d = p PROVE FALSE
    <3>1. ~(n > k) BY <2>1, <2>2, <1>3, <1>4 DEF LastRecord, old
    <3>2. k = n BY <3>1, <1>2
    <3>3. \A c : ~RecordedAfter(s, c, n) BY <1>2 DEF RecordedAfter, old
    <3>4. Below(p, exists) = {} BY <2>1, <2>2, <3>2, <3>3
    <3>5. d \in PathTo(d) /\ d # <<>> BY <1>8, DirsArePaths, Ends DEF Mine
    <3>6. p \notin filled BY <3>5, <2>2, <1>8 DEF Mine, Clean
    <3>7. MayRemove(u, p) BY <2>1, <2>2, <3>2, <1>4 DEF CanWrite, MayRemove
    <3>8. Inside(p) = {} BY <3>4, <2>2, <1>1, <1>8 DEF Inside, Mine, Clean, TreeInv, TreeOK
    <3> QED BY <3>5, <3>6, <3>7, <3>8, <2>2, <1>e, <1>8
  <2> QED BY <2>1, <2>2
<1>9. ASSUME Plain(s), NEW d \in exists', Mine(s, d) PROVE GivenBack(s, d)'
  <2>1. d # p BY <1>8, <1>9
  <2>2. PICK k \in DOMAIN old :
          /\ LastRecord(s, d, k) /\ owner[d] = old[k].uid /\ CanWrite(old[k].uid, Parent(d))
          /\ \A c \in Below(d, exists) : owner[c] = owner[d] /\ RecordedAfter(s, c, k)
    BY <1>8, <1>9
  <2>3. k # n BY <2>1, <2>2, <1>4 DEF LastRecord, old
  <2>4. k \in DOMAIN created'[s] BY <2>3, <1>2, <1>7
  <2>5. LastRecord(s, d, k)' BY <2>2, <2>4, <1>7 DEF LastRecord, old
  <2>6. d \in Dirs /\ d \in Seq(Names) /\ d # <<>> BY <1>9, DirsArePaths DEF Mine
  <2>7. Parent(d) \in exists /\ Parent(d) \in exists'
    <3>1. Parent(d) \in PathTo(d) BY <2>6, ParentOnPath
    <3> QED BY <3>1, <1>6, <1>9 DEF TreeInv, TreeOK
  <2>8. PICK v : v = old[k].uid OBVIOUS
  <2>9. CanWrite(v, Parent(d))'
    <3>1. CanWrite(v, Parent(d)) BY <2>2, <2>8
    <3> QED BY <3>1, <2>7, <1>6 DEF CanWrite, TreeKept
  <2>10. ASSUME NEW c \in Below(d, exists') PROVE owner'[c] = owner'[d] /\ RecordedAfter(s, c, k)'
    <3>1. c \in exists' /\ c \in exists /\ c # d /\ d \in PathTo(c) BY <1>6, <2>10 DEF Below
    <3>2. c \in Below(d, exists) BY <3>1 DEF Below
    <3>3. Mine(s, c)
      <4>1. c \in Dirs /\ c \in Seq(Names) /\ c \notin Initial
        BY <3>1, <1>1, <1>9, DirsArePaths DEF TreeInv, TreeTyped, Mine
      <4>2. \A q \in Dirs : c \in PathTo(q) => d \in PathTo(q) BY <3>1, Further, DirsArePaths
      <4>3. Clean(c) BY <4>2, <1>1, <1>9 DEF Mine, Clean, TreeInv, TreeTyped
      <4>4. \A r \in Steps \ {s} : ~NamedBy(r, c) BY <3>1, <1>9, NamedOnPath DEF Mine, IInv, StepsTyped
      <4>5. leftover[s] \subseteq Dirs BY DEF IInv, StepsTyped
      <4>6. \A q \in leftover[s] : c \notin PathTo(q) BY <4>2, <4>5, <1>9 DEF Mine
      <4> QED BY <4>1, <4>3, <4>4, <4>6 DEF Mine
    <3>4. c # p BY <3>1, <3>3, <1>8, <1>9
    <3>5. PICK j \in DOMAIN old : j > k /\ old[j].path = c BY <3>2, <2>2 DEF RecordedAfter, old
    <3>6. j # n BY <3>4, <3>5, <1>4
    <3>7. j \in DOMAIN created'[s] /\ created'[s][j].path = c BY <3>5, <3>6, <1>2, <1>7
    <3>8. RecordedAfter(s, c, k)' BY <3>5, <3>7 DEF RecordedAfter
    <3> QED BY <3>2, <3>8, <2>2, <1>6
  <2>11. CanWrite(created[s][k].uid, Parent(d))'
    <3>1. created'[s][k].uid = v BY <2>4, <2>8, <1>7
    <3> QED BY <3>1, <2>9 DEF CanWrite
  <2>12. owner'[d] = created'[s][k].uid BY <2>2, <2>4, <1>6, <1>7
  <2> HIDE DEF LastRecord, RecordedAfter, CanWrite, Below
  <2> QED BY <2>4, <2>5, <2>10, <2>11, <2>12 DEF GivenBack
<1>10. DOMAIN created'[s] \subseteq DOMAIN created[s] /\ \A k \in DOMAIN created'[s] : created'[s][k] = created[s][k]
  BY <1>7 DEF old
<1> QED BY <1>6, <1>7, <1>9, <1>10

LEMMA RemoveKeepsIInv ==
  ASSUME IInv, NEW s \in Steps, UNCHANGED <<targets, entry, anc, as, leftover, faults>>,
         NEW to \in {"failed", "done"}, pc[s] = (IF to = "done" THEN "giveback" ELSE "rollback"), RemoveNext(s, to)
  PROVE  IInv'
<1>1. StepOK(s) /\ pc[s] # "killed" /\ pc \in [Steps -> Stages] /\ created \in [Steps -> Seq(Record)]
      /\ to \in Stages
  BY DEF IInv, StepsTyped, Stages
<1>2. CASE /\ created[s] # <<>> /\ Rmdir(Last(created[s]).path, Last(created[s]).uid)
           /\ created' = [created EXCEPT ![s] = Front(@)] /\ UNCHANGED pc
  <2>1. /\ TreeInv' /\ TreeKept /\ UNCHANGED <<owner, filled, byCommand>> /\ exists' \subseteq exists
        /\ astray \subseteq astray' /\ created'[s] \in Seq(Record) /\ DOMAIN created'[s] \subseteq DOMAIN created[s]
        /\ \A k \in DOMAIN created'[s] : created'[s][k] = created[s][k]
        /\ Plain(s) => \A d \in exists' : Mine(s, d) => GivenBack(s, d)'
    BY <1>1, <1>2, RemoveGivesBack
  <2>2. \A r \in Steps \ {s} : created'[r] = created[r] BY <1>1, <1>2
  <2>3. StepsTyped'
    <3>1. created' \in [Steps -> Seq(Record)] BY <1>1, <1>2, <2>1
    <3> QED BY <3>1, <1>2 DEF IInv, StepsTyped
  <2>4. \A r \in Steps \ {s} : StepOK(r)'
    <3>1. Attributed(s) BY <2>1 DEF Attributed
    <3> QED BY <1>2, <2>1, <2>2, <3>1, OthersStay DEF IInv
  <2>5. RecordsOK(s)'
    <3> SUFFICES ASSUME Plain(s), NEW d \in exists', Mine(s, d)' PROVE GivenBack(s, d)' BY DEF RecordsOK, Plain
    <3>1. Mine(s, d) BY <2>1 DEF Mine, Clean, NamedBy
    <3> QED BY <2>1, <3>1
  <2>6. pc'[s] = pc[s] /\ pc[s] \in {"giveback", "rollback"} BY <1>2
  <2>7. WalkOK(s)' /\ IdentityOK(s)' /\ SeenOK(s)' /\ NothingLeft(s)' /\ LeftoverOK(s)'
    BY <1>1, <2>6 DEF WalkOK, IdentityOK, SeenOK, NothingLeft, StepOK, LeftoverOK
  <2>8. CreatedOK(s)'
    <3> SUFFICES ASSUME NEW i \in DOMAIN created'[s]
                 PROVE  /\ OnEntries(s, created'[s][i].path)
                        /\ \/ created'[s][i].path \notin Initial \/ created'[s][i].path \in astray'
                           \/ PathTo(created'[s][i].path) \cap LinkPaths # {} \/ Hidden(created'[s][i].path)
      BY DEF CreatedOK, OnEntries, Obscured, Hidden
    <3>1. created'[s][i] = created[s][i] /\ i \in DOMAIN created[s] BY <2>1
    <3>2. OnEntries(s, created[s][i].path) /\ (created[s][i].path \in Initial => Obscured(created[s][i].path))
      BY <3>1, <1>1 DEF StepOK, CreatedOK
    <3> QED BY <3>1, <3>2, <2>1 DEF Obscured
  <2> QED BY <2>1, <2>3, <2>4, <2>5, <2>7, <2>8 DEF IInv, StepOK
<1>3. CASE created[s] = <<>> /\ Goto(s, to) /\ UNCHANGED <<tree, created>>
  <2>1. /\ pc'[s] = to /\ created'[s] = <<>> /\ \A r \in Steps \ {s} : pc'[r] = pc[r]
    BY <1>1, <1>3 DEF Goto
  <2>2. TreeInv' /\ TreeKept /\ filled \subseteq filled' /\ byCommand \subseteq byCommand' /\ astray \subseteq astray' /\ Attributed(s) /\ NoneMadeFor(s)
    BY <1>3, TreeStays DEF IInv
  <2>3. StepsTyped' BY <1>1, <1>3 DEF IInv, StepsTyped, Goto
  <2>4. \A r \in Steps \ {s} : StepOK(r)' BY <1>3, <2>1, <2>2, OthersStay DEF IInv
  <2>5. Elsewhere(s) BY <1>3, <2>2 DEF Elsewhere
  <2>6. CreatedOK(s)' /\ RecordsOK(s)' BY <1>1, <2>5, OwnStays DEF IInv
  <2>7. WalkOK(s)' /\ IdentityOK(s)' /\ SeenOK(s)' /\ NothingLeft(s)'
    BY <2>1 DEF WalkOK, IdentityOK, SeenOK, NothingLeft
  <2>8. LeftoverOK(s)' BY <1>1, <2>1 DEF StepOK, LeftoverOK, Working
  <2> QED BY <2>2, <2>3, <2>4, <2>6, <2>7, <2>8 DEF IInv, StepOK
<1> QED BY <1>2, <1>3 DEF RemoveNext

\* A command leaves nothing that a step is held to have made for itself alone.
LEMMA CommandKeepsIInv ==
  ASSUME IInv, NEW s \in Steps, UNCHANGED targets, Command(s)
  PROVE  IInv'
<1>1. SUFFICES /\ TreeInv' /\ TreeKept /\ filled \subseteq filled' /\ byCommand \subseteq byCommand' /\ astray \subseteq astray'
               /\ \A d \in exists' \ exists : d \in byCommand'
               /\ UNCHANGED <<pc, entry, anc, as, created, leftover, faults>>
  <2> SUFFICES ASSUME /\ TreeInv' /\ TreeKept /\ filled \subseteq filled' /\ byCommand \subseteq byCommand' /\ astray \subseteq astray'
                      /\ \A d \in exists' \ exists : d \in byCommand'
                      /\ UNCHANGED <<pc, entry, anc, as, created, leftover, faults>>
               PROVE  IInv'
    OBVIOUS
  <2>1. StepsTyped' BY DEF IInv, StepsTyped
  <2>2. \A r \in Steps : NoneMadeFor(r) BY DEF NoneMadeFor, Mine, Clean
  <2>3. \A r \in Steps : Elsewhere(r) BY <2>2 DEF Elsewhere
  <2>4. \A r \in Steps : StepOK(r)' BY <2>3, StepStays DEF IInv
  <2> QED BY <2>1, <2>4 DEF IInv
<1>2. TreeInv BY DEF IInv
<1>3. CASE CommandWrites(s)
  <2>1. PICK d \in exists : filled' = filled \cup {d} BY <1>3 DEF CommandWrites
  <2>2. UNCHANGED <<exists, owner, open, byCommand, link, astray, pc, entry, anc, as, created, leftover, faults>>
    BY <1>3 DEF CommandWrites
  <2>3. TreeInv' BY <1>2, <2>1, <2>2 DEF TreeInv, TreeTyped, TreeOK, RestrictedStaysRestricted, AsRestricted
  <2> QED BY <2>1, <2>2, <2>3 DEF TreeKept
<1>4. CASE CommandMakesDir(s)
  <2>1. PICK d \in Dirs \ exists :
          /\ Parent(d) \in exists /\ CanWrite(Runner, Parent(d)) /\ exists' = exists \cup {d}
          /\ owner' = [owner EXCEPT ![d] = Runner] /\ byCommand' = byCommand \cup {d}
    BY <1>4 DEF CommandMakesDir
  <2>2. UNCHANGED <<open, filled, link, astray, pc, entry, anc, as, created, leftover, faults>>
    BY <1>4 DEF CommandMakesDir
  <2>3. d # <<>>
    <3>1. Len(<<>>) - 1 = 0 - 1 /\ 0 - 1 \in Int /\ 0 - 1 < 1 OBVIOUS
    <3>2. SubSeq(<<>>, 1, 0 - 1) = <<>> BY <3>1, SubSeqEmpty
    <3>3. Parent(<<>>) = <<>> BY <3>1, <3>2 DEF Parent
    <3> QED BY <3>3, <2>1
  <2>4. TreeInv' /\ TreeKept BY <1>2, <2>1, <2>2, <2>3, CommandKeepsTree
  <2> QED BY <2>1, <2>2, <2>4
<1>5. CASE CommandRemovesDir(s)
  <2>1. PICK d \in exists \ Initial : RmdirAt(d, Runner) BY <1>5 DEF CommandRemovesDir
  <2>2. UNCHANGED <<pc, entry, anc, as, created, leftover, faults>> BY <1>5 DEF CommandRemovesDir
  <2>3. d \in Dirs BY <1>2 DEF TreeInv, TreeTyped
  <2>4. /\ TreeInv' /\ TreeKept /\ UNCHANGED <<owner, filled, byCommand>> /\ exists' \subseteq exists
        /\ astray \subseteq astray'
    BY <1>2, <2>1, <2>3, RmdirAtKeepsTree
  <2> QED BY <2>2, <2>4
<1>6. CASE CommandLinks(s)
  <2>1. PICK q \in LinkPaths, to \in LinkTo \cup {NoLink} :
          link' = [link EXCEPT ![q] = to] /\ byCommand' = byCommand \cup {q}
    BY <1>6 DEF CommandLinks
  <2>2. UNCHANGED <<exists, owner, open, filled, astray, pc, entry, anc, as, created, leftover, faults>>
    BY <1>6 DEF CommandLinks
  <2>3. q \in Dirs BY TreeAssumption
  <2>4. TreeTyped' BY <1>2, <2>1, <2>2, <2>3 DEF TreeInv, TreeTyped
  <2>5. TreeOK' BY <1>2, <2>1, <2>2 DEF TreeInv, TreeTyped, TreeOK
  <2>6. RestrictedStaysRestricted' BY <1>2, <2>2 DEF TreeInv, RestrictedStaysRestricted, AsRestricted
  <2> QED BY <2>1, <2>2, <2>4, <2>5, <2>6 DEF TreeInv, TreeKept
<1> QED BY <1>3, <1>4, <1>5, <1>6 DEF Command

-----------------------------------------------------------------------------
LEMMA InitHolds == Init => IInv
<1> SUFFICES ASSUME Init PROVE IInv OBVIOUS
<1>1. /\ targets \in Plans /\ exists = Initial /\ open = InitialOpen /\ filled = InitialFilled /\ byCommand = {}
      /\ link = [q \in LinkPaths |-> NoLink] /\ astray = {}
      /\ owner = [d \in Dirs |-> IF d \in Initial THEN InitialOwner[d] ELSE Root]
      /\ \A s \in Steps : /\ pc[s] = "look" /\ entry[s] = 1 /\ anc[s] = <<>> /\ as[s] = Nobody
                          /\ created[s] = <<>> /\ leftover[s] = {}
  BY DEF Init
<1>2. TreeTyped
  <2>1. owner \in [Dirs -> Uids] BY <1>1, TreeAssumption DEF Uids
  <2>2. InitialFilled \subseteq Dirs BY TreeAssumption
  <2> QED BY <1>1, <2>1, <2>2, TreeAssumption DEF TreeTyped
<1>3. TreeOK BY <1>1, TreeAssumption DEF TreeOK
<1>4. RestrictedStaysRestricted
  <2> SUFFICES ASSUME NEW d \in exists, NEW top \in PathTo(d), Nearest(top, d, Initial),
                      InitialOwner[top] # Runner, top \notin InitialOpen
               PROVE  owner[d] = InitialOwner[top] /\ d \notin open
    BY DEF RestrictedStaysRestricted, AsRestricted
  <2>1. d \in Initial /\ d \in Dirs /\ d \in Seq(Names) BY <1>1, DirsArePaths
  <2>2. Len(d) <= Len(top) BY <2>1, Ends DEF Nearest
  <2>3. Len(top) \in 0..Len(d) /\ Len(d) \in Nat BY <2>1, OnPath
  <2>4. top = d BY <2>1, <2>2, <2>3, Ends
  <2> QED BY <2>1, <2>4, <1>1
<1>5. StepsTyped
  <2>1. targets \in [Steps -> Seq(Dirs)] BY <1>1, TreeAssumption
  <2>2. <<>> \in Dirs /\ <<>> \in Seq(Record) BY DirsArePaths
  <2>3. Nobody \in Ident BY <2>2 DEF Nobody, Ident, Uids
  <2> QED BY <2>1, <2>2, <2>3 DEF StepsTyped, Init, Stages, Working
<1>6. ASSUME NEW s \in Steps PROVE StepOK(s)
  <2>1. WalkOK(s) /\ IdentityOK(s) /\ SeenOK(s) /\ NothingLeft(s) /\ LeftoverOK(s)
    BY <1>1 DEF WalkOK, IdentityOK, SeenOK, NothingLeft, LeftoverOK
  <2>2. CreatedOK(s)
    <3>1. created[s] = <<>> BY <1>1
    <3>2. created[s] \in Seq(Record) /\ Len(created[s]) = 0 BY <3>1
    <3>3. \A i \in DOMAIN created[s] : FALSE BY <3>2
    <3> QED BY <3>3 DEF CreatedOK
  <2>3. RecordsOK(s) BY <1>1 DEF RecordsOK, Mine
  <2> QED BY <2>1, <2>2, <2>3 DEF StepOK
<1> QED BY <1>2, <1>3, <1>4, <1>5, <1>6 DEF IInv, TreeInv

LEMMA NextKeepsIInv == IInv /\ [Next]_vars => IInv'
<1> SUFFICES ASSUME IInv, [Next]_vars PROVE IInv' OBVIOUS
<1>1. CASE UNCHANGED vars
  <2>1. /\ UNCHANGED <<targets, tree>> /\ UNCHANGED <<pc, entry, anc, as, created, leftover, faults>>
    BY <1>1 DEF vars
  <2>2. TreeInv' /\ TreeKept /\ filled \subseteq filled' /\ byCommand \subseteq byCommand' /\ astray \subseteq astray' /\ \A r : NoneMadeFor(r)
    BY <2>1, TreeStays DEF IInv
  <2>3. StepsTyped' BY <2>1 DEF IInv, StepsTyped
  <2>4. \A r \in Steps : Elsewhere(r) BY <2>1, <2>2 DEF Elsewhere
  <2>5. \A r \in Steps : StepOK(r)' BY <2>1, <2>4, StepStays DEF IInv
  <2> QED BY <2>2, <2>3, <2>5 DEF IInv
<1>2. ASSUME UNCHANGED targets, NEW s \in Steps,
             \/ Look(s) \/ Stat(s) \/ Make(s) \/ MakeFails(s) \/ Rollback(s)
             \/ Planned(s) \/ Mount(s) \/ Command(s) \/ CommandEnds(s) \/ GiveBack(s)
             \/ Kill(s)
      PROVE  IInv'
  <2>1. CASE Look(s) BY <1>2, <2>1, LookKeepsIInv
  <2>2. CASE Stat(s) BY <1>2, <2>2, StatKeepsIInv
  <2>3. CASE Make(s) BY <1>2, <2>3, MakeKeepsIInv
  <2>4. CASE MakeFails(s) BY <1>2, <2>4, MakeFailsKeepsIInv
  <2>5. CASE Rollback(s)
    <3>1. UNCHANGED <<targets, entry, anc, as, leftover, faults>> BY <1>2, <2>5 DEF Rollback
    <3>2. pc[s] = (IF "failed" = "done" THEN "giveback" ELSE "rollback") /\ RemoveNext(s, "failed") BY <2>5 DEF Rollback
    <3> QED BY <3>1, <3>2, RemoveKeepsIInv
  <2>6. CASE GiveBack(s)
    <3>1. UNCHANGED <<targets, entry, anc, as, leftover, faults>> BY <1>2, <2>6 DEF GiveBack
    <3>2. pc[s] = (IF "done" = "done" THEN "giveback" ELSE "rollback") /\ RemoveNext(s, "done") BY <2>6 DEF GiveBack
    <3> QED BY <3>1, <3>2, RemoveKeepsIInv
  <2>7. CASE Command(s) BY <1>2, <2>7, CommandKeepsIInv
  <2>8. CASE Planned(s) \/ Mount(s) \/ CommandEnds(s) \/ Kill(s)
    <3>1. UNCHANGED <<targets, tree, entry, anc, as, created, leftover, faults>>
      BY <1>2, <2>8 DEF Planned, Mount, CommandEnds, Kill
    <3>2. /\ pc[s] \notin {"done", "failed", "killed"}
          /\ \E to \in {"mount", "running", "giveback", "killed"} : Goto(s, to) /\ (to # "killed" => pc[s] \in Working)
      BY <2>8 DEF Planned, Mount, CommandEnds, Kill, Working
    <3> QED BY <3>1, <3>2, GoOnKeepsIInv
  <2> QED BY <1>2, <2>1, <2>2, <2>3, <2>4, <2>5, <2>6, <2>7, <2>8
<1> QED BY <1>1, <1>2 DEF Next

LEMMA Invariance == Spec => []IInv
BY InitHolds, NextKeepsIInv, PTL DEF Spec

\* A directory is as restricted as the directory of the host it comes to lie in,
\* wherever the mkdir came to where the stat had looked: it runs as the owner the
\* stat gave and with its mode, whatever other steps and their commands make,
\* link and remove meanwhile (write-through.ts: ensureWriteThroughTargetsExist).
THEOREM RestrictionsStay == Spec => []RestrictedStaysRestricted
<1>1. IInv => RestrictedStaysRestricted BY DEF IInv, TreeInv
<1> QED BY <1>1, Invariance, PTL

\* One rmdir takes a directory of the host only by a name it could not be seen by.
LEMMA RemovalIsOfObscured ==
  ASSUME IInv, NEW s \in Steps, NEW to, RemoveNext(s, to), NEW d \in Initial, d \in exists, d \notin exists'
  PROVE  /\ created[s] # <<>> /\ At(Last(created[s]).path) = d
         /\ Obscured(Last(created[s]).path)
<1>1. created[s] # <<>> /\ Rmdir(Last(created[s]).path, Last(created[s]).uid) BY DEF RemoveNext, tree
<1>2. created[s] \in Seq(Record) /\ CreatedOK(s) /\ TreeInv BY DEF IInv, StepsTyped, StepOK
<1>3. Len(created[s]) \in DOMAIN created[s]
  <2>1. Len(created[s]) # 0 /\ Len(created[s]) \in Nat BY <1>1, <1>2, EmptySeq
  <2> QED BY <2>1, <1>2
<1>4. PICK p \in Dirs, u \in Uids :
        /\ p = Last(created[s]).path /\ u = Last(created[s]).uid
        /\ p \in Initial => Obscured(p)
  <2>1. Last(created[s]) = created[s][Len(created[s])] BY DEF Last
  <2>2. Last(created[s]) \in Record BY <2>1, <1>2, <1>3, ElementOfSeq
  <2> QED BY <2>1, <2>2, <1>2, <1>3 DEF Record, CreatedOK
<1>5. Rmdir(p, u) BY <1>1, <1>4
<1>6. d = At(p) BY <1>2, <1>5, RmdirKeepsTree
<1>7. CASE PathTo(p) \cap LinkPaths = {}
  <2>1. At(p) = p BY <1>2, <1>7, LeadsThere DEF TreeInv
  <2> QED BY <2>1, <1>1, <1>4, <1>6
<1>8. CASE PathTo(p) \cap LinkPaths # {} BY <1>1, <1>4, <1>6, <1>8 DEF Obscured
<1> QED BY <1>7, <1>8

\* No rollback and no giving back takes anything a command has written, and a
\* directory of the host only by a name that a link may be on or that the
\* runner cannot see, or when it was gone once (write-through.ts:
\* removeCreatedDirsIfEmpty).
THEOREM OthersKeepTheirs == Spec => NothingOfOthersIsRemoved
<1> DEFINE ByName(d) == \E s \in Steps : /\ created[s] # <<>> /\ At(Last(created[s]).path) = d
                                        /\ Obscured(Last(created[s]).path)
<1>1. ASSUME IInv, [Next]_vars
      PROVE  filled \subseteq filled' /\ \A d \in Initial \ exists' : d \in exists => ByName(d)
  <2>1. CASE UNCHANGED vars BY <2>1 DEF vars, tree
  <2>2. CASE Next
    <3>1. PICK s \in Steps :
            \/ Look(s) \/ Stat(s) \/ Make(s) \/ MakeFails(s) \/ Rollback(s)
            \/ Planned(s) \/ Mount(s) \/ Command(s) \/ CommandEnds(s) \/ GiveBack(s)
            \/ Kill(s)
      BY <2>2 DEF Next
    <3>2. CASE Make(s) \/ MakeFails(s)
      <4>1. filled' = filled /\ exists \subseteq exists' BY <3>2 DEF Make, MakeFails, MakeDirs, tree
      <4> QED BY <4>1
    <3>3. CASE Rollback(s) \/ GiveBack(s)
      <4>1. PICK to : RemoveNext(s, to) BY <3>3 DEF Rollback, GiveBack
      <4>2. filled' = filled BY <4>1 DEF RemoveNext, Rmdir, RmdirAt, tree
      <4>3. \A d \in Initial \ exists' : d \in exists => ByName(d) BY <1>1, <4>1, RemovalIsOfObscured
      <4> QED BY <4>2, <4>3
    <3>4. CASE Command(s)
      <4>1. CASE CommandRemovesDir(s)
        <5>1. PICK d \in exists \ Initial : RmdirAt(d, Runner) BY <4>1 DEF CommandRemovesDir
        <5>2. filled' = filled /\ exists \ exists' \subseteq {d} BY <5>1 DEF RmdirAt
        <5> QED BY <5>1, <5>2
      <4>2. CASE CommandWrites(s) \/ CommandMakesDir(s) \/ CommandLinks(s)
        <5>1. filled \subseteq filled' /\ exists \subseteq exists'
          BY <4>2 DEF CommandWrites, CommandMakesDir, CommandLinks
        <5> QED BY <5>1
      <4> QED BY <4>1, <4>2, <3>4 DEF Command
    <3>5. CASE Look(s) \/ Stat(s) \/ Planned(s) \/ Mount(s) \/ CommandEnds(s) \/ Kill(s)
      BY <3>5 DEF Look, Stat, Planned, Mount, CommandEnds, Kill, tree
    <3> QED BY <3>1, <3>2, <3>3, <3>4, <3>5
  <2> QED BY <1>1, <2>1, <2>2
<1> QED BY <1>1, Invariance, PTL DEF Spec, NothingOfOthersIsRemoved

\* What a step at its end alone names and no command has used is gone.
LEMMA NothingOfItsOwn ==
  ASSUME IInv, NEW s \in Steps, pc[s] \in {"failed", "done"}, Plain(s), NEW d, LeftEmpty(d),
         \A r \in Steps \ {s} : ~NamedBy(r, d), \A p \in leftover[s] : d \notin PathTo(p)
  PROVE  FALSE
<1>1. d \in exists /\ Mine(s, d) BY DEF LeftEmpty, Mine, Clean, IInv, TreeInv, TreeTyped
<1>2. GivenBack(s, d) /\ created[s] = <<>> BY <1>1 DEF IInv, StepOK, RecordsOK, NothingLeft
<1> QED BY <1>2 DEF GivenBack

\* A step that fails has taken back whatever the entries before the failing one
\* made, whatever the other steps do meanwhile (write-through.ts: the rollback
\* in ensureWriteThroughTargetsExist).
THEOREM RollbacksAreComplete == Spec => []RollbackComplete
<1>1. IInv => RollbackComplete BY NothingOfItsOwn DEF RollbackComplete
<1> QED BY <1>1, Invariance, PTL

\* A step that ends has given back every directory that it alone names and no
\* command has used (write-through.ts: removeCreatedDirsIfEmpty).
THEOREM EmptyOnesAreGivenBack == Spec => []EmptyDirsGivenBack
<1>1. IInv => EmptyDirsGivenBack
  <2> SUFFICES ASSUME IInv, NEW s \in Steps, pc[s] = "done", Plain(s), NEW d \in exists, LeftEmpty(d),
                      \A r \in Steps \ {s} : ~NamedBy(r, d)
               PROVE  FALSE
    BY DEF EmptyDirsGivenBack
  <2>1. leftover[s] = {} BY DEF IInv, StepOK, LeftoverOK
  <2> QED BY <2>1, NothingOfItsOwn
<1> QED BY <1>1, Invariance, PTL
=============================================================================
