--------------------------- MODULE MCWriteThrough ---------------------------
(* /tmp is open to everyone, /etc and /priv belong to root, /priv is closed to *)
(* others, and /home belongs to the runner. /priv/c is there and empty, /home/l *)
(* may become a link to /tmp or /etc; what else is named is not there.         *)
EXTENDS WriteThrough, TLC

CONSTANTS s1, s2

MCSteps == {s1, s2}
tmp == <<"tmp">>
etc == <<"etc">>
home == <<"home">>
priv == <<"priv">>
a == <<"tmp", "a">>
ab == <<"tmp", "a", "b">>
t == <<"etc", "t">>
tu == <<"etc", "t", "u">>
tuv == <<"etc", "t", "u", "v">>
x == <<"home", "x">>
out == <<"home", "out">>
l == <<"home", "l">>
lt == <<"home", "l", "t">>
tt == <<"tmp", "t">>
c == <<"priv", "c">>
cd == <<"priv", "c", "d">>

MCNames == {"tmp", "etc", "home", "priv", "a", "b", "t", "u", "v", "x", "out", "l", "c", "d"}
MCOpen == {tmp}
MCFilled == {tmp, etc}
MCKnown == {out}

MCInitial == {<<>>, tmp, etc, home, priv, c}
MCOwner == [d \in MCInitial |-> IF d = home THEN Runner ELSE Root]
MCDirs == MCInitial \cup {a, ab, t, tu, tuv, x, out, l, lt, tt, cd}
MCClosed == {priv}
MCLinkPaths == {l}
MCLinkTo == {tmp, etc}

\* Entries of two steps that overlap: the same path, and one inside the other.
MCShared == s1 :> <<ab, t>> @@ s2 :> <<a, t>>

\* Entries that do not: one step's are inside each other, the other's second
\* one names a runner file that is not there.
MCDisjoint == s1 :> <<t, tuv>> @@ s2 :> <<x, out>>

\* One step's entry in which both commands make directories and remove them.
MCOneOnly == s1 :> <<a, t>> @@ s2 :> <<tmp>>

\* An entry below a name that the other step's command makes a link of, to
\* where that step has an entry of its own.
MCLinked == s1 :> <<lt, a>> @@ s2 :> <<t>>

\* An entry below the closed directory, named with one that is there.
MCHidden == s1 :> <<cd>> @@ s2 :> <<c>>

MCPlans == {MCShared, MCDisjoint, MCOneOnly, MCLinked, MCHidden}

\* What commands make and link where no entry leads concerns no step.
OnlyOnEntries == \A d \in byCommand' \ byCommand : \E s \in Steps : NamedBy(s, d)
=============================================================================
