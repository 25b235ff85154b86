------------------------ MODULE SandboxMountsProofs ------------------------
(***************************************************************************)
(* What the isolated command reaches of the host's files, for any tree of  *)
(* paths, any mounts of the host, any runner directories and inputs: what  *)
(* it writes was declared, what was declared it can write, and the         *)
(* sandbox's own mounts are on top whatever else is mounted around them.   *)
(***************************************************************************)
EXTENDS SandboxMounts, FiniteSetTheorems, SequenceTheorems, WellFoundedInduction, TLAPS

-----------------------------------------------------------------------------
(* Numbers, paths and sorting.                                             *)

\* Every nonempty set of numbers has a least one.
LEMMA Least ==
  ASSUME NEW T \in SUBSET Nat, T # {}
  PROVE  \E x \in T : \A y \in T : x <= y
<1> DEFINE F == {1..n : n \in T}
<1>1. F \subseteq FiniteSubsetsOf(Nat) /\ F # {}
  <2>1. \A n \in T : IsFiniteSet(1..n) /\ 1..n \subseteq Nat BY FS_Interval
  <2> QED BY <2>1 DEF FiniteSubsetsOf
<1>2. PICK I \in F : \A J \in F : ~(<<J, I>> \in StrictSubsetOrdering(Nat))
  <2> HIDE DEF F
  <2> QED BY <1>1, FS_StrictSubsetOrderingWellFounded, WFMin, Zenon
<1>3. PICK x \in T : I = 1..x OBVIOUS
<1>4. ASSUME NEW y \in T PROVE x <= y
  <2>1. SUFFICES ASSUME y < x PROVE FALSE OBVIOUS
  <2>2. 1..y \in SUBSET Nat /\ 1..x \in SUBSET Nat /\ 1..y \subseteq 1..x /\ x \in 1..x /\ x \notin 1..y
    BY <2>1
  <2>3. <<1..y, 1..x>> \in StrictSubsetOrdering(Nat) BY <2>2 DEF StrictSubsetOrdering
  <2> QED BY <1>2, <1>3, <2>3
<1> QED BY <1>4

\* And a bounded one a greatest.
LEMMA Greatest ==
  ASSUME NEW T \in SUBSET Nat, T # {}, NEW n \in Nat, \A y \in T : y <= n
  PROVE  \E x \in T : \A y \in T : y <= x
<1> DEFINE U == {n - y : y \in T}
<1>1. U \in SUBSET Nat /\ U # {}
  <2>1. \A y \in T : n - y \in Nat OBVIOUS
  <2> QED BY <2>1
<1>2. PICK u \in U : \A w \in U : u <= w
  <2> HIDE DEF U
  <2> QED BY <1>1, Least
<1>3. PICK x \in T : u = n - x OBVIOUS
<1>4. ASSUME NEW y \in T PROVE y <= x BY <1>2, <1>3
<1> QED BY <1>4

\* A path is above another when its names are the other's first.
LEMMA Above ==
  ASSUME NEW p \in Path, NEW q \in Path
  PROVE  AtOrUnder(q, p) <=> Len(p) <= Len(q) /\ \A i \in 1..Len(p) : p[i] = q[i]
<1>1. Len(p) \in Nat /\ Len(q) \in Nat BY LenProperties DEF Path
<1>2. SubSeq(p, 1, Len(p)) = p BY SubSeqFull DEF Path
<1>3. ASSUME Len(p) <= Len(q)
      PROVE  /\ SubSeq(q, 1, Len(p)) \in Path /\ Len(SubSeq(q, 1, Len(p))) = Len(p)
             /\ \A i \in 1..Len(p) : SubSeq(q, 1, Len(p))[i] = q[i]
  <2>1. \A i \in 1..Len(p) : q[i] \in STRING BY <1>1, <1>3, ElementOfSeq DEF Path
  <2> QED BY <1>1, <2>1, SubSeqProperties DEF Path
<1>4. ASSUME Len(p) <= Len(q), \A i \in 1..Len(p) : p[i] = q[i] PROVE p = SubSeq(q, 1, Len(p))
  BY <1>3, <1>4, SeqEqual DEF Path
<1> QED BY <1>1, <1>2, <1>3, <1>4 DEF AtOrUnder, IsPrefix

\* AtOrUnder is an order of the paths, a chain above each of them.
LEMMA Order ==
  /\ Root \in Path
  /\ \A p \in Path : AtOrUnder(p, p) /\ AtOrUnder(p, Root) /\ (AtOrUnder(Root, p) => p = Root)
  /\ \A p, q, r \in Path : AtOrUnder(p, q) /\ AtOrUnder(q, r) => AtOrUnder(p, r)
  /\ \A p, q \in Path : AtOrUnder(p, q) /\ AtOrUnder(q, p) => p = q
  /\ \A p, q, r \in Path : AtOrUnder(p, q) /\ AtOrUnder(p, r) => AtOrUnder(q, r) \/ AtOrUnder(r, q)
  /\ \A p, q \in Path : IsStrictPrefix(p, q) <=> AtOrUnder(q, p) /\ p # q
  /\ \A p \in Path : Len(p) \in Nat
  /\ \A p, q \in Path : AtOrUnder(p, q) => Len(q) <= Len(p) /\ (p # q => Len(q) < Len(p))
<1>0. \A p \in Path : Len(p) \in Nat BY LenProperties DEF Path
<1>1. Root \in Path /\ Len(Root) = 0 BY EmptySeq DEF Root, Path
<1>2. \A p \in Path : Len(p) = 0 => p = Root BY <1>0, EmptySeq DEF Root, Path
<1>3. \A p \in Path : AtOrUnder(p, p) /\ AtOrUnder(p, Root) /\ (AtOrUnder(Root, p) => p = Root)
  BY <1>0, <1>1, <1>2, Above
<1>4. ASSUME NEW p \in Path, NEW q \in Path, NEW r \in Path, AtOrUnder(p, q), AtOrUnder(q, r)
      PROVE  AtOrUnder(p, r)
  <2>1. Len(q) <= Len(p) /\ Len(r) <= Len(q) /\ \A i \in 1..Len(r) : r[i] = q[i] BY <1>4, Above
  <2>2. \A i \in 1..Len(r) : i \in 1..Len(q) BY <1>0, <2>1
  <2>3. \A i \in 1..Len(q) : q[i] = p[i] BY <1>4, Above
  <2> QED BY <1>0, <2>1, <2>2, <2>3, Above
<1>5. ASSUME NEW p \in Path, NEW q \in Path, AtOrUnder(p, q), Len(p) <= Len(q) PROVE p = q
  <2>1. Len(p) = Len(q) /\ \A i \in 1..Len(p) : p[i] = q[i] BY <1>0, <1>5, Above
  <2> QED BY <2>1, SeqEqual DEF Path
<1>6. ASSUME NEW p \in Path, NEW q \in Path, AtOrUnder(p, q)
      PROVE  Len(q) <= Len(p) /\ (p # q => Len(q) < Len(p)) /\ (AtOrUnder(q, p) => p = q)
  BY <1>0, <1>5, <1>6, Above
<1>7. ASSUME NEW p \in Path, NEW q \in Path, NEW r \in Path, AtOrUnder(p, q), AtOrUnder(p, r)
      PROVE  AtOrUnder(q, r) \/ AtOrUnder(r, q)
  <2>1. \A i \in 1..Len(q) : q[i] = p[i] BY <1>7, Above
  <2>2. \A i \in 1..Len(r) : r[i] = p[i] BY <1>7, Above
  <2>3. CASE Len(r) <= Len(q)
    <3>1. \A i \in 1..Len(r) : i \in 1..Len(q) BY <1>0, <2>3
    <3> QED BY <2>1, <2>2, <2>3, <3>1, Above
  <2>4. CASE Len(q) <= Len(r)
    <3>1. \A i \in 1..Len(q) : i \in 1..Len(r) BY <1>0, <2>4
    <3> QED BY <2>1, <2>2, <2>4, <3>1, Above
  <2> QED BY <1>0, <2>3, <2>4
<1>8. ASSUME NEW p \in Path, NEW q \in Path PROVE IsStrictPrefix(p, q) <=> AtOrUnder(q, p) /\ p # q
  BY DEF IsStrictPrefix, AtOrUnder
<1> QED BY <1>0, <1>1, <1>3, <1>4, <1>6, <1>7, <1>8

\* Every finite set of paths can be sorted so.
SortedBy(S, s) ==
  /\ s \in SetToSeqs(S)
  /\ \A i, j \in DOMAIN s : i < j => ~IsStrictPrefix(s[j], s[i])

\* One more path can be put in its place.
LEMMA SortsOne ==
  ASSUME NEW T \in SUBSET Path, IsFiniteSet(T), NEW x \in T, \A y \in T : Len(x) <= Len(y),
         NEW r, SortedBy(T \ {x}, r)
  PROVE  \E s : SortedBy(T, s)
<1> DEFINE n == Cardinality(T \ {x})
           s == [i \in 1..(n + 1) |-> IF i = 1 THEN x ELSE r[i - 1]]
<1>1. n \in Nat /\ Cardinality(T) = n + 1
  <2>1. IsFiniteSet(T \ {x}) /\ Cardinality(T \ {x}) = Cardinality(T) - 1 BY FS_RemoveElement
  <2>2. Cardinality(T) \in Nat /\ Cardinality(T \ {x}) \in Nat BY <2>1, FS_CardinalityType
  <2> QED BY <2>1, <2>2
<1>2. r \in [1..n -> T \ {x}] /\ \A i, j \in 1..n : i # j => r[i] # r[j] BY DEF SortedBy, SetToSeqs
<1>3. \A i \in 1..(n + 1) : i # 1 => i - 1 \in 1..n BY <1>1
<1> HIDE DEF n
<1>4. s \in [1..(n + 1) -> T] BY <1>1, <1>2, <1>3
<1>5. \A i, j \in 1..(n + 1) : i # j => s[i] # s[j]
  <2> TAKE i, j \in 1..(n + 1)
  <2>1. CASE i = 1 /\ j # 1 BY <1>2, <1>3, <2>1
  <2>2. CASE j = 1 /\ i # 1 BY <1>2, <1>3, <2>2
  <2>3. CASE i # 1 /\ j # 1 BY <1>1, <1>2, <1>3, <2>3
  <2> QED BY <2>1, <2>2, <2>3
<1>6. \A i, j \in 1..(n + 1) : i < j => ~IsStrictPrefix(s[j], s[i])
  <2> SUFFICES ASSUME NEW i \in 1..(n + 1), NEW j \in 1..(n + 1), i < j
               PROVE  ~IsStrictPrefix(s[j], s[i])
    OBVIOUS
  <2>1. j # 1 /\ j - 1 \in 1..n /\ s[j] = r[j - 1] BY <1>1, <1>3
  <2>2. CASE i = 1
    <3>1. s[i] = x /\ s[j] \in T BY <1>4, <2>2
    <3>2. Len(s[i]) <= Len(s[j]) BY <3>1
    <3> QED BY <3>1, <3>2, Order
  <2>3. CASE i # 1
    <3>1. i - 1 \in 1..n /\ s[i] = r[i - 1] /\ i - 1 < j - 1 BY <1>1, <1>3, <2>1, <2>3
    <3> QED BY <1>2, <2>1, <3>1 DEF SortedBy
  <2> QED BY <2>2, <2>3
<1>7. DOMAIN s = 1..(n + 1) OBVIOUS
<1> HIDE DEF s
<1> QED BY <1>1, <1>4, <1>5, <1>6, <1>7 DEF SortedBy, SetToSeqs

LEMMA CanSort ==
  ASSUME NEW S \in SUBSET Path, IsFiniteSet(S)
  PROVE  \E s : SortedBy(S, s)
<1> DEFINE F == {T \in FiniteSubsetsOf(S) : ~\E s : SortedBy(T, s)}
<1> SUFFICES ASSUME F # {} PROVE FALSE BY DEF FiniteSubsetsOf
<1>1. PICK T \in F : \A U \in F : ~(<<U, T>> \in StrictSubsetOrdering(S))
  <2>1. F \subseteq FiniteSubsetsOf(S) OBVIOUS
  <2> HIDE DEF F
  <2> QED BY <2>1, FS_StrictSubsetOrderingWellFounded, WFMin, Zenon
<1>2. T \in SUBSET S /\ IsFiniteSet(T) BY DEF FiniteSubsetsOf
<1>3. CASE T = {}
  <2>1. Cardinality({}) = 0 BY FS_EmptySet
  <2>2. SortedBy({}, <<>>) BY <2>1 DEF SortedBy, SetToSeqs
  <2> QED BY <1>3, <2>2
<1>4. CASE T # {}
  <2> DEFINE L == {Len(p) : p \in T}
  <2>1. L \in SUBSET Nat /\ L # {}
    <3>1. \A p \in T : Len(p) \in Nat BY <1>2, Order
    <3> QED BY <1>4, <3>1
  <2>2. PICK l \in L : \A m \in L : l <= m
    <3> HIDE DEF L
    <3> QED BY <2>1, Least
  <2>3. PICK x \in T : l = Len(x) OBVIOUS
  <2>4. \A y \in T : Len(x) <= Len(y) BY <2>2, <2>3
  <2>5. T \ {x} \in FiniteSubsetsOf(S) /\ <<T \ {x}, T>> \in StrictSubsetOrdering(S)
    BY <1>2, FS_RemoveElement DEF FiniteSubsetsOf, StrictSubsetOrdering
  <2>6. T \ {x} \notin F BY <1>1, <2>5
  <2>7. PICK r : SortedBy(T \ {x}, r) BY <2>5, <2>6
  <2>8. T \in SUBSET Path BY <1>2
  <2>9. \E s : SortedBy(T, s) BY <1>2, <2>4, <2>7, <2>8, SortsOne
  <2> QED BY <2>9
<1> QED BY <1>3, <1>4

\* ShallowFirst lists each path once, an ancestor before what is below it.
LEMMA Sorting ==
  ASSUME NEW S \in SUBSET Path, IsFiniteSet(S)
  PROVE  /\ ShallowFirst(S) \in Seq(S)
         /\ \A p \in S : \E i \in DOMAIN ShallowFirst(S) : ShallowFirst(S)[i] = p
         /\ \A i, j \in DOMAIN ShallowFirst(S) :
              i # j => ShallowFirst(S)[i] # ShallowFirst(S)[j]
         /\ \A i, j \in DOMAIN ShallowFirst(S) :
              i < j => ~IsStrictPrefix(ShallowFirst(S)[j], ShallowFirst(S)[i])
<1> DEFINE s == ShallowFirst(S)
           n == Cardinality(S)
<1>1. SortedBy(S, s)
  <2>1. \E r \in SetToSeqs(S) : \A i, j \in DOMAIN r : i < j => ~IsStrictPrefix(r[j], r[i])
    BY CanSort DEF SortedBy
  <2> QED BY <2>1 DEF ShallowFirst, SortedBy
<1>2. n \in Nat BY FS_CardinalityType
<1>3. s \in [1..n -> S] /\ \A i, j \in 1..n : i # j => s[i] # s[j] BY <1>1 DEF SortedBy, SetToSeqs
<1>4. IsFiniteSet(1..n) /\ Cardinality(1..n) = n BY <1>2, FS_Interval
<1>5. s \in Injection(1..n, S) BY <1>3 DEF Injection, IsInjective
<1>6. s \in Surjection(1..n, S) BY <1>4, <1>5, FS_Injection
<1>7. \A p \in S : \E i \in 1..n : s[i] = p BY <1>6 DEF Surjection
<1>8. s \in Seq(S) BY <1>2, <1>3
<1> QED BY <1>1, <1>3, <1>7, <1>8 DEF SortedBy

-----------------------------------------------------------------------------
(* The directories persistent mode binds: each that is named, once.        *)

UpTo(i) == {j \in NamedFirst : j <= i}
Rank(i) == Cardinality(UpTo(i))

\* The k-th of a set of positions, as WritableDirs counts them.
LEMMA Ranks ==
  ASSUME Named \in Seq(Path)
  PROVE  /\ IsFiniteSet(NamedFirst) /\ Cardinality(NamedFirst) \in Nat
         /\ \A i \in NamedFirst : Rank(i) \in 1..Cardinality(NamedFirst)
         /\ \A i, j \in NamedFirst : i # j => Rank(i) # Rank(j)
         /\ \A k \in 1..Cardinality(NamedFirst) : \E i \in NamedFirst : Rank(i) = k
<1>1. /\ Len(Named) \in Nat /\ NamedFirst \subseteq 1..Len(Named)
      /\ \A m \in NamedFirst : m \in Nat /\ 1 <= m /\ m <= Len(Named)
  BY LenProperties DEF NamedFirst
<1>2. IsFiniteSet(NamedFirst) /\ Cardinality(NamedFirst) \in Nat
  <2>1. IsFiniteSet(1..Len(Named)) BY <1>1, FS_Interval
  <2> QED BY <1>1, <2>1, FS_Subset, FS_CardinalityType
<1>3. ASSUME NEW i \in Nat
      PROVE  IsFiniteSet(UpTo(i)) /\ Rank(i) \in Nat /\ Rank(i) <= Cardinality(NamedFirst)
  <2>1. UpTo(i) \in SUBSET NamedFirst BY DEF UpTo
  <2>2. IsFiniteSet(UpTo(i)) /\ Cardinality(UpTo(i)) <= Cardinality(NamedFirst)
    BY <1>2, <2>1, FS_Subset
  <2> QED BY <2>2, FS_CardinalityType DEF Rank
<1>4. ASSUME NEW i \in NamedFirst PROVE Rank(i) \in 1..Cardinality(NamedFirst)
  <2>1. i \in Nat BY <1>1
  <2>2. UpTo(i) # {} BY <2>1 DEF UpTo
  <2>3. Rank(i) # 0 BY <2>1, <2>2, <1>3, FS_EmptySet DEF Rank
  <2> QED BY <2>1, <2>3, <1>2, <1>3
<1>5. ASSUME NEW i \in NamedFirst, NEW j \in NamedFirst, i < j PROVE Rank(i) # Rank(j)
  <2>1. i \in Nat /\ j \in Nat BY <1>1
  <2>2. UpTo(i) \subseteq UpTo(j) /\ j \in UpTo(j) /\ j \notin UpTo(i)
    <3>1. \A m \in NamedFirst : m <= i => m <= j BY <1>1, <1>5, <2>1
    <3>2. j <= j /\ ~(j <= i) BY <1>5, <2>1
    <3> QED BY <3>1, <3>2 DEF UpTo
  <2>3. UpTo(i) # UpTo(j) BY <2>2
  <2>4. IsFiniteSet(UpTo(j)) BY <1>3, <2>1
  <2> QED BY <2>2, <2>3, <2>4, FS_Subset DEF Rank
<1>6. ASSUME NEW k \in 1..Cardinality(NamedFirst) PROVE \E i \in NamedFirst : Rank(i) = k
  <2> DEFINE T == {i \in Nat : k <= Rank(i)}
  <2>1. UpTo(Len(Named)) = NamedFirst
    <3>1. \A m \in NamedFirst : m <= Len(Named) BY <1>1
    <3> QED BY <3>1 DEF UpTo
  <2>2. T \in SUBSET Nat /\ T # {} BY <1>1, <1>2, <2>1 DEF Rank
  <2>3. PICK i \in T : \A j \in T : i <= j
    <3> HIDE DEF T
    <3> QED BY <2>2, Least
  <2>4. i \in Nat /\ k <= Rank(i) OBVIOUS
  <2>5. i # 0
    <3>1. \A m \in NamedFirst : ~(m <= 0) BY <1>1
    <3>2. UpTo(0) = {} BY <3>1 DEF UpTo
    <3>3. Rank(0) = 0 BY <3>2, FS_EmptySet DEF Rank
    <3> QED BY <3>3, <2>4, <1>2
  <2>6. i - 1 \in Nat /\ ~(i <= i - 1) BY <2>4, <2>5
  <2>7. i - 1 \notin T BY <2>3, <2>6
  <2>8. Rank(i - 1) < k /\ Rank(i - 1) \in Nat /\ Rank(i) \in Nat
    BY <2>4, <2>6, <2>7, <1>3, <1>2
  <2>9. CASE i \notin NamedFirst
    <3> \A m \in NamedFirst : m <= i <=> m <= i - 1 BY <1>1, <2>4, <2>9
    <3>1. UpTo(i) = UpTo(i - 1) BY DEF UpTo
    <3> QED BY <3>1, <2>4, <2>8, <1>2 DEF Rank
  <2>10. CASE i \in NamedFirst
    <3> \A m \in NamedFirst : m <= i <=> m <= i - 1 \/ m = i BY <1>1, <2>4
    <3>1. UpTo(i) = UpTo(i - 1) \cup {i} BY <2>10 DEF UpTo
    <3>2. i \notin UpTo(i - 1) BY <2>6 DEF UpTo
    <3>3. Rank(i) = Rank(i - 1) + 1 BY <3>1, <3>2, <2>6, <1>3, FS_AddElement DEF Rank
    <3>4. Rank(i) = k BY <3>3, <2>4, <2>8, <1>2
    <3> QED BY <3>4, <2>10
  <2> QED BY <2>9, <2>10
<1>7. \A i, j \in NamedFirst : i # j => Rank(i) # Rank(j)
  <2> TAKE i, j \in NamedFirst
  <2>1. i \in Nat /\ j \in Nat BY <1>1
  <2> QED BY <2>1, <1>5
<1> QED BY <1>2, <1>4, <1>6, <1>7

\* What writableDirsOf lists: each directory once, where it is named first.
LEMMA Deduped ==
  ASSUME Named \in Seq(Path)
  PROVE  /\ WritableDirs \in Seq(Path)
         /\ \A i \in DOMAIN Named : \E k \in DOMAIN WritableDirs : WritableDirs[k] = Named[i]
         /\ \A k \in DOMAIN WritableDirs : \E i \in DOMAIN Named : WritableDirs[k] = Named[i]
         /\ \A k, l \in DOMAIN WritableDirs : k # l => WritableDirs[k] # WritableDirs[l]
<1> DEFINE N == Cardinality(NamedFirst)
           At(k) == CHOOSE i \in NamedFirst : Rank(i) = k
<1>1. DOMAIN Named = 1..Len(Named) /\ Len(Named) \in Nat /\ NamedFirst \subseteq DOMAIN Named
  BY LenProperties DEF NamedFirst
<1>2. N \in Nat /\ WritableDirs = [k \in 1..N |-> Named[At(k)]] BY Ranks DEF WritableDirs, Rank, UpTo
<1>3. \A k \in 1..N : At(k) \in NamedFirst /\ Rank(At(k)) = k BY Ranks
<1>4. \A i \in NamedFirst : Rank(i) \in 1..N /\ At(Rank(i)) = i BY Ranks
<1> HIDE DEF At, N
<1>5. ASSUME NEW i \in DOMAIN Named PROVE \E j \in NamedFirst : Named[j] = Named[i]
  <2> DEFINE T == {j \in DOMAIN Named : Named[j] = Named[i]}
  <2>1. T \in SUBSET Nat /\ T # {} BY <1>1
  <2>2. PICK j \in T : \A m \in T : j <= m
    <3> HIDE DEF T
    <3> QED BY <2>1, Least
  <2>3. \A m \in 1..(j - 1) : m \in DOMAIN Named /\ ~(j <= m) BY <1>1
  <2>4. j \in NamedFirst BY <2>2, <2>3 DEF NamedFirst
  <2> QED BY <2>4
<1>6. \A i, j \in NamedFirst : i # j => Named[i] # Named[j]
  <2> SUFFICES ASSUME NEW i \in NamedFirst, NEW j \in NamedFirst, i < j PROVE Named[i] # Named[j]
    BY <1>1
  <2>1. i \in 1..(j - 1) BY <1>1
  <2> QED BY <2>1 DEF NamedFirst
<1>7. \A i \in DOMAIN Named : Named[i] \in Path BY <1>1, ElementOfSeq
<1>8. WritableDirs \in [1..N -> Path] BY <1>1, <1>2, <1>3, <1>7
<1>9. WritableDirs \in Seq(Path) /\ DOMAIN WritableDirs = 1..N BY <1>2, <1>8
<1>10. ASSUME NEW i \in DOMAIN Named PROVE \E k \in 1..N : WritableDirs[k] = Named[i]
  <2>1. PICK j \in NamedFirst : Named[j] = Named[i] BY <1>5
  <2> QED BY <2>1, <1>2, <1>4
<1>11. \A k \in 1..N : \E i \in DOMAIN Named : WritableDirs[k] = Named[i] BY <1>1, <1>2, <1>3
<1>12. \A k, l \in 1..N : k # l => WritableDirs[k] # WritableDirs[l] BY <1>2, <1>3, <1>6
<1> QED BY <1>9, <1>10, <1>11, <1>12

-----------------------------------------------------------------------------
(* The inductive invariant, in its parts.                                  *)

Kinds == {"host", "rootfs", "overlay", "internal", "fresh", "tmpfs", "null"}
Entries == [at : Path, kind : Kinds, layer : Path, ro : BOOLEAN]
Types == {"fresh", "rbind", "overlay", "internal", "tmpfs", "bind"}

\* What was given and what the host is.
TypeOK ==
  /\ mode \in {"persistent", "ephemeral"} /\ engine \in {"inspect", "universal"}
  /\ dirs \in Layouts /\ input \in Inputs /\ moved \in BOOLEAN
  /\ Root \in DOMAIN host /\ DOMAIN host \subseteq MountPoints \cup {Root}

\* What the input was accepted and planned for.
RootsOK ==
  /\ roots \subseteq Candidates \cap Tree
  /\ mode = "persistent" => roots = {}
PlanOK ==
  phase \notin {"input", "rejected"} =>
    /\ ~InputConflict /\ RootsOK
    /\ mode = "ephemeral" /\ ~moved => roots = OverlayRoots

\* The mounts of config.json, and what became of each host mount in it.
Stack == Mounts(Fresh, "fresh") \o Layers \o InternalMounts \o ScratchBaseLayers

ConfigOK ==
  phase \in {"assembled", "mounting", "running"} =>
    /\ ~ConfigConflict
    /\ config.mounts = Stack /\ config.rootReadonly = ~DisableReadonly
    /\ ~DisableReadonly => \A m \in DOMAIN host \ {Root} :
         m \in late \cup config.readonly \cup Sockets \cup ToSet(Fresh) \cup Writable
    /\ \A p \in config.readonly :
         \/ p \in BaseReadonly
         \/ p \in MountPoints \ Writable /\ (moved \/ p \in DOMAIN host)

\* The last of the mounts before n at or above q decides what q is on.
Laid(q, n, e) ==
  \/ /\ \A i \in 1..(n - 1) : ~AtOrUnder(q, Stack[i].at)
     /\ e = Rebound(Root, q, ~DisableReadonly)
  \/ \E i \in 1..(n - 1) :
       /\ AtOrUnder(q, Stack[i].at) /\ e = MountShows(Stack[i], q)
       /\ \A j \in 1..(n - 1) : i < j => ~AtOrUnder(q, Stack[j].at)

\* That is what it shows, read-only when it was forced to, or masked.
Seen(q, e) ==
  \/ shown[q] = e
  \/ /\ todo.next > Len(Stack)
     /\ \/ \E s \in Sockets \ todo.masked :
             AtOrUnder(q, s) /\ shown[q] = Entry(s, "null", Root, TRUE)
        \/ \E p \in config.readonly : /\ AtOrUnder(q, p) /\ AtOrUnder(p, e.at)
                                      /\ shown[q] = Entry(p, e.kind, e.layer, TRUE)

TodoOK ==
  /\ todo \in [next : Nat, readonly : SUBSET config.readonly, masked : SUBSET Sockets]
  /\ 1 <= todo.next /\ todo.next <= Len(Stack) + 1
  /\ todo.next <= Len(Stack) => todo.readonly = config.readonly
  /\ todo.next <= Len(Stack) \/ todo.readonly # {} => todo.masked = Sockets
  /\ phase = "running" => todo.next > Len(Stack) /\ todo.readonly = {} /\ todo.masked = {}
  /\ \A i \in 1..(todo.next - 1) : Stack[i].type = "rbind" => Stack[i].at \in Tree

ViewOK == \A q \in Places : \E e \in Entries : AtOrUnder(q, e.at) /\ Laid(q, todo.next, e) /\ Seen(q, e)

\* The read-only paths and masks applied so far.
ProtectedOK ==
  /\ \A p \in config.readonly \ todo.readonly, q \in Places : shown[q].at = p => shown[q].ro
  /\ \A s \in Sockets \ todo.masked :
       /\ \A q \in Places : AtOrUnder(shown[q].at, s) => shown[q].kind = "null"
       /\ shown[s].kind = "null" \/ ~Present(s)

IInv ==
  /\ TypeOK /\ PlanOK /\ ConfigOK
  /\ phase \in {"mounting", "running"} => TodoOK /\ ViewOK /\ ProtectedOK

-----------------------------------------------------------------------------
(* Host mounts and the runner's directories.                               *)

LEMMA Typed ==
  ASSUME TypeOK
  PROVE  /\ Tree \subseteq Path /\ IsFiniteSet(Tree) /\ Fixed \subseteq Path /\ Places \subseteq Path
         /\ DOMAIN host \subseteq Tree /\ DOMAIN host \subseteq Path /\ input \in Seq(Path)
         /\ Candidates \subseteq Path /\ Fresh \in Seq(Path)
         /\ ScratchBase \in Path /\ Exec \in Path /\ Rootfs \in Path
         /\ AtOrUnder(Exec, ScratchBase) /\ AtOrUnder(Rootfs, ScratchBase)
<1>1. /\ Tree \subseteq Path /\ IsFiniteSet(Tree) /\ Fixed \subseteq Path /\ Places \subseteq Path
      /\ DOMAIN host \subseteq Tree /\ input \in Seq(Path) /\ Fresh \in Seq(Path)
      /\ ScratchBase \in Path /\ Mine \in Path /\ Exec \in Path /\ Rootfs \in Path /\ Tmp \in Path
  BY PathsAssumption DEF TypeOK, Places
<1>2. dirs.workdir \in Path /\ dirs.home \in Path /\ dirs.runnerTemp \in Path
  BY PathsAssumption DEF TypeOK
<1>3. AtOrUnder(Exec, ScratchBase) /\ AtOrUnder(Rootfs, ScratchBase)
  <2>1. AtOrUnder(Mine, ScratchBase) /\ AtOrUnder(Exec, Mine) /\ AtOrUnder(Rootfs, Mine)
    BY PathsAssumption DEF AtOrUnder
  <2>2. \A p, q, r \in Path : AtOrUnder(p, q) /\ AtOrUnder(q, r) => AtOrUnder(p, r) BY Order
  <2> QED BY <1>1, <2>1, <2>2
<1> QED BY <1>1, <1>2, <1>3 DEF Candidates

\* The host mount a path is on is the deepest at or above it.
LEMMA Holding ==
  ASSUME TypeOK, NEW p \in Path
  PROVE  /\ Holder(p) \in DOMAIN host /\ Holder(p) \in Path /\ AtOrUnder(p, Holder(p))
         /\ \A n \in DOMAIN host : AtOrUnder(p, n) => AtOrUnder(Holder(p), n)
<1> DEFINE A == {n \in DOMAIN host : AtOrUnder(p, n)}
           T == {Len(n) : n \in A}
<1>1. A \subseteq Path /\ Root \in A BY Typed, Order DEF TypeOK
<1>2. T \in SUBSET Nat /\ T # {} /\ (\A l \in T : l <= Len(p)) /\ Len(p) \in Nat
  <2>1. \A n \in A : Len(n) \in Nat /\ Len(n) <= Len(p) BY <1>1, Order
  <2>2. T # {} BY <1>1
  <2>3. T \in SUBSET Nat /\ \A l \in T : l <= Len(p) BY <2>1
  <2>4. Len(p) \in Nat BY Order
  <2> QED BY <2>2, <2>3, <2>4
<1>3. PICK t \in T : \A l \in T : l <= t
  <2> HIDE DEF T
  <2> QED BY <1>2, Greatest
<1>4. PICK m \in A : t = Len(m) OBVIOUS
<1>5. ASSUME NEW n \in A PROVE AtOrUnder(m, n)
  <2>1. Len(n) <= Len(m) BY <1>3, <1>4
  <2>2. AtOrUnder(m, n) \/ AtOrUnder(n, m) BY <1>1, Order
  <2>3. Len(n) \in Nat /\ Len(m) \in Nat BY <1>1, Order
  <2> QED BY <1>1, <2>1, <2>2, <2>3, Order
<1>6. \E h \in DOMAIN host : AtOrUnder(p, h) /\ \A n \in DOMAIN host : AtOrUnder(p, n) => AtOrUnder(h, n)
  BY <1>4, <1>5
<1>7. Holder(p) \in DOMAIN host /\ AtOrUnder(p, Holder(p))
      /\ \A n \in DOMAIN host : AtOrUnder(p, n) => AtOrUnder(Holder(p), n)
  BY <1>6 DEF Holder
<1> QED BY <1>7, Typed

\* Between a path and the mount it is on everything is on that mount.
LEMMA SameHolder ==
  ASSUME TypeOK, NEW p \in Path, NEW a \in Path, AtOrUnder(p, a)
  PROVE  /\ ~IsStrictPrefix(a, Holder(p)) => Holder(a) = Holder(p)
         /\ AtOrUnder(a, Holder(p)) => Holder(a) = Holder(p)
<1>1. Holder(p) \in Path /\ AtOrUnder(p, Holder(p)) /\ Holder(a) \in Path /\ AtOrUnder(a, Holder(a)) BY Holding
<1>2. AtOrUnder(p, Holder(a)) BY <1>1, Order
<1>3. AtOrUnder(Holder(p), Holder(a)) BY <1>2, Holding
<1>4. ASSUME AtOrUnder(a, Holder(p)) PROVE Holder(a) = Holder(p)
  <2>1. AtOrUnder(Holder(a), Holder(p)) BY <1>4, Holding
  <2> QED BY <1>1, <1>3, <2>1, Order
<1>5. ASSUME ~IsStrictPrefix(a, Holder(p)) PROVE AtOrUnder(a, Holder(p))
  BY <1>1, <1>5, Order
<1> QED BY <1>4, <1>5

-----------------------------------------------------------------------------
(* What config.json mounts, and in which order.                            *)

MountType == [at : Path, type : Types]

LEMMA MountsOf ==
  ASSUME NEW s \in Seq(Path), NEW t \in Types
  PROVE  /\ Mounts(s, t) \in Seq(MountType) /\ DOMAIN Mounts(s, t) = DOMAIN s
         /\ \A i \in DOMAIN s : Mounts(s, t)[i] = Mount(s[i], t)
<1>1. Len(s) \in Nat /\ DOMAIN s = 1..Len(s) /\ \A i \in 1..Len(s) : s[i] \in Path
  BY LenProperties, ElementOfSeq
<1>2. Mounts(s, t) \in [1..Len(s) -> MountType] BY <1>1 DEF Mounts, Mount, MountType
<1>3. Mounts(s, t) \in Seq(MountType) BY <1>1, <1>2
<1> QED BY <1>1, <1>3 DEF Mounts

LEMMA InSeq ==
  ASSUME NEW S, NEW s \in Seq(S)
  PROVE  /\ \A i \in DOMAIN s : s[i] \in S
         /\ \A x \in ToSet(s) : x \in S /\ \E i \in DOMAIN s : s[i] = x
         /\ \A i \in DOMAIN s : s[i] \in ToSet(s)
         /\ \A x : Contains(s, x) <=> x \in ToSet(s)
         /\ IsFiniteSet(ToSet(s))
<1>1. Len(s) \in Nat /\ DOMAIN s = 1..Len(s) /\ \A i \in 1..Len(s) : s[i] \in S
  BY LenProperties, ElementOfSeq
<1>2. \A x \in ToSet(s) : \E i \in DOMAIN s : s[i] = x BY DEF ToSet
<1>3. \A i \in DOMAIN s : s[i] \in ToSet(s) BY DEF ToSet
<1>4. s \in [1..Len(s) -> S] BY LenProperties
<1>5. s \in [1..Len(s) -> ToSet(s)] BY <1>1, <1>3, <1>4
<1>6. s \in Surjection(1..Len(s), ToSet(s)) BY <1>1, <1>2, <1>5 DEF Surjection
<1>7. IsFiniteSet(1..Len(s)) BY <1>1, FS_Interval
<1>8. IsFiniteSet(ToSet(s)) BY <1>6, <1>7, FS_Surjection
<1> QED BY <1>1, <1>2, <1>3, <1>8 DEF Contains

\* Where the elements of s \o t are.
LEMMA Joined ==
  ASSUME NEW S, NEW s \in Seq(S), NEW t \in Seq(S)
  PROVE  /\ s \o t \in Seq(S) /\ Len(s \o t) = Len(s) + Len(t) /\ Len(s) \in Nat /\ Len(t) \in Nat
         /\ \A i \in 1..Len(s) : (s \o t)[i] = s[i]
         /\ \A i \in 1..Len(t) : (s \o t)[Len(s) + i] = t[i]
<1>1. Len(s) \in Nat /\ Len(t) \in Nat BY LenProperties
<1>2. /\ s \o t \in Seq(S) /\ Len(s \o t) = Len(s) + Len(t)
      /\ \A i \in 1..(Len(s) + Len(t)) : (s \o t)[i] = IF i <= Len(s) THEN s[i] ELSE t[i - Len(s)]
  BY ConcatProperties
<1>3. \A i \in 1..Len(s) : (s \o t)[i] = s[i]
  <2> TAKE i \in 1..Len(s)
  <2>1. i \in 1..(Len(s) + Len(t)) /\ i <= Len(s) BY <1>1
  <2> QED BY <2>1, <1>2
<1>4. \A i \in 1..Len(t) : (s \o t)[Len(s) + i] = t[i]
  <2> TAKE i \in 1..Len(t)
  <2>1. Len(s) + i \in 1..(Len(s) + Len(t)) /\ ~(Len(s) + i <= Len(s)) /\ (Len(s) + i) - Len(s) = i BY <1>1
  <2> QED BY <2>1, <1>2
<1> QED BY <1>1, <1>2, <1>3, <1>4

\* Persistent mode binds what is named, each once.
LEMMA PersistentBinds ==
  ASSUME TypeOK, mode = "persistent"
  PROVE  /\ WritableDirs \in Seq(Path)
         /\ Layers = IF DisableReadonly THEN <<>> ELSE Mounts(WritableDirs, "rbind")
         /\ Bound = ToSet(WritableDirs)
         /\ Candidates \cup ToSet(input) \subseteq Bound
         /\ \A k, l \in DOMAIN WritableDirs : k # l => WritableDirs[k] # WritableDirs[l]
<1> DEFINE own == <<dirs.workdir, dirs.home, Tmp, dirs.runnerTemp>>
<1>1. own \in Seq(Path) /\ Len(own) = 4
  <2>1. dirs.workdir \in Candidates /\ dirs.home \in Candidates /\ Tmp \in Candidates
        /\ dirs.runnerTemp \in Candidates
    BY DEF Candidates
  <2>2. dirs.workdir \in Path /\ dirs.home \in Path /\ Tmp \in Path /\ dirs.runnerTemp \in Path BY <2>1, Typed
  <2> QED BY <2>2
<1>2. Named = own \o input BY DEF Named
<1>3. input \in Seq(Path) BY Typed
<1>4. own[1] = dirs.workdir /\ own[2] = dirs.home /\ own[3] = Tmp /\ own[4] = dirs.runnerTemp OBVIOUS
<1> HIDE DEF own
<1>5. /\ Named \in Seq(Path) /\ Len(Named) = 4 + Len(input) /\ Len(input) \in Nat
      /\ \A i \in 1..4 : Named[i] = own[i]
      /\ \A i \in 1..Len(input) : Named[4 + i] = input[i]
  <2>1. /\ own \o input \in Seq(Path) /\ Len(own \o input) = Len(own) + Len(input) /\ Len(input) \in Nat
        /\ \A i \in 1..Len(own) : (own \o input)[i] = own[i]
        /\ \A i \in 1..Len(input) : (own \o input)[Len(own) + i] = input[i]
    <3>1. \A s, t \in Seq(Path) :
             /\ s \o t \in Seq(Path) /\ Len(s \o t) = Len(s) + Len(t) /\ Len(t) \in Nat
             /\ \A i \in 1..Len(s) : (s \o t)[i] = s[i]
             /\ \A i \in 1..Len(t) : (s \o t)[Len(s) + i] = t[i]
      BY Joined
    <3> QED BY <1>1, <1>3, <3>1
  <2> QED BY <1>1, <1>2, <2>1
<1>6. DOMAIN Named = 1..(4 + Len(input)) BY <1>5, LenProperties
<1>7. /\ WritableDirs \in Seq(Path)
      /\ \A i \in DOMAIN Named : \E k \in DOMAIN WritableDirs : WritableDirs[k] = Named[i]
      /\ \A k, l \in DOMAIN WritableDirs : k # l => WritableDirs[k] # WritableDirs[l]
  BY <1>5, Deduped
<1>8. \A i \in DOMAIN Named : Named[i] \in ToSet(WritableDirs) BY <1>7 DEF ToSet
<1>9. Candidates \subseteq ToSet(WritableDirs)
  <2>1. 1 \in DOMAIN Named /\ 2 \in DOMAIN Named /\ 3 \in DOMAIN Named /\ 4 \in DOMAIN Named BY <1>5, <1>6
  <2>2. Named[1] = dirs.workdir /\ Named[2] = dirs.home /\ Named[3] = Tmp /\ Named[4] = dirs.runnerTemp
    BY <1>4, <1>5
  <2> QED BY <1>8, <2>1, <2>2 DEF Candidates
<1>10. ToSet(input) \subseteq ToSet(WritableDirs)
  <2> SUFFICES ASSUME NEW x \in ToSet(input) PROVE x \in ToSet(WritableDirs) OBVIOUS
  <2>1. PICK i \in DOMAIN input : input[i] = x BY <1>3, InSeq
  <2>2. i \in 1..Len(input) BY <1>3, LenProperties
  <2>3. 4 + i \in DOMAIN Named BY <2>2, <1>5, <1>6
  <2> QED BY <2>1, <2>2, <2>3, <1>5, <1>8
<1>11. /\ Layers = IF DisableReadonly THEN <<>> ELSE Mounts(WritableDirs, "rbind")
       /\ Bound = ToSet(WritableDirs)
  BY DEF Layers, PersistentLayers, Bound
<1> QED BY <1>7, <1>9, <1>10, <1>11

LEMMA SetsMounted ==
  ASSUME TypeOK, RootsOK
  PROVE  /\ roots \subseteq Path /\ IsFiniteSet(roots)
         /\ ToSet(input) \subseteq Path /\ IsFiniteSet(ToSet(input))
<1>1. roots \subseteq Tree BY DEF RootsOK
<1>2. roots \subseteq Path /\ IsFiniteSet(roots) BY <1>1, Typed, FS_Subset
<1>3. input \in Seq(Path) BY Typed
<1> QED BY <1>2, <1>3, InSeq

\* Ephemeral mode binds the write_through entries over the overlays, the ones
\* above before the ones below.
LEMMA EphemeralMounts ==
  ASSUME TypeOK, RootsOK, mode = "ephemeral"
  PROVE  LET O == ShallowFirst(roots)
             B == ShallowFirst(ToSet(input))
         IN  /\ Layers = Mounts(O, "overlay") \o Mounts(B, "rbind")
             /\ O \in Seq(Path) /\ B \in Seq(Path) /\ Bound = ToSet(input)
             /\ ToSet(O) = roots /\ ToSet(B) = Bound
             /\ \A i, j \in DOMAIN O : i < j => ~IsStrictPrefix(O[j], O[i])
             /\ \A i, j \in DOMAIN B : i < j => ~IsStrictPrefix(B[j], B[i])
<1> DEFINE O == ShallowFirst(roots)
           B == ShallowFirst(ToSet(input))
<1>1. /\ O \in Seq(roots) /\ \A p \in roots : \E i \in DOMAIN O : O[i] = p
      /\ \A i, j \in DOMAIN O : i < j => ~IsStrictPrefix(O[j], O[i])
  BY SetsMounted, Sorting
<1>2. /\ B \in Seq(ToSet(input)) /\ \A p \in ToSet(input) : \E i \in DOMAIN B : B[i] = p
      /\ \A i, j \in DOMAIN B : i < j => ~IsStrictPrefix(B[j], B[i])
  BY SetsMounted, Sorting
<1>3. Layers = Mounts(O, "overlay") \o Mounts(B, "rbind") /\ Bound = ToSet(input)
  BY DEF Layers, EphemeralLayers, Bound
<1> HIDE DEF O, B
<1>4. ASSUME NEW s, NEW S \in SUBSET Path, s \in Seq(S), \A p \in S : \E i \in DOMAIN s : s[i] = p
      PROVE  s \in Seq(Path) /\ ToSet(s) = S
  <2>1. Len(s) \in Nat /\ DOMAIN s = 1..Len(s) /\ s \in [1..Len(s) -> S] BY <1>4, LenProperties
  <2>2. s \in [1..Len(s) -> Path] BY <2>1
  <2>3. s \in Seq(Path) BY <2>1, <2>2
  <2>4. ToSet(s) \subseteq S BY <1>4, InSeq
  <2>5. S \subseteq ToSet(s) BY <1>4 DEF ToSet
  <2> QED BY <2>3, <2>4, <2>5
<1>5. O \in Seq(Path) /\ ToSet(O) = roots BY <1>1, <1>4, SetsMounted
<1>6. B \in Seq(Path) /\ ToSet(B) = ToSet(input) BY <1>2, <1>4, SetsMounted
<1> QED BY <1>1, <1>2, <1>3, <1>5, <1>6 DEF O, B

LEMMA LayersAre ==
  ASSUME TypeOK, RootsOK
  PROVE  /\ Layers \in Seq(MountType) /\ Bound \subseteq Path
         /\ \A k \in DOMAIN Layers :
              \/ Layers[k].type = "rbind" /\ Layers[k].at \in Bound /\ ~DisableReadonly
              \/ Layers[k].type = "overlay" /\ Layers[k].at \in roots
         /\ ~DisableReadonly => \A b \in Bound : \E k \in DOMAIN Layers : Layers[k] = Mount(b, "rbind")
         /\ \A r \in roots : \E k \in DOMAIN Layers : Layers[k] = Mount(r, "overlay")
         /\ mode = "ephemeral" =>
              \A k, l \in DOMAIN Layers : k < l =>
                /\ Layers[k].type = "rbind" => Layers[l].type = "rbind"
                /\ Layers[k].type = Layers[l].type => ~IsStrictPrefix(Layers[l].at, Layers[k].at)
<1>1. CASE mode = "persistent"
  <2> DEFINE W == WritableDirs
  <2>1. /\ W \in Seq(Path) /\ Bound = ToSet(W)
        /\ Layers = IF DisableReadonly THEN <<>> ELSE Mounts(W, "rbind")
    BY <1>1, PersistentBinds
  <2>2. /\ Mounts(W, "rbind") \in Seq(MountType) /\ DOMAIN Mounts(W, "rbind") = DOMAIN W
        /\ \A i \in DOMAIN W : Mounts(W, "rbind")[i] = Mount(W[i], "rbind")
    BY <2>1, MountsOf DEF Types
  <2> HIDE DEF W
  <2>3. /\ \A i \in DOMAIN W : W[i] \in Path /\ W[i] \in ToSet(W)
        /\ \A x \in ToSet(W) : x \in Path /\ \E i \in DOMAIN W : W[i] = x
    BY <2>1, InSeq
  <2>4. roots = {} /\ mode # "ephemeral" BY <1>1 DEF RootsOK
  <2>5. CASE DisableReadonly
    <3>1. Layers = <<>> /\ DOMAIN Layers = {} /\ <<>> \in Seq(MountType) BY <2>1, <2>5, EmptySeq
    <3> QED BY <2>1, <2>3, <2>4, <2>5, <3>1
  <2>6. CASE ~DisableReadonly
    <3>1. Layers = Mounts(W, "rbind") BY <2>1, <2>6
    <3>2. \A i \in DOMAIN W : Layers[i] = Mount(W[i], "rbind") /\ Layers[i].type = "rbind" /\ Layers[i].at = W[i]
      BY <2>2, <3>1 DEF Mount
    <3> QED BY <2>1, <2>2, <2>3, <2>4, <2>6, <3>1, <3>2
  <2> QED BY <2>5, <2>6
<1>2. CASE mode = "ephemeral"
  <2> DEFINE O == ShallowFirst(roots)
             B == ShallowFirst(ToSet(input))
             MO == Mounts(O, "overlay")
             MB == Mounts(B, "rbind")
  <2>1. /\ Layers = MO \o MB
        /\ O \in Seq(Path) /\ B \in Seq(Path) /\ Bound = ToSet(input)
        /\ ToSet(O) = roots /\ ToSet(B) = Bound
        /\ \A i, j \in DOMAIN O : i < j => ~IsStrictPrefix(O[j], O[i])
        /\ \A i, j \in DOMAIN B : i < j => ~IsStrictPrefix(B[j], B[i])
    BY <1>2, EphemeralMounts
  <2> HIDE DEF O, B
  <2>2. /\ MO \in Seq(MountType) /\ DOMAIN MO = DOMAIN O
        /\ \A i \in DOMAIN O : MO[i] = Mount(O[i], "overlay")
    BY <2>1, MountsOf DEF Types
  <2>3. /\ MB \in Seq(MountType) /\ DOMAIN MB = DOMAIN B
        /\ \A i \in DOMAIN B : MB[i] = Mount(B[i], "rbind")
    BY <2>1, MountsOf DEF Types
  <2> HIDE DEF MO, MB
  <2>4. /\ Layers \in Seq(MountType) /\ Len(Layers) = Len(MO) + Len(MB) /\ Len(MO) \in Nat /\ Len(MB) \in Nat
        /\ \A i \in 1..Len(MO) : Layers[i] = MO[i]
        /\ \A i \in 1..Len(MB) : Layers[Len(MO) + i] = MB[i]
    <3>1. \A s, t \in Seq(MountType) :
             /\ s \o t \in Seq(MountType) /\ Len(s \o t) = Len(s) + Len(t) /\ Len(s) \in Nat /\ Len(t) \in Nat
             /\ \A i \in 1..Len(s) : (s \o t)[i] = s[i]
             /\ \A i \in 1..Len(t) : (s \o t)[Len(s) + i] = t[i]
      BY Joined
    <3> QED BY <2>1, <2>2, <2>3, <3>1
  <2>5. DOMAIN O = 1..Len(MO) /\ DOMAIN B = 1..Len(MB) /\ DOMAIN Layers = 1..(Len(MO) + Len(MB))
    BY <2>2, <2>3, <2>4, LenProperties
  <2>6. /\ \A i \in DOMAIN O : O[i] \in roots
        /\ \A x \in roots : \E i \in DOMAIN O : O[i] = x
    BY <2>1, InSeq
  <2>7. /\ \A i \in DOMAIN B : B[i] \in Bound
        /\ \A x \in Bound : \E i \in DOMAIN B : B[i] = x
    BY <2>1, InSeq
  <2>8. \A i \in 1..Len(MO) : i \in DOMAIN Layers /\ Layers[i] = Mount(O[i], "overlay")
                              /\ Layers[i].type = "overlay" /\ Layers[i].at = O[i]
    BY <2>2, <2>4, <2>5 DEF Mount
  <2>9. \A i \in 1..Len(MB) : Len(MO) + i \in DOMAIN Layers /\ Layers[Len(MO) + i] = Mount(B[i], "rbind")
                 /\ Layers[Len(MO) + i].type = "rbind" /\ Layers[Len(MO) + i].at = B[i]
    BY <2>3, <2>4, <2>5 DEF Mount
  <2>10. \A k \in DOMAIN Layers : k \in 1..Len(MO) \/ \E i \in 1..Len(MB) : k = Len(MO) + i
    <3> TAKE k \in DOMAIN Layers
    <3>1. k \in 1..Len(MO) \/ (k - Len(MO) \in 1..Len(MB) /\ k = Len(MO) + (k - Len(MO))) BY <2>4, <2>5
    <3> QED BY <3>1
  <2>11. ~DisableReadonly BY <1>2 DEF DisableReadonly
  <2>12. \A k \in DOMAIN Layers :
              \/ Layers[k].type = "rbind" /\ Layers[k].at \in Bound /\ ~DisableReadonly
              \/ Layers[k].type = "overlay" /\ Layers[k].at \in roots
    BY <2>5, <2>6, <2>7, <2>8, <2>9, <2>10, <2>11
  <2>13. \A b \in Bound : \E k \in DOMAIN Layers : Layers[k] = Mount(b, "rbind") BY <2>5, <2>7, <2>9
  <2>14. \A r \in roots : \E k \in DOMAIN Layers : Layers[k] = Mount(r, "overlay") BY <2>5, <2>6, <2>8
  <2>15. ASSUME NEW k \in DOMAIN Layers, NEW l \in DOMAIN Layers, k < l
         PROVE  /\ Layers[k].type = "rbind" => Layers[l].type = "rbind"
                /\ Layers[k].type = Layers[l].type => ~IsStrictPrefix(Layers[l].at, Layers[k].at)
    <3>1. CASE l \in 1..Len(MO)
      <4>1. k \in 1..Len(MO) BY <3>1, <2>15, <2>4, <2>5
      <4> QED BY <4>1, <3>1, <2>1, <2>5, <2>8, <2>15
    <3>2. CASE l \notin 1..Len(MO)
      <4>1. PICK j \in 1..Len(MB) : l = Len(MO) + j BY <3>2, <2>10
      <4>2. CASE k \in 1..Len(MO) BY <4>1, <4>2, <2>8, <2>9
      <4>3. CASE k \notin 1..Len(MO)
        <5>1. PICK i \in 1..Len(MB) : k = Len(MO) + i BY <4>3, <2>10
        <5>2. i < j BY <4>1, <5>1, <2>15, <2>4
        <5> QED BY <4>1, <5>1, <5>2, <2>1, <2>5, <2>9
      <4> QED BY <4>2, <4>3
    <3> QED BY <3>1, <3>2
  <2>16. Bound \subseteq Path BY <2>1, SetsMounted
  <2> QED BY <2>4, <2>12, <2>13, <2>14, <2>15, <2>16
<1> QED BY <1>1, <1>2 DEF TypeOK

LEMMA InternalsAre ==
  ASSUME TypeOK
  PROVE  /\ InternalMounts \in Seq(MountType)
         /\ \A k \in DOMAIN InternalMounts : InternalMounts[k].type = "internal" /\ InternalMounts[k].at \in Reserved
<1> DEFINE a == Mount(Resolv, "internal")
           b == Mount(OwnCa, "internal")
           c == Mount(CaStore, "internal")
<1>1. Resolv \in Path /\ OwnCa \in Path /\ CaStore \in Path BY Typed DEF Fixed, Reserved
<1> DEFINE S == {m \in MountType : m.type = "internal" /\ m.at \in Reserved}
<1>2. a \in S /\ b \in S /\ c \in S BY <1>1 DEF Mount, MountType, Types, Reserved
<1> HIDE DEF a, b, c, S
<1>3. <<a>> \in Seq(S) /\ <<b>> \in Seq(S) /\ <<c>> \in Seq(S) /\ <<>> \in Seq(S) BY <1>2
<1>4. \A s, t \in Seq(S) : s \o t \in Seq(S) BY ConcatProperties
<1>5. <<b>> \o (IF CaStore \in Tree THEN <<c>> ELSE <<>>) \in Seq(S) BY <1>3, <1>4
<1>6. InternalMounts = <<a>> \o (IF engine # "inspect" THEN <<>>
                                 ELSE <<b>> \o (IF CaStore \in Tree THEN <<c>> ELSE <<>>))
  BY DEF InternalMounts, a, b, c
<1>7. InternalMounts \in Seq(S) BY <1>3, <1>4, <1>5, <1>6
<1>8. /\ Len(InternalMounts) \in Nat /\ DOMAIN InternalMounts = 1..Len(InternalMounts)
      /\ InternalMounts \in [1..Len(InternalMounts) -> S]
  BY <1>7, LenProperties
<1>9. \A k \in DOMAIN InternalMounts : InternalMounts[k] \in S BY <1>8
<1>10. InternalMounts \in [1..Len(InternalMounts) -> MountType] BY <1>8 DEF S
<1>11. InternalMounts \in Seq(MountType) BY <1>8, <1>10
<1> QED BY <1>9, <1>11 DEF S

\* What a mount shows.
LEMMA Rebinding ==
  ASSUME TypeOK, NEW p \in Path, NEW q \in Path, AtOrUnder(q, p), NEW ro \in BOOLEAN
  PROVE  /\ Rebound(p, q, ro) \in Entries /\ AtOrUnder(q, Rebound(p, q, ro).at)
         /\ Rebound(p, q, ro).kind = "host"
         /\ Rebound(p, q, ro).layer = Holder(q)
         /\ \/ Rebound(p, q, ro).at = p /\ Rebound(p, q, ro).ro = ro /\ ~IsStrictPrefix(p, Holder(q))
            \/ Rebound(p, q, ro).at = Holder(q) /\ IsStrictPrefix(p, Holder(q))
               /\ ~Rebound(p, q, ro).ro
<1>1. Holder(q) \in Path /\ AtOrUnder(q, Holder(q)) /\ Holder(p) \in Path BY Holding
<1>2. ~IsStrictPrefix(p, Holder(q)) => Holder(p) = Holder(q) BY SameHolder
<1> QED BY <1>1, <1>2 DEF Rebound, Entry, Entries, Kinds

LEMMA Showing ==
  ASSUME TypeOK, NEW m \in MountType, NEW q \in Path, AtOrUnder(q, m.at)
  PROVE  /\ MountShows(m, q) \in Entries /\ AtOrUnder(q, MountShows(m, q).at)
         /\ m.type \in {"fresh", "internal", "tmpfs"} =>
              MountShows(m, q) = Entry(m.at, m.type, Root, m.type # "fresh")
         /\ m.type = "bind" => MountShows(m, q) = Entry(m.at, "host", Holder(m.at), TRUE)
         /\ m.type = "overlay" => MountShows(m, q) = Entry(m.at, "overlay", Holder(m.at), FALSE)
         /\ m.type = "rbind" /\ ~AtOrUnder(Rootfs, m.at) =>
              MountShows(m, q) = Rebound(m.at, q, FALSE)
<1>1. m.at \in Path /\ m.type \in Types BY DEF MountType
<1>2. Root \in Path /\ Rootfs \in Path BY Typed, Order
<1>3. Holder(m.at) \in Path BY <1>1, Holding
<1>4. CASE m.type \in {"fresh", "internal", "tmpfs"}
  <2>1. MountShows(m, q) = Entry(m.at, m.type, Root, m.type # "fresh") BY <1>4 DEF MountShows
  <2>2. m.type \in Kinds /\ (m.type # "fresh") \in BOOLEAN BY <1>4 DEF Kinds
  <2>3. MountShows(m, q) \in Entries /\ MountShows(m, q).at = m.at
    BY <1>1, <1>2, <2>1, <2>2 DEF Entry, Entries
  <2> QED BY <1>4, <2>1, <2>3
<1>5. CASE m.type = "bind"
  <2>1. MountShows(m, q) = Entry(m.at, "host", Holder(m.at), TRUE) BY <1>5 DEF MountShows
  <2> QED BY <1>1, <1>3, <1>5, <2>1 DEF Entry, Entries, Kinds
<1>6. CASE m.type = "overlay"
  <2>1. MountShows(m, q) = Entry(m.at, "overlay", Holder(m.at), FALSE) BY <1>6 DEF MountShows
  <2> QED BY <1>1, <1>3, <1>6, <2>1 DEF Entry, Entries, Kinds
<1>7. CASE m.type = "rbind"
  <2>1. CASE AtOrUnder(Rootfs, m.at) /\ AtOrUnder(q, Rootfs)
    <3>1. MountShows(m, q) = Entry(Rootfs, "rootfs", Root, FALSE) BY <1>7, <2>1 DEF MountShows
    <3> QED BY <1>2, <1>7, <2>1, <3>1 DEF Entry, Entries, Kinds
  <2>2. CASE ~(AtOrUnder(Rootfs, m.at) /\ AtOrUnder(q, Rootfs))
    <3>1. MountShows(m, q) = Rebound(m.at, q, FALSE) BY <1>7, <2>2 DEF MountShows
    <3> QED BY <1>1, <1>7, <3>1, Rebinding
  <2> QED BY <2>1, <2>2
<1> QED BY <1>1, <1>4, <1>5, <1>6, <1>7 DEF Types

\* The parts of the list of mounts and where they are in it.
LEMMA StackIs ==
  ASSUME TypeOK, RootsOK
  PROVE  LET F == Len(Fresh)
             L == Len(Layers)
             I == Len(InternalMounts)
         IN  /\ Stack \in Seq(MountType) /\ Len(Stack) = F + L + I + 2
             /\ F \in Nat /\ L \in Nat /\ I \in Nat
             /\ \A i \in 1..F : Stack[i] = Mount(Fresh[i], "fresh")
             /\ \A i \in 1..L : Stack[F + i] = Layers[i]
             /\ \A i \in 1..I : Stack[F + L + i] = InternalMounts[i]
             /\ Stack[F + L + I + 1] = Mount(ScratchBase, "tmpfs")
             /\ Stack[F + L + I + 2] = Mount(Exec, "bind")
<1> DEFINE MF == Mounts(Fresh, "fresh")
           A == MF \o Layers
           B == A \o InternalMounts
<1>1. \A s, t \in Seq(MountType) :
         /\ s \o t \in Seq(MountType) /\ Len(s \o t) = Len(s) + Len(t) /\ Len(s) \in Nat /\ Len(t) \in Nat
         /\ \A i \in 1..Len(s) : (s \o t)[i] = s[i]
         /\ \A i \in 1..Len(t) : (s \o t)[Len(s) + i] = t[i]
  BY Joined
<1>2. /\ MF \in Seq(MountType) /\ DOMAIN MF = DOMAIN Fresh
      /\ \A i \in DOMAIN Fresh : MF[i] = Mount(Fresh[i], "fresh")
  BY Typed, MountsOf DEF Types
<1> HIDE DEF MF
<1>3. Len(MF) = Len(Fresh) /\ DOMAIN Fresh = 1..Len(Fresh) /\ Len(Fresh) \in Nat
  BY <1>2, Typed, LenProperties
<1>4. Layers \in Seq(MountType) /\ InternalMounts \in Seq(MountType) BY LayersAre, InternalsAre
<1>5. /\ A \in Seq(MountType) /\ Len(A) = Len(Fresh) + Len(Layers) /\ Len(Layers) \in Nat
      /\ \A i \in 1..Len(Fresh) : A[i] = MF[i]
      /\ \A i \in 1..Len(Layers) : A[Len(Fresh) + i] = Layers[i]
  <2>1. /\ MF \o Layers \in Seq(MountType) /\ Len(MF \o Layers) = Len(MF) + Len(Layers) /\ Len(Layers) \in Nat
        /\ \A i \in 1..Len(MF) : (MF \o Layers)[i] = MF[i]
        /\ \A i \in 1..Len(Layers) : (MF \o Layers)[Len(MF) + i] = Layers[i]
    <3> HIDE DEF A
    <3> QED BY <1>1, <1>2, <1>4
  <2> QED BY <1>3, <2>1
<1> HIDE DEF A
<1>6. /\ B \in Seq(MountType) /\ Len(B) = Len(A) + Len(InternalMounts) /\ Len(InternalMounts) \in Nat
      /\ \A i \in 1..Len(A) : B[i] = A[i]
      /\ \A i \in 1..Len(InternalMounts) : B[Len(A) + i] = InternalMounts[i]
  BY <1>1, <1>4, <1>5
<1> HIDE DEF B
<1>7. /\ ScratchBaseLayers \in Seq(MountType) /\ Len(ScratchBaseLayers) = 2
      /\ ScratchBaseLayers[1] = Mount(ScratchBase, "tmpfs") /\ ScratchBaseLayers[2] = Mount(Exec, "bind")
  <2>1. Mount(ScratchBase, "tmpfs") \in MountType /\ Mount(Exec, "bind") \in MountType
    BY Typed DEF Mount, MountType, Types
  <2> QED BY <2>1 DEF ScratchBaseLayers
<1>8. Stack = B \o ScratchBaseLayers BY DEF Stack, A, B, MF
<1>9. /\ Stack \in Seq(MountType) /\ Len(Stack) = Len(B) + 2
      /\ \A i \in 1..Len(B) : Stack[i] = B[i]
      /\ \A i \in 1..2 : Stack[Len(B) + i] = ScratchBaseLayers[i]
  <2>1. \A t \in Seq(MountType) :
         /\ B \o t \in Seq(MountType) /\ Len(B \o t) = Len(B) + Len(t)
         /\ \A i \in 1..Len(B) : (B \o t)[i] = B[i]
         /\ \A i \in 1..Len(t) : (B \o t)[Len(B) + i] = t[i]
    BY <1>1, <1>6
  <2> QED BY <1>7, <1>8, <2>1
<1>10. Len(B) = Len(Fresh) + Len(Layers) + Len(InternalMounts) BY <1>5, <1>6
<1>11. \A i \in 1..Len(Fresh) : Stack[i] = Mount(Fresh[i], "fresh")
  <2> TAKE i \in 1..Len(Fresh)
  <2>1. i \in 1..Len(A) /\ i \in 1..Len(B) BY <1>3, <1>5, <1>6
  <2> QED BY <2>1, <1>2, <1>3, <1>5, <1>6, <1>9
<1>12. \A i \in 1..Len(Layers) : Stack[Len(Fresh) + i] = Layers[i]
  <2> TAKE i \in 1..Len(Layers)
  <2>1. Len(Fresh) + i \in 1..Len(A) /\ Len(Fresh) + i \in 1..Len(B) BY <1>3, <1>5, <1>6
  <2> QED BY <2>1, <1>5, <1>6, <1>9
<1>13. \A i \in 1..Len(InternalMounts) : Stack[Len(Fresh) + Len(Layers) + i] = InternalMounts[i]
  <2> TAKE i \in 1..Len(InternalMounts)
  <2>1. Len(A) + i \in 1..Len(B) /\ Len(A) + i = Len(Fresh) + Len(Layers) + i BY <1>3, <1>5, <1>6
  <2> QED BY <2>1, <1>6, <1>9
<1>14. Stack[Len(B) + 1] = Mount(ScratchBase, "tmpfs") /\ Stack[Len(B) + 2] = Mount(Exec, "bind")
  BY <1>7, <1>9
<1> QED BY <1>3, <1>5, <1>6, <1>9, <1>10, <1>11, <1>12, <1>13, <1>14

\* The kinds of mount that can be the last one over q, the last ones first.
OnScratch(q, e) ==
  \/ AtOrUnder(q, Exec) /\ e = Entry(Exec, "host", Holder(Exec), TRUE)
  \/ ~AtOrUnder(q, Exec) /\ AtOrUnder(q, ScratchBase) /\ e = Entry(ScratchBase, "tmpfs", Root, TRUE)
UnderInternal(q) == \E k \in DOMAIN InternalMounts : AtOrUnder(q, InternalMounts[k].at)
OnInternal(q, e) ==
  \E k \in DOMAIN InternalMounts :
    AtOrUnder(q, InternalMounts[k].at) /\ e = Entry(InternalMounts[k].at, "internal", Root, TRUE)
UnderLayer(q) == \E k \in DOMAIN Layers : AtOrUnder(q, Layers[k].at)
OnLayers(q, e) ==
  \E k \in DOMAIN Layers :
    /\ AtOrUnder(q, Layers[k].at) /\ e = MountShows(Layers[k], q)
    /\ \A l \in DOMAIN Layers : k < l => ~AtOrUnder(q, Layers[l].at)
UnderFresh(q) == \E f \in ToSet(Fresh) : AtOrUnder(q, f)
OnFresh(q, e) == \E f \in ToSet(Fresh) : AtOrUnder(q, f) /\ e = Entry(f, "fresh", Root, FALSE)

\* Which mount is the last one over q, by its kind, and what it shows.
LEMMA Topmost ==
  ASSUME TypeOK, RootsOK, NEW q \in Path, NEW e, Laid(q, Len(Stack) + 1, e)
  PROVE  \/ OnScratch(q, e)
         \/ /\ ~AtOrUnder(q, ScratchBase)
            /\ \/ OnInternal(q, e)
               \/ ~UnderInternal(q) /\ OnLayers(q, e)
               \/ ~UnderInternal(q) /\ ~UnderLayer(q) /\ OnFresh(q, e)
               \/ ~UnderInternal(q) /\ ~UnderLayer(q) /\ ~UnderFresh(q)
                  /\ e = Rebound(Root, q, ~DisableReadonly)
<1> DEFINE F == Len(Fresh)
           L == Len(Layers)
           I == Len(InternalMounts)
           N == F + L + I + 2
<1>1. /\ Stack \in Seq(MountType) /\ Len(Stack) = N
      /\ F \in Nat /\ L \in Nat /\ I \in Nat
      /\ \A i \in 1..F : Stack[i] = Mount(Fresh[i], "fresh")
      /\ \A i \in 1..L : Stack[F + i] = Layers[i]
      /\ \A i \in 1..I : Stack[F + L + i] = InternalMounts[i]
      /\ Stack[F + L + I + 1] = Mount(ScratchBase, "tmpfs")
      /\ Stack[F + L + I + 2] = Mount(Exec, "bind")
  BY StackIs
<1>2. DOMAIN Fresh = 1..F /\ DOMAIN Layers = 1..L /\ DOMAIN InternalMounts = 1..I
  BY Typed, LayersAre, InternalsAre, LenProperties
<1> HIDE DEF F, L, I
<1>3. N \in Nat /\ N = F + L + I + 2 BY <1>1
<1> HIDE DEF N
<1>4. 1..((Len(Stack) + 1) - 1) = 1..N BY <1>1, <1>3
<1>5. ASSUME NEW i \in 1..N
      PROVE  Stack[i] \in MountType
  BY <1>1, <1>5, ElementOfSeq
<1>6. \/ /\ \A i \in 1..N : ~AtOrUnder(q, Stack[i].at)
         /\ e = Rebound(Root, q, ~DisableReadonly)
      \/ \E i \in 1..N :
           /\ AtOrUnder(q, Stack[i].at) /\ e = MountShows(Stack[i], q)
           /\ \A j \in 1..N : i < j => ~AtOrUnder(q, Stack[j].at)
  BY <1>4 DEF Laid
<1>7. /\ N - 1 \in 1..N /\ N \in 1..N
      /\ Stack[N - 1] = Mount(ScratchBase, "tmpfs") /\ Stack[N] = Mount(Exec, "bind")
  <2>1. N - 1 = F + L + I + 1 BY <1>1, <1>3
  <2> QED BY <1>1, <1>3, <2>1
<1>8. /\ Stack[N - 1].at = ScratchBase /\ Stack[N - 1].type = "tmpfs"
      /\ Stack[N].at = Exec /\ Stack[N].type = "bind"
  BY <1>7 DEF Mount
<1>9. AtOrUnder(q, Exec) => AtOrUnder(q, ScratchBase)
  <2>1. \A x, y, z \in Path : AtOrUnder(x, y) /\ AtOrUnder(y, z) => AtOrUnder(x, z) BY Order
  <2> QED BY <2>1, Typed
\* The positions that cover nothing of what lies under them.
<1>10. \A k \in 1..I : F + L + k \in 1..N /\ Stack[F + L + k] = InternalMounts[k] BY <1>1, <1>3
<1>11. \A k \in 1..L : F + k \in 1..N /\ Stack[F + k] = Layers[k] BY <1>1, <1>3
<1>12. \A k \in 1..F : k \in 1..N /\ Stack[k] = Mount(Fresh[k], "fresh") /\ Stack[k].at = Fresh[k]
                       /\ Stack[k].type = "fresh"
  BY <1>1, <1>3 DEF Mount
<1>13. CASE \A i \in 1..N : ~AtOrUnder(q, Stack[i].at)
  <2>1. ~UnderFresh(q)
    <3>1. \A f \in ToSet(Fresh) : \E k \in 1..F : Fresh[k] = f BY <1>2, Typed, InSeq
    <3> QED BY <3>1, <1>12, <1>13 DEF UnderFresh
  <2>2. ~UnderInternal(q) BY <1>2, <1>10, <1>13 DEF UnderInternal
  <2>3. ~UnderLayer(q) BY <1>2, <1>11, <1>13 DEF UnderLayer
  <2>4. ~AtOrUnder(q, ScratchBase) BY <1>7, <1>8, <1>13
  <2>5. e = Rebound(Root, q, ~DisableReadonly) BY <1>6, <1>13
  <2> QED BY <2>1, <2>2, <2>3, <2>4, <2>5
<1>14. ASSUME NEW i \in 1..N, AtOrUnder(q, Stack[i].at), e = MountShows(Stack[i], q),
              \A j \in 1..N : i < j => ~AtOrUnder(q, Stack[j].at)
       PROVE  \/ OnScratch(q, e)
              \/ /\ ~AtOrUnder(q, ScratchBase)
                 /\ \/ OnInternal(q, e)
                    \/ ~UnderInternal(q) /\ OnLayers(q, e)
                    \/ ~UnderInternal(q) /\ ~UnderLayer(q) /\ OnFresh(q, e)
  <2>1. Stack[i] \in MountType BY <1>5
  <2>2. CASE i = N
    <3>1. e = Entry(Exec, "host", Holder(Exec), TRUE) BY <1>8, <1>14, <2>1, <2>2, Showing
    <3> QED BY <1>8, <1>14, <2>2, <3>1 DEF OnScratch
  <2>3. CASE i = N - 1
    <3>1. e = Entry(ScratchBase, "tmpfs", Root, TRUE) BY <1>8, <1>14, <2>1, <2>3, Showing
    <3>2. ~AtOrUnder(q, Exec) BY <1>3, <1>7, <1>8, <1>14, <2>3
    <3> QED BY <1>8, <1>14, <2>3, <3>1, <3>2 DEF OnScratch
  <2>4. CASE i < N - 1
    <3>1. ~AtOrUnder(q, ScratchBase) BY <1>7, <1>8, <1>14, <2>4
    <3>2. CASE i > F + L
      <4>1. i - (F + L) \in 1..I /\ F + L + (i - (F + L)) = i BY <1>1, <1>3, <2>4, <3>2
      <4>2. PICK k \in 1..I : i = F + L + k BY <4>1
      <4>3. Stack[i] = InternalMounts[k] /\ InternalMounts[k].type = "internal"
        BY <1>2, <1>10, <4>2, InternalsAre
      <4>4. e = Entry(InternalMounts[k].at, "internal", Root, TRUE) BY <1>14, <2>1, <4>3, Showing
      <4>5. OnInternal(q, e) BY <1>2, <1>14, <4>3, <4>4 DEF OnInternal
      <4> QED BY <3>1, <4>5
    <3>3. CASE i <= F + L
      <4>1. ~UnderInternal(q)
        <5>1. \A k \in 1..I : i < F + L + k BY <1>1, <3>3
        <5> QED BY <1>2, <1>10, <1>14, <5>1 DEF UnderInternal
      <4>2. CASE i > F
        <5>1. i - F \in 1..L /\ F + (i - F) = i BY <1>1, <3>3, <4>2
        <5>2. PICK k \in 1..L : i = F + k BY <5>1
        <5>3. Stack[i] = Layers[k] BY <1>11, <5>2
        <5>4. \A l \in 1..L : k < l => i < F + l BY <1>1, <5>2
        <5>5. \A l \in 1..L : k < l => ~AtOrUnder(q, Layers[l].at) BY <1>11, <1>14, <5>4
        <5>6. OnLayers(q, e) BY <1>2, <1>14, <5>3, <5>5 DEF OnLayers
        <5> QED BY <3>1, <4>1, <5>6
      <4>3. CASE i <= F
        <5>1. \A k \in 1..L : i < F + k BY <1>1, <4>3
        <5>2. ~UnderLayer(q) BY <1>2, <1>11, <1>14, <5>1 DEF UnderLayer
        <5>3. i \in 1..F BY <1>1, <4>3
        <5>4. e = Entry(Fresh[i], "fresh", Root, FALSE) BY <1>12, <1>14, <2>1, <5>3, Showing
        <5>5. Fresh[i] \in ToSet(Fresh) BY <1>2, <5>3 DEF ToSet
        <5>6. OnFresh(q, e) BY <1>12, <1>14, <5>3, <5>4, <5>5 DEF OnFresh
        <5> QED BY <3>1, <4>1, <5>2, <5>6
      <4> QED BY <1>1, <4>2, <4>3
    <3> QED BY <1>1, <3>2, <3>3
  <2> QED BY <1>3, <2>2, <2>3, <2>4
<1> QED BY <1>6, <1>13, <1>14

\* What an accepted input keeps apart.
LEMMA LayersApart ==
  ASSUME TypeOK, RootsOK, ~ConfigConflict, NEW k \in DOMAIN Layers
  PROVE  /\ Layers[k] \in MountType /\ Layers[k].at \in Writable /\ ~DisableReadonly
         /\ ~Overlap(Layers[k].at, ScratchBase) /\ ~AtOrUnder(Rootfs, Layers[k].at)
         /\ Layers[k].type = "rbind" => \A f \in ToSet(Fresh) : ~AtOrUnder(Layers[k].at, f)
<1>1. /\ Layers \in Seq(MountType)
      /\ \/ Layers[k].type = "rbind" /\ Layers[k].at \in Bound /\ ~DisableReadonly
         \/ Layers[k].type = "overlay" /\ Layers[k].at \in roots
  BY LayersAre
<1>2. Layers[k] \in MountType BY <1>1, InSeq
<1>3. ~DisableReadonly BY <1>1 DEF DisableReadonly, RootsOK
<1>4. ~ScratchWritable(Writable) /\ \A p \in Bound, f \in ToSet(Fresh) : ~AtOrUnder(p, f)
  BY <1>3 DEF ConfigConflict
<1>5. Layers[k].at \in Writable BY <1>1 DEF Writable
<1>6. ~Overlap(Layers[k].at, ScratchBase) BY <1>4, <1>5 DEF ScratchWritable
<1>7. Layers[k].at \in Path BY <1>2 DEF MountType
<1>8. ~AtOrUnder(Rootfs, Layers[k].at)
  <2>1. \A x, y, z \in Path : AtOrUnder(x, y) /\ AtOrUnder(x, z) => AtOrUnder(y, z) \/ AtOrUnder(z, y) BY Order
  <2> QED BY <1>6, <1>7, <2>1, Typed DEF Overlap
<1>9. Layers[k].type = "rbind" => Layers[k].at \in Bound BY <1>1
<1> QED BY <1>2, <1>3, <1>4, <1>5, <1>6, <1>8, <1>9

-----------------------------------------------------------------------------
(* The steps.                                                              *)

\* One mount more is over what lies under it, and nothing else.
LEMMA LaidNext ==
  ASSUME NEW q \in Path, NEW n \in Nat, 1 <= n, NEW e, Laid(q, n, e)
  PROVE  /\ AtOrUnder(q, Stack[n].at) => Laid(q, n + 1, MountShows(Stack[n], q))
         /\ ~AtOrUnder(q, Stack[n].at) => Laid(q, n + 1, e)
<1>1. (n + 1) - 1 = n /\ n \in 1..n OBVIOUS
<1>2. \A i \in 1..n : i \in 1..(n - 1) \/ i = n OBVIOUS
<1>3. \A i \in 1..(n - 1) : i \in 1..n /\ i < n OBVIOUS
<1>4. ASSUME AtOrUnder(q, Stack[n].at) PROVE Laid(q, n + 1, MountShows(Stack[n], q))
  <2>1. \A j \in 1..n : ~(n < j) OBVIOUS
  <2> QED BY <1>1, <1>4, <2>1 DEF Laid
<1>5. ASSUME ~AtOrUnder(q, Stack[n].at) PROVE Laid(q, n + 1, e)
  <2>1. CASE /\ \A i \in 1..(n - 1) : ~AtOrUnder(q, Stack[i].at)
             /\ e = Rebound(Root, q, ~DisableReadonly)
    <3>1. \A i \in 1..n : ~AtOrUnder(q, Stack[i].at) BY <1>2, <1>5, <2>1
    <3> QED BY <1>1, <2>1, <3>1 DEF Laid
  <2>2. ASSUME NEW i \in 1..(n - 1), AtOrUnder(q, Stack[i].at), e = MountShows(Stack[i], q),
               \A j \in 1..(n - 1) : i < j => ~AtOrUnder(q, Stack[j].at)
        PROVE  Laid(q, n + 1, e)
    <3>1. \A j \in 1..n : i < j => ~AtOrUnder(q, Stack[j].at) BY <1>2, <1>5, <2>2
    <3> QED BY <1>1, <1>3, <2>2, <3>1 DEF Laid
  <2> QED BY <2>1, <2>2 DEF Laid
<1> QED BY <1>4, <1>5

LEMMA Kept ==
  ASSUME UNCHANGED plan
  PROVE  /\ UNCHANGED <<mode, engine, dirs, input>>
         /\ InputConflict' = InputConflict /\ Candidates' = Candidates
         /\ DisableReadonly' = DisableReadonly
         /\ UNCHANGED host => OverlayRoots' = OverlayRoots
<1>1. UNCHANGED <<mode, engine, dirs, input>> BY DEF plan
<1>2. InputConflict' = InputConflict BY <1>1 DEF InputConflict
<1>3. Candidates' = Candidates BY <1>1 DEF Candidates
<1>4. DisableReadonly' = DisableReadonly BY <1>1 DEF DisableReadonly
<1>5. ASSUME UNCHANGED host PROVE OverlayRoots' = OverlayRoots
  BY <1>1, <1>5 DEF OverlayRoots, Candidates, Covered, Nests, NestingParent, CandidateOrder, DeviceOf, Holder
<1> QED BY <1>1, <1>2, <1>3, <1>4, <1>5

LEMMA KeptConfig ==
  ASSUME UNCHANGED <<plan, roots>>
  PROVE  /\ RootsOK' = RootsOK /\ ConfigConflict' = ConfigConflict
         /\ Stack' = Stack /\ Bound' = Bound /\ Writable' = Writable
<1>1. UNCHANGED <<mode, engine, dirs, input, roots>> /\ UNCHANGED plan BY DEF plan
<1>2. DisableReadonly' = DisableReadonly /\ Candidates' = Candidates BY <1>1, Kept
<1>3. RootsOK' = RootsOK BY <1>1, <1>2 DEF RootsOK
<1>4. WritableDirs' = WritableDirs BY <1>1 DEF WritableDirs, NamedFirst, Named
<1>5. Bound' = Bound /\ Writable' = Writable BY <1>1, <1>4 DEF Bound, Writable
<1>6. ConfigConflict' = ConfigConflict BY <1>2, <1>5 DEF ConfigConflict
<1>7. Layers' = Layers BY <1>1, <1>2, <1>4 DEF Layers, PersistentLayers, EphemeralLayers
<1>8. InternalMounts' = InternalMounts BY <1>1 DEF InternalMounts
<1>9. Stack' = Stack BY <1>7, <1>8 DEF Stack, ScratchBaseLayers
<1> QED BY <1>3, <1>5, <1>6, <1>9

LEMMA KeptMounts ==
  ASSUME UNCHANGED <<plan, roots, host>>
  PROVE  /\ \A p, q, ro : Rebound(p, q, ro)' = Rebound(p, q, ro)
         /\ \A q, n, e : Laid(q, n, e)' = Laid(q, n, e)
         /\ \A l, p : OnLayer(l, p)' = OnLayer(l, p)
<1>1. UNCHANGED host /\ Stack' = Stack /\ DisableReadonly' = DisableReadonly BY Kept, KeptConfig
<1>2. \A p : Holder(p)' = Holder(p) BY <1>1 DEF Holder
<1>3. \A p, q, ro : Rebound(p, q, ro)' = Rebound(p, q, ro) BY <1>2 DEF Rebound, Entry
<1>4. \A m, q : MountShows(m, q)' = MountShows(m, q) BY <1>2, <1>3 DEF MountShows, Entry
<1>5. \A q, n, e : Laid(q, n, e)' = Laid(q, n, e) BY <1>1, <1>3, <1>4 DEF Laid
<1>6. \A l, p : OnLayer(l, p)' = OnLayer(l, p) BY <1>1, <1>2 DEF OnLayer
<1> QED BY <1>3, <1>5, <1>6

LEMMA InitInv == Init => IInv
<1> SUFFICES ASSUME Init PROVE IInv OBVIOUS
<1>1. PICK points \in SUBSET MountPoints : \E device \in [points -> Devices] :
        host = [m \in points \cup {Root} |-> IF m = Root THEN RootDevice ELSE device[m]]
  BY DEF Init
<1>2. DOMAIN host = points \cup {Root} BY <1>1
<1>3. TypeOK BY <1>2 DEF Init, TypeOK
<1>4. PlanOK /\ ConfigOK BY DEF Init, PlanOK, ConfigOK
<1> QED BY <1>3, <1>4 DEF Init, IInv

LEMMA PlanInv ==
  ASSUME IInv, Plan
  PROVE  IInv'
<1>1. UNCHANGED plan /\ UNCHANGED host /\ UNCHANGED moved BY DEF Plan
<1>2. UNCHANGED <<mode, engine, dirs, input>> /\ InputConflict' = InputConflict
      /\ Candidates' = Candidates /\ OverlayRoots' = OverlayRoots
  BY <1>1, Kept
<1>3. TypeOK' BY <1>1, <1>2 DEF IInv, TypeOK
<1>4. phase' \in {"planned", "rejected"} BY DEF Plan
<1>5. ConfigOK' BY <1>4 DEF ConfigOK
<1>6. PlanOK'
  <2> SUFFICES ASSUME phase' # "rejected" PROVE PlanOK' BY DEF PlanOK
  <2>1. ~InputConflict /\ roots' = IF mode = "ephemeral" THEN OverlayRoots ELSE {} BY DEF Plan
  <2>2. OverlayRoots \subseteq Candidates \cap Tree BY DEF OverlayRoots
  <2>3. mode \in {"persistent", "ephemeral"} BY DEF IInv, TypeOK
  <2>4. RootsOK' BY <1>2, <2>1, <2>2, <2>3 DEF RootsOK
  <2> QED BY <1>2, <2>1, <2>4 DEF PlanOK
<1> QED BY <1>3, <1>4, <1>5, <1>6 DEF IInv

LEMMA AssembleInv ==
  ASSUME IInv, Assemble
  PROVE  IInv'
<1>1. UNCHANGED <<plan, roots, host, moved>> /\ phase = "planned" BY DEF Assemble
<1>2. UNCHANGED <<mode, engine, dirs, input>> /\ InputConflict' = InputConflict
      /\ OverlayRoots' = OverlayRoots /\ DisableReadonly' = DisableReadonly
  BY <1>1, Kept
<1>3. RootsOK' = RootsOK /\ ConfigConflict' = ConfigConflict /\ Stack' = Stack /\ Writable' = Writable
  BY <1>1, KeptConfig
<1>4. TypeOK' BY <1>1, <1>2 DEF IInv, TypeOK
<1>5. phase' \in {"assembled", "rejected"} BY DEF Assemble
<1>6. PlanOK' BY <1>1, <1>2, <1>3 DEF IInv, PlanOK
<1>7. ConfigOK'
  <2> SUFFICES ASSUME phase' # "rejected" PROVE ConfigOK' BY <1>5 DEF ConfigOK
  <2>1. ~ConfigConflict /\ config' = BuildConfig(DOMAIN host) BY DEF Assemble
  <2>2. config'.mounts = Stack /\ config'.rootReadonly = ~DisableReadonly
        /\ config'.readonly = ReadonlyPaths(DOMAIN host)
    BY <2>1 DEF BuildConfig, Stack
  <2>3. ASSUME ~DisableReadonly, NEW m \in DOMAIN host \ {Root}
        PROVE  m \in ReadonlyPaths(DOMAIN host) \cup Sockets \cup ToSet(Fresh) \cup Writable
    BY <2>3 DEF ReadonlyPaths, ReadonlyHostMounts
  <2>4. ASSUME NEW p \in ReadonlyPaths(DOMAIN host), p \notin BaseReadonly
        PROVE  p \in MountPoints \ Writable /\ p \in DOMAIN host
    BY <2>4 DEF ReadonlyPaths, ReadonlyHostMounts, IInv, TypeOK
  <2> QED BY <1>1, <1>2, <1>3, <2>1, <2>2, <2>3, <2>4 DEF ConfigOK
<1> QED BY <1>4, <1>5, <1>6, <1>7 DEF IInv

LEMMA HostInv ==
  ASSUME IInv, HostMounts \/ HostUnmounts
  PROVE  IInv'
<1>1. HostChanges BY DEF HostMounts, HostUnmounts
<1>2. /\ UNCHANGED <<plan, roots, config>> /\ UNCHANGED phase /\ moved' = (phase # "input")
      /\ phase \in {"input", "planned", "assembled"}
  BY <1>1 DEF HostChanges
<1>3. UNCHANGED <<mode, engine, dirs, input>> /\ InputConflict' = InputConflict
      /\ DisableReadonly' = DisableReadonly
  BY <1>2, Kept
<1>4. RootsOK' = RootsOK /\ ConfigConflict' = ConfigConflict /\ Stack' = Stack /\ Writable' = Writable
  BY <1>2, KeptConfig
<1>5. PlanOK' BY <1>2, <1>3, <1>4 DEF IInv, PlanOK
<1>6. CASE HostMounts
  <2>1. PICK m \in MountPoints \ DOMAIN host : \E d \in Devices :
          host' = [n \in DOMAIN host \cup {m} |-> IF n = m THEN d ELSE host[n]]
          /\ late' = IF phase = "assembled" THEN late \cup {m} ELSE late
    BY <1>6 DEF HostMounts
  <2>2. DOMAIN host' = DOMAIN host \cup {m} BY <2>1
  <2>3. TypeOK' BY <1>2, <1>3, <2>2 DEF IInv, TypeOK
  <2>4. ConfigOK'
    <3> SUFFICES ASSUME phase = "assembled" PROVE ConfigOK' BY <1>2 DEF ConfigOK
    <3>1. late' = late \cup {m} /\ moved' BY <1>2, <2>1
    <3>2. ConfigOK BY DEF IInv
    <3> QED BY <1>2, <1>3, <1>4, <2>2, <3>1, <3>2 DEF ConfigOK
  <2> QED BY <1>2, <1>5, <2>3, <2>4 DEF IInv
<1>7. CASE HostUnmounts
  <2>1. PICK m \in DOMAIN host \ {Root} :
          host' = [n \in DOMAIN host \ {m} |-> host[n]] /\ late' = late \ {m}
    BY <1>7 DEF HostUnmounts
  <2>2. DOMAIN host' = DOMAIN host \ {m} BY <2>1
  <2>3. TypeOK' BY <1>2, <1>3, <2>2 DEF IInv, TypeOK
  <2>4. ConfigOK'
    <3> SUFFICES ASSUME phase = "assembled" PROVE ConfigOK' BY <1>2 DEF ConfigOK
    <3>1. late' = late \ {m} /\ moved' BY <1>2, <2>1
    <3>2. ConfigOK BY DEF IInv
    <3> QED BY <1>2, <1>3, <1>4, <2>2, <3>1, <3>2 DEF ConfigOK
  <2> QED BY <1>2, <1>5, <2>3, <2>4 DEF IInv
<1> QED BY <1>6, <1>7

\* What every step of run-isolated.sh and runc keeps.
LEMMA RunnerKeeps ==
  ASSUME IInv, UNCHANGED <<plan, roots, host, config, late, moved>>,
         phase \in {"assembled", "mounting"}, phase' \in {"mounting", "running", "failed"}
  PROVE  /\ TypeOK /\ TypeOK' /\ RootsOK /\ PlanOK' /\ ConfigOK /\ ConfigOK'
         /\ Stack' = Stack /\ config.mounts = Stack /\ config.rootReadonly = ~DisableReadonly
         /\ UNCHANGED config /\ UNCHANGED host /\ \A p \in config.readonly : p \in Path
<1>1. UNCHANGED <<mode, engine, dirs, input, roots, host, config, late, moved>> BY DEF plan
<1>2. UNCHANGED <<plan, roots>> /\ UNCHANGED plan /\ UNCHANGED host OBVIOUS
<1>3. InputConflict' = InputConflict /\ OverlayRoots' = OverlayRoots /\ DisableReadonly' = DisableReadonly
  BY <1>2, Kept
<1>4. RootsOK' = RootsOK /\ ConfigConflict' = ConfigConflict /\ Stack' = Stack /\ Writable' = Writable
  BY <1>2, KeptConfig
<1>5. TypeOK /\ TypeOK' BY <1>1 DEF IInv, TypeOK
<1>6. RootsOK /\ PlanOK' BY <1>1, <1>3, <1>4 DEF IInv, PlanOK
<1>7. ConfigOK /\ ConfigOK' BY <1>1, <1>3, <1>4 DEF IInv, ConfigOK
<1>8. config.mounts = Stack /\ config.rootReadonly = ~DisableReadonly BY DEF IInv, ConfigOK
<1>9. \A p \in config.readonly : p \in Path
  <2>1. \A p \in config.readonly : p \in BaseReadonly \/ p \in MountPoints BY DEF IInv, ConfigOK
  <2>2. MountPoints \subseteq Tree BY PathsAssumption
  <2> QED BY <2>1, <2>2, <1>5, Typed DEF Fixed
<1> QED BY <1>1, <1>4, <1>5, <1>6, <1>7, <1>8, <1>9

LEMMA CaptureInv ==
  ASSUME IInv, Capture
  PROVE  IInv'
<1>1. UNCHANGED <<plan, roots, host, config, late, moved>> /\ phase = "assembled" /\ phase' = "mounting"
  BY DEF Capture
<1>2. /\ TypeOK /\ TypeOK' /\ RootsOK /\ PlanOK' /\ ConfigOK'
      /\ Stack' = Stack /\ config.rootReadonly = ~DisableReadonly /\ UNCHANGED config
  BY <1>1, RunnerKeeps
<1>3. todo' = [next |-> 1, readonly |-> config.readonly, masked |-> Sockets] BY DEF Capture
<1>4. Len(Stack) \in Nat BY <1>2, StackIs, LenProperties
<1>5. TodoOK' BY <1>1, <1>2, <1>3, <1>4 DEF TodoOK
<1>6. ViewOK'
  <2> SUFFICES ASSUME NEW q \in Places
               PROVE  (\E e \in Entries : AtOrUnder(q, e.at) /\ Laid(q, todo.next, e) /\ Seen(q, e))'
    BY DEF ViewOK
  <2>1. q \in Path /\ Root \in Path /\ AtOrUnder(q, Root) BY <1>2, Typed, Order
  <2>2. PICK e : e = Rebound(Root, q, ~DisableReadonly) OBVIOUS
  <2>3. e \in Entries /\ AtOrUnder(q, e.at) BY <1>2, <2>1, <2>2, Rebinding
  <2>4. shown'[q] = e BY <1>2, <2>2 DEF Capture
  <2>5. Laid(q, 1, e) BY <2>2 DEF Laid
  <2>6. Laid(q, 1, e)' BY <1>1, <2>5, KeptMounts
  <2>7. Laid(q, todo.next, e)' BY <1>3, <2>6
  <2> QED BY <2>3, <2>4, <2>7 DEF Seen
<1>7. ProtectedOK' BY <1>3, <1>1 DEF ProtectedOK
<1> QED BY <1>1, <1>2, <1>5, <1>6, <1>7 DEF IInv

LEMMA MountNextInv ==
  ASSUME IInv, MountNext
  PROVE  IInv'
<1>1. UNCHANGED <<plan, roots, host, config, late, moved>> /\ phase = "mounting"
  BY DEF MountNext
<1>2. phase' \in {"mounting", "failed"} BY DEF MountNext
<1>3. /\ TypeOK /\ TypeOK' /\ RootsOK /\ PlanOK' /\ ConfigOK'
      /\ Stack' = Stack /\ config.mounts = Stack /\ UNCHANGED config
  BY <1>1, <1>2, RunnerKeeps
<1>4. CASE phase' = "failed" BY <1>3, <1>4 DEF IInv
<1>5. CASE phase' = "mounting"
  <2>1. TodoOK /\ ViewOK /\ ProtectedOK BY <1>1 DEF IInv
  <2>20. PICK n : n = todo.next OBVIOUS
  <2>21. PICK m : m = Stack[n] OBVIOUS
  <2>2. Len(Stack) \in Nat /\ DOMAIN Stack = 1..Len(Stack) BY <1>3, StackIs, LenProperties
  <2>3. n \in 1..Len(Stack) /\ n \in Nat /\ 1 <= n /\ n <= Len(Stack)
    BY <1>3, <2>2, <2>20 DEF MountNext
  <2>4. /\ shown' = [q \in Places |-> IF AtOrUnder(q, m.at) THEN MountShows(m, q) ELSE shown[q]]
        /\ todo' = [todo EXCEPT !.next = @ + 1]
        /\ m.type = "rbind" => m.at \in Tree
    BY <1>1, <1>3, <1>5, <2>20, <2>21 DEF MountNext, AfterMount
  <2>5. todo.readonly = config.readonly /\ todo.masked = Sockets
        /\ todo \in [next : Nat, readonly : SUBSET config.readonly, masked : SUBSET Sockets]
    BY <2>1, <2>3, <2>20 DEF TodoOK
  <2>6. todo' = [next |-> n + 1, readonly |-> config.readonly, masked |-> Sockets] BY <2>4, <2>5, <2>20
  <2>7. m \in MountType BY <1>3, <2>3, <2>21, StackIs, ElementOfSeq
  <2>8. TodoOK'
    <3>1. \A i \in 1..n : Stack[i].type = "rbind" => Stack[i].at \in Tree
      <4>1. \A i \in 1..n : i \in 1..(n - 1) \/ i = n BY <2>3
      <4> QED BY <4>1, <2>1, <2>4, <2>20, <2>21 DEF TodoOK
    <3>2. (n + 1) - 1 = n BY <2>3
    <3>3. n + 1 \in Nat /\ 1 <= n + 1 /\ n + 1 <= Len(Stack) + 1 BY <2>2, <2>3
    <3> QED BY <1>3, <1>5, <2>6, <3>1, <3>2, <3>3 DEF TodoOK
  <2>9. ViewOK'
    <3> SUFFICES ASSUME NEW q \in Places
                 PROVE  (\E e \in Entries : AtOrUnder(q, e.at) /\ Laid(q, todo.next, e) /\ Seen(q, e))'
      BY DEF ViewOK
    <3>1. q \in Path BY <1>3, Typed
    <3>2. PICK e \in Entries : AtOrUnder(q, e.at) /\ Laid(q, n, e) /\ Seen(q, e)
      BY <2>1, <2>20 DEF ViewOK
    <3>3. ~(todo.next > Len(Stack)) BY <2>2, <2>3, <2>20
    <3>4. shown[q] = e BY <3>2, <3>3 DEF Seen
    <3>5. PICK d : d = IF AtOrUnder(q, m.at) THEN MountShows(m, q) ELSE e OBVIOUS
    <3>6. d \in Entries /\ AtOrUnder(q, d.at) BY <1>3, <2>7, <3>1, <3>2, <3>5, Showing
    <3>7. shown'[q] = d BY <2>4, <3>4, <3>5
    <3>8. Laid(q, n + 1, d) BY <2>3, <2>21, <3>1, <3>2, <3>5, LaidNext
    <3>9. Laid(q, n + 1, d)' BY <1>1, <3>8, KeptMounts
    <3>10. Laid(q, todo.next, d)' BY <2>6, <3>9
    <3> QED BY <3>6, <3>7, <3>10 DEF Seen
  <2>10. ProtectedOK' BY <1>3, <2>6 DEF ProtectedOK
  <2> QED BY <1>3, <1>5, <2>8, <2>9, <2>10 DEF IInv
<1> QED BY <1>2, <1>4, <1>5

LEMMA SeenTyped ==
  ASSUME TypeOK, ViewOK, \A p \in config.readonly : p \in Path, NEW q \in Places
  PROVE  shown[q] \in Entries /\ AtOrUnder(q, shown[q].at)
<1>1. PICK e \in Entries : AtOrUnder(q, e.at) /\ Seen(q, e) BY DEF ViewOK
<1>2. CASE shown[q] = e BY <1>1, <1>2
<1>3. ASSUME NEW s \in Sockets, AtOrUnder(q, s), shown[q] = Entry(s, "null", Root, TRUE)
      PROVE  shown[q] \in Entries /\ AtOrUnder(q, shown[q].at)
  <2>1. s \in Path /\ Root \in Path BY Typed, Order DEF Fixed
  <2> QED BY <1>3, <2>1 DEF Entry, Entries, Kinds
<1>4. ASSUME NEW p \in config.readonly, AtOrUnder(q, p), shown[q] = Entry(p, e.kind, e.layer, TRUE)
      PROVE  shown[q] \in Entries /\ AtOrUnder(q, shown[q].at)
  <2>1. p \in Path OBVIOUS
  <2> QED BY <1>4, <2>1 DEF Entry, Entries
<1> QED BY <1>1, <1>2, <1>3, <1>4 DEF Seen

LEMMA ReadonlyNextInv ==
  ASSUME IInv, ReadonlyNext
  PROVE  IInv'
<1>1. UNCHANGED <<plan, roots, host, config, late, moved>> /\ phase = "mounting" /\ phase' = "mounting"
  BY DEF ReadonlyNext
<1>2. /\ TypeOK /\ TypeOK' /\ RootsOK /\ PlanOK' /\ ConfigOK'
      /\ Stack' = Stack /\ config.mounts = Stack /\ UNCHANGED config
      /\ \A p \in config.readonly : p \in Path
  BY <1>1, RunnerKeeps
<1>3. TodoOK /\ ViewOK /\ ProtectedOK BY <1>1 DEF IInv
<1>4. PICK p \in todo.readonly : shown' = AfterReadonly(p) /\ todo' = [todo EXCEPT !.readonly = @ \ {p}]
  BY DEF ReadonlyNext
<1>5. todo.next > Len(Stack) BY <1>2 DEF ReadonlyNext
<1>6. /\ todo \in [next : Nat, readonly : SUBSET config.readonly, masked : SUBSET Sockets]
      /\ todo.masked = Sockets
  BY <1>3, <1>4 DEF TodoOK
<1>7. todo' = [next |-> todo.next, readonly |-> todo.readonly \ {p}, masked |-> Sockets]
  BY <1>4, <1>6
<1>8. p \in config.readonly /\ p \in Path BY <1>2, <1>6
<1>9. TodoOK' BY <1>1, <1>2, <1>3, <1>5, <1>6, <1>7 DEF TodoOK
<1>10. ASSUME NEW q \in Places
       PROVE  /\ shown[q] \in Entries /\ AtOrUnder(q, shown[q].at) /\ q \in Path
              /\ \/ shown'[q] = shown[q] /\ shown[q].at # p
                 \/ /\ AtOrUnder(q, p) /\ AtOrUnder(p, shown[q].at)
                    /\ shown'[q] = Entry(p, shown[q].kind, shown[q].layer, TRUE)
  <2>1. shown[q] \in Entries /\ AtOrUnder(q, shown[q].at) /\ q \in Path BY <1>2, <1>3, SeenTyped, Typed
  <2>2. shown[q].at \in Path BY <2>1 DEF Entries
  <2>3. CASE shown' = shown /\ ~Exists(p)
    <3>1. ~AtOrUnder(shown[q].at, p) BY <2>3 DEF Exists
    <3>2. AtOrUnder(p, p) BY <1>8, Order
    <3> QED BY <2>1, <2>3, <3>1, <3>2
  <2>4. CASE shown' = [r \in Places |->
                 IF AtOrUnder(r, p) /\ ~IsStrictPrefix(p, shown[r].at)
                 THEN [shown[r] EXCEPT !.at = p, !.ro = TRUE] ELSE shown[r]]
    <3>1. CASE AtOrUnder(q, p) /\ ~IsStrictPrefix(p, shown[q].at)
      <4>1. shown'[q] = [shown[q] EXCEPT !.at = p, !.ro = TRUE] BY <2>4, <3>1
      <4>2. shown'[q] = Entry(p, shown[q].kind, shown[q].layer, TRUE) BY <2>1, <4>1 DEF Entry, Entries
      <4>3. AtOrUnder(p, shown[q].at) BY <1>8, <2>1, <2>2, <3>1, Order
      <4> QED BY <2>1, <3>1, <4>2, <4>3
    <3>2. CASE ~(AtOrUnder(q, p) /\ ~IsStrictPrefix(p, shown[q].at))
      <4>1. shown'[q] = shown[q] BY <2>4, <3>2
      <4>2. shown[q].at # p BY <1>8, <2>1, <3>2, Order
      <4> QED BY <2>1, <4>1, <4>2
    <3> QED BY <3>1, <3>2
  <2> QED BY <1>4, <2>3, <2>4 DEF AfterReadonly
<1>11. ViewOK'
  <2> SUFFICES ASSUME NEW q \in Places
               PROVE  (\E e \in Entries : AtOrUnder(q, e.at) /\ Laid(q, todo.next, e) /\ Seen(q, e))'
    BY DEF ViewOK
  <2>1. PICK n : n = todo.next OBVIOUS
  <2>2. PICK e \in Entries : AtOrUnder(q, e.at) /\ Laid(q, n, e) /\ Seen(q, e)
    BY <1>3, <2>1 DEF ViewOK
  <2>3. Laid(q, n, e)' BY <1>1, <2>2, KeptMounts
  <2>4. Laid(q, todo.next, e)' BY <1>7, <2>1, <2>3
  <2>5. Seen(q, e)'
    <3>1. CASE shown'[q] = shown[q]
      <4>1. \A s \in Sockets : s \in todo.masked BY <1>6
      <4> QED BY <1>2, <1>5, <1>7, <2>2, <3>1, <4>1 DEF Seen
    <3>2. CASE /\ AtOrUnder(q, p) /\ AtOrUnder(p, shown[q].at)
               /\ shown'[q] = Entry(p, shown[q].kind, shown[q].layer, TRUE)
      <4>1. AtOrUnder(p, e.at) /\ shown[q].kind = e.kind /\ shown[q].layer = e.layer
        <5>1. CASE shown[q] = e BY <3>2, <5>1
        <5>2. ASSUME NEW r \in config.readonly, AtOrUnder(r, e.at),
                     shown[q] = Entry(r, e.kind, e.layer, TRUE)
              PROVE  AtOrUnder(p, e.at) /\ shown[q].kind = e.kind /\ shown[q].layer = e.layer
          <6>1. shown[q].at = r /\ shown[q].kind = e.kind /\ shown[q].layer = e.layer BY <5>2 DEF Entry
          <6>2. r \in Path /\ e.at \in Path BY <1>2 DEF Entries
          <6>3. AtOrUnder(p, r) /\ AtOrUnder(r, e.at) BY <3>2, <5>2, <6>1
          <6>4. \A x, y, z \in Path : AtOrUnder(x, y) /\ AtOrUnder(y, z) => AtOrUnder(x, z) BY Order
          <6>5. AtOrUnder(p, e.at) BY <1>8, <6>2, <6>3, <6>4, Zenon
          <6> QED BY <6>1, <6>5
        <5>3. ~\E s \in Sockets \ todo.masked : TRUE BY <1>6
        <5>4. \/ shown[q] = e
              \/ \E r \in config.readonly : /\ AtOrUnder(q, r) /\ AtOrUnder(r, e.at)
                                            /\ shown[q] = Entry(r, e.kind, e.layer, TRUE)
          BY <2>2, <5>3, Zenon DEF Seen
        <5> QED BY <5>1, <5>2, <5>4, Zenon
      <4> QED BY <1>2, <1>5, <1>7, <1>8, <3>2, <4>1 DEF Seen
    <3> QED BY <1>10, <3>1, <3>2
  <2> QED BY <2>2, <2>4, <2>5
<1>12. ProtectedOK'
  <2>1. ASSUME NEW r \in config.readonly \ (todo.readonly \ {p}), NEW q \in Places, shown'[q].at = r
        PROVE  shown'[q].ro
    <3>1. CASE shown'[q] = shown[q] /\ shown[q].at # p BY <1>3, <2>1, <3>1 DEF ProtectedOK
    <3>2. CASE shown'[q] = Entry(p, shown[q].kind, shown[q].layer, TRUE) BY <3>2 DEF Entry
    <3> QED BY <1>10, <3>1, <3>2
  <2> QED BY <1>2, <1>7, <2>1 DEF ProtectedOK
<1> QED BY <1>1, <1>2, <1>9, <1>11, <1>12 DEF IInv

LEMMA MaskNextInv ==
  ASSUME IInv, MaskNext
  PROVE  IInv'
<1>1. UNCHANGED <<plan, roots, host, config, late, moved>> /\ phase = "mounting" /\ phase' = "mounting"
  BY DEF MaskNext
<1>2. /\ TypeOK /\ TypeOK' /\ RootsOK /\ PlanOK' /\ ConfigOK'
      /\ Stack' = Stack /\ config.mounts = Stack /\ UNCHANGED config
      /\ \A p \in config.readonly : p \in Path
  BY <1>1, RunnerKeeps
<1>3. TodoOK /\ ViewOK /\ ProtectedOK BY <1>1 DEF IInv
<1>4. PICK s \in todo.masked : shown' = AfterMask(s) /\ todo' = [todo EXCEPT !.masked = @ \ {s}]
  BY DEF MaskNext
<1>5. todo.next > Len(Stack) /\ todo.readonly = {} BY <1>2 DEF MaskNext
<1>6. todo \in [next : Nat, readonly : SUBSET config.readonly, masked : SUBSET Sockets]
  BY <1>3 DEF TodoOK
<1>7. todo' = [next |-> todo.next, readonly |-> {}, masked |-> todo.masked \ {s}]
  BY <1>4, <1>5, <1>6
<1>8. s \in Sockets /\ s \in Path /\ AtOrUnder(s, s) /\ s \in Places
  BY <1>2, <1>6, Typed, Order DEF Fixed, Places
<1>9. TodoOK'
  <2>1. todo.masked \ {s} \in SUBSET Sockets /\ {} \in SUBSET config.readonly /\ todo.next \in Nat BY <1>6
  <2>2. ~(todo.next <= Len(Stack)) BY <1>2, <1>5, <1>6, StackIs, LenProperties
  <2> QED BY <1>1, <1>2, <1>3, <1>5, <1>7, <2>1, <2>2 DEF TodoOK
<1>10. ASSUME NEW q \in Places
       PROVE  \/ shown'[q] = shown[q] /\ ~AtOrUnder(shown[q].at, s)
              \/ AtOrUnder(q, s) /\ shown'[q] = Entry(s, "null", Root, TRUE)
  <2>1. shown[q] \in Entries /\ AtOrUnder(q, shown[q].at) /\ q \in Path BY <1>2, <1>3, SeenTyped, Typed
  <2>2. shown[q].at \in Path BY <2>1 DEF Entries
  <2>3. AtOrUnder(shown[q].at, s) => AtOrUnder(q, s) BY <1>8, <2>1, <2>2, Order
  <2>4. CASE shown' = shown /\ ~Exists(s) BY <2>4 DEF Exists
  <2>5. CASE shown' = [r \in Places |->
                 IF AtOrUnder(r, s) THEN Entry(s, "null", Root, TRUE) ELSE shown[r]]
    BY <2>3, <2>5
  <2> QED BY <1>4, <2>4, <2>5 DEF AfterMask
<1>11. ViewOK'
  <2> SUFFICES ASSUME NEW q \in Places
               PROVE  (\E e \in Entries : AtOrUnder(q, e.at) /\ Laid(q, todo.next, e) /\ Seen(q, e))'
    BY DEF ViewOK
  <2>1. PICK n : n = todo.next OBVIOUS
  <2>2. PICK e \in Entries : AtOrUnder(q, e.at) /\ Laid(q, n, e) /\ Seen(q, e)
    BY <1>3, <2>1 DEF ViewOK
  <2>3. Laid(q, n, e)' BY <1>1, <2>2, KeptMounts
  <2>4. Laid(q, todo.next, e)' BY <1>7, <2>1, <2>3
  <2>5. Seen(q, e)'
    <3>1. CASE shown'[q] = shown[q] BY <1>2, <1>5, <1>7, <2>2, <3>1 DEF Seen
    <3>2. CASE AtOrUnder(q, s) /\ shown'[q] = Entry(s, "null", Root, TRUE)
      BY <1>2, <1>5, <1>7, <1>8, <3>2 DEF Seen
    <3> QED BY <1>10, <3>1, <3>2
  <2> QED BY <2>2, <2>4, <2>5
<1>12. ProtectedOK'
  <2>1. ASSUME NEW r \in config.readonly, NEW q \in Places, shown'[q].at = r
        PROVE  shown'[q].ro
    <3>1. CASE shown'[q] = shown[q] BY <1>3, <1>5, <2>1, <3>1 DEF ProtectedOK
    <3>2. CASE shown'[q] = Entry(s, "null", Root, TRUE) BY <3>2 DEF Entry
    <3> QED BY <1>10, <3>1, <3>2
  <2>2. ASSUME NEW t \in Sockets \ (todo.masked \ {s}), NEW q \in Places, AtOrUnder(shown'[q].at, t)
        PROVE  shown'[q].kind = "null"
    <3>1. CASE shown'[q] = shown[q] /\ ~AtOrUnder(shown[q].at, s) BY <1>3, <2>2, <3>1 DEF ProtectedOK
    <3>2. CASE shown'[q] = Entry(s, "null", Root, TRUE) BY <3>2 DEF Entry
    <3> QED BY <1>10, <3>1, <3>2
  <2>3. ASSUME NEW t \in Sockets \ (todo.masked \ {s})
        PROVE  shown'[t].kind = "null" \/ ~Present(t)'
    <3>1. t \in Places /\ t \in Path BY <1>2, Typed DEF Places, Fixed
    <3>2. ASSUME shown'[t] = shown[t] PROVE Present(t)' = Present(t)
      BY <1>1, <3>2, KeptMounts DEF Present
    <3>3. CASE t = s
      <4>1. CASE Exists(s)
        <5>1. shown'[s] = Entry(s, "null", Root, TRUE) BY <1>4, <1>8, <4>1 DEF AfterMask
        <5> QED BY <3>3, <5>1 DEF Entry
      <4>2. CASE ~Exists(s)
        <5>1. shown' = shown /\ ~Present(s) BY <1>4, <4>2 DEF AfterMask, Exists
        <5> QED BY <3>2, <3>3, <5>1
      <4> QED BY <4>1, <4>2
    <3>4. CASE t # s
      <4>1. shown[t].kind = "null" \/ ~Present(t) BY <1>3, <3>4 DEF ProtectedOK
      <4>2. CASE shown'[t] = shown[t] BY <3>2, <4>1, <4>2
      <4>3. CASE shown'[t] = Entry(s, "null", Root, TRUE) BY <4>3 DEF Entry
      <4> QED BY <1>10, <3>1, <4>2, <4>3
    <3> QED BY <3>3, <3>4
  <2> QED BY <1>2, <1>7, <2>1, <2>2, <2>3 DEF ProtectedOK
<1> QED BY <1>1, <1>2, <1>9, <1>11, <1>12 DEF IInv

LEMMA RunCommandInv ==
  ASSUME IInv, RunCommand
  PROVE  IInv'
<1>1. UNCHANGED <<plan, roots, host, config, late, moved>> /\ UNCHANGED <<shown, todo>>
      /\ phase = "mounting" /\ phase' = "running"
  BY DEF RunCommand
<1>2. /\ TypeOK /\ TypeOK' /\ RootsOK /\ PlanOK' /\ ConfigOK'
      /\ Stack' = Stack /\ config.mounts = Stack /\ UNCHANGED config
  BY <1>1, RunnerKeeps
<1>3. TodoOK /\ ViewOK /\ ProtectedOK BY <1>1 DEF IInv
<1>4. TodoOK' BY <1>1, <1>2, <1>3 DEF TodoOK, RunCommand
<1>5. \A q, n, e : Laid(q, n, e)' = Laid(q, n, e) BY <1>1, KeptMounts
<1>6. \A l, p : OnLayer(l, p)' = OnLayer(l, p) BY <1>1, KeptMounts
<1>7. ViewOK' BY <1>1, <1>2, <1>3, <1>5 DEF ViewOK, Seen
<1>8. \A p : Present(p)' = Present(p) BY <1>1, <1>6 DEF Present
<1>9. ProtectedOK' BY <1>1, <1>2, <1>3, <1>8 DEF ProtectedOK
<1> QED BY <1>2, <1>4, <1>7, <1>9 DEF IInv

LEMMA Stutters ==
  ASSUME IInv, UNCHANGED vars
  PROVE  IInv'
<1>1. UNCHANGED <<phase, plan, roots, host, config, shown, todo, late, moved>> BY DEF vars
<1>2. UNCHANGED <<mode, engine, dirs, input, roots, host, config, late, moved, phase, shown, todo>>
  BY <1>1 DEF plan
<1>3. /\ InputConflict' = InputConflict /\ OverlayRoots' = OverlayRoots
      /\ DisableReadonly' = DisableReadonly /\ RootsOK' = RootsOK /\ ConfigConflict' = ConfigConflict
      /\ Stack' = Stack /\ Writable' = Writable
  BY <1>1, Kept, KeptConfig
<1>4. TypeOK' BY <1>2 DEF IInv, TypeOK
<1>5. PlanOK' BY <1>2, <1>3 DEF IInv, PlanOK
<1>6. ConfigOK' BY <1>2, <1>3 DEF IInv, ConfigOK
<1>7. ASSUME phase' \in {"mounting", "running"} PROVE TodoOK' /\ ViewOK' /\ ProtectedOK'
  <2>1. TodoOK /\ ViewOK /\ ProtectedOK BY <1>2, <1>7 DEF IInv
  <2>2. \A q, n, e : Laid(q, n, e)' = Laid(q, n, e) BY <1>1, KeptMounts
  <2>3. \A l, p : OnLayer(l, p)' = OnLayer(l, p) BY <1>1, KeptMounts
  <2>4. \A p : Present(p)' = Present(p) BY <1>2, <2>3 DEF Present
  <2>5. TodoOK' BY <1>2, <1>3, <2>1 DEF TodoOK
  <2>6. ViewOK' BY <1>2, <1>3, <2>1, <2>2 DEF ViewOK, Seen
  <2>7. ProtectedOK' BY <1>2, <2>1, <2>4 DEF ProtectedOK
  <2> QED BY <2>5, <2>6, <2>7
<1> QED BY <1>4, <1>5, <1>6, <1>7 DEF IInv

\* At every step of runc, what each path is on is what the last mount at or
\* above it shows, or that one forced read-only or masked (buildOciConfig, and
\* runc's order: mounts, readonlyPaths, maskedPaths).
THEOREM Invariance == Spec => []IInv
<1>1. ASSUME IInv, [Next]_vars PROVE IInv'
  BY <1>1, PlanInv, AssembleInv, HostInv, CaptureInv, MountNextInv, ReadonlyNextInv, MaskNextInv,
     RunCommandInv, Stutters DEF Next, Done
<1> QED BY InitInv, <1>1, PTL DEF Spec

-----------------------------------------------------------------------------
(* What the command reaches.                                               *)

LEMMA WhenRunning ==
  ASSUME IInv, Running
  PROVE  /\ TypeOK /\ RootsOK /\ PlanOK /\ ConfigOK /\ TodoOK /\ ProtectedOK
         /\ ~ConfigConflict /\ ~InputConflict
         /\ todo.next = Len(Stack) + 1 /\ todo.readonly = {} /\ todo.masked = {}
         /\ \A q \in Places : \E e \in Entries :
              AtOrUnder(q, e.at) /\ Laid(q, Len(Stack) + 1, e) /\ Seen(q, e)
<1>1. TypeOK /\ PlanOK /\ ConfigOK /\ TodoOK /\ ViewOK /\ ProtectedOK BY DEF IInv, Running
<1>2. RootsOK /\ ~InputConflict BY <1>1 DEF PlanOK, Running
<1>3. ~ConfigConflict BY <1>1 DEF ConfigOK, Running
<1>4. todo.next = Len(Stack) + 1 /\ todo.readonly = {} /\ todo.masked = {}
  <2>1. Len(Stack) \in Nat BY <1>1, <1>2, StackIs, LenProperties
  <2> QED BY <1>1, <2>1 DEF TodoOK, Running
<1> QED BY <1>1, <1>2, <1>3, <1>4 DEF ViewOK

\* Once the command runs, what it sees is the last mount's, or read-only, or masked.
LEMMA SeenAs ==
  ASSUME NEW q, NEW e, Seen(q, e)
  PROVE  \/ shown[q] = e
         \/ shown[q].kind = "null" /\ shown[q].ro /\ \E s \in Sockets : AtOrUnder(q, s)
         \/ /\ shown[q].kind = e.kind /\ shown[q].layer = e.layer /\ shown[q].ro
            /\ \E p \in config.readonly : AtOrUnder(q, p) /\ AtOrUnder(p, e.at)
<1>1. CASE shown[q] = e BY <1>1
<1>2. ASSUME NEW s \in Sockets, AtOrUnder(q, s), shown[q] = Entry(s, "null", Root, TRUE)
      PROVE  shown[q].kind = "null" /\ shown[q].ro
  BY <1>2 DEF Entry
<1>3. ASSUME NEW p \in config.readonly, shown[q] = Entry(p, e.kind, e.layer, TRUE)
      PROVE  shown[q].kind = e.kind /\ shown[q].layer = e.layer /\ shown[q].ro
  BY <1>3 DEF Entry
<1> QED BY <1>1, <1>2, <1>3 DEF Seen

\* Nothing of the host is written but what was declared, and what was mounted
\* between the listing and the capture of the host's mount table: a host
\* mount that no mount of config.json is over was forced read-only or masked.
LEMMA WritesWhatWasDeclared ==
  ASSUME IInv
  PROVE  CommandWritesWhatWasDeclared
<1> SUFFICES ASSUME Running, ~DisableReadonly, NEW p \in Tree,
                    shown[p].kind = "host", ~shown[p].ro
             PROVE  \/ \E d \in Bound : AtOrUnder(p, d)
                    \/ \E m \in late : AtOrUnder(p, m)
  BY DEF CommandWritesWhatWasDeclared
<1>1. TypeOK /\ RootsOK /\ ConfigOK /\ ProtectedOK /\ todo.readonly = {} /\ todo.masked = {} BY WhenRunning
<1>2. p \in Places /\ p \in Path BY <1>1, Typed DEF Places
<1>3. PICK e \in Entries : Laid(p, Len(Stack) + 1, e) /\ Seen(p, e) BY <1>2, WhenRunning
<1>4. shown[p] = e BY <1>3, SeenAs
<1>5. CASE OnScratch(p, e) BY <1>4, <1>5 DEF OnScratch, Entry
<1>6. CASE OnInternal(p, e) BY <1>4, <1>6 DEF OnInternal, Entry
<1>7. CASE OnFresh(p, e) BY <1>4, <1>7 DEF OnFresh, Entry
<1>8. CASE OnLayers(p, e)
  <2>1. PICK k \in DOMAIN Layers : AtOrUnder(p, Layers[k].at) /\ e = MountShows(Layers[k], p)
    BY <1>8 DEF OnLayers
  <2>2. Layers[k] \in MountType BY <1>1, LayersAre, InSeq
  <2>3. Layers[k].type # "overlay"
    <3>1. ASSUME Layers[k].type = "overlay" PROVE e.kind = "overlay"
      <4>1. e = Entry(Layers[k].at, "overlay", Holder(Layers[k].at), FALSE)
        BY <1>1, <1>2, <2>1, <2>2, <3>1, Showing
      <4> QED BY <4>1 DEF Entry
    <3> QED BY <1>4, <3>1
  <2>4. Layers[k].at \in Bound BY <1>1, <2>3, LayersAre
  <2> QED BY <2>1, <2>4
<1>9. CASE ~UnderLayer(p) /\ ~UnderFresh(p) /\ e = Rebound(Root, p, ~DisableReadonly)
  <2> DEFINE h == Holder(p)
  <2>1. Root \in Path /\ AtOrUnder(p, Root) BY <1>2, Order
  <2>2. e.at = h /\ IsStrictPrefix(Root, h)
    <3>1. ~e.ro /\ ~DisableReadonly BY <1>4
    <3>2. CASE IsStrictPrefix(Root, h)
      <4>1. e = Entry(h, "host", h, FALSE) BY <1>9, <3>2 DEF Rebound
      <4> QED BY <3>2, <4>1 DEF Entry
    <3>3. CASE ~IsStrictPrefix(Root, h)
      <4>1. e = Entry(Root, "host", Holder(Root), TRUE) BY <1>9, <3>1, <3>3 DEF Rebound
      <4> QED BY <3>1, <4>1 DEF Entry
    <3> QED BY <3>2, <3>3
  <2>3. h \in DOMAIN host \ {Root} /\ h \in Path /\ AtOrUnder(p, h) BY <1>1, <1>2, <2>2, Holding DEF IsStrictPrefix
  <2>4. h \notin ToSet(Fresh) BY <1>9, <2>3 DEF UnderFresh
  <2>5. h \notin Writable
    <3>1. \A w \in Writable : \E k \in DOMAIN Layers : Layers[k].at = w
      BY <1>1, LayersAre DEF Writable, Mount
    <3> QED BY <1>9, <2>3, <3>1 DEF UnderLayer
  <2>6. h \notin config.readonly BY <1>1, <1>2, <1>4, <2>2 DEF ProtectedOK
  <2>7. h \notin Sockets
    <3>1. AtOrUnder(h, h) BY <2>3, Order
    <3> QED BY <1>1, <1>2, <1>4, <2>2, <3>1 DEF ProtectedOK
  <2>8. h \in late \cup config.readonly \cup Sockets \cup ToSet(Fresh) \cup Writable
    BY <1>1, <2>3 DEF ConfigOK, Running
  <2> QED BY <2>3, <2>4, <2>5, <2>6, <2>7, <2>8
<1> QED BY <1>1, <1>2, <1>3, <1>5, <1>6, <1>7, <1>8, <1>9, Topmost

\* The command writes to nothing of the host but what was declared, whatever
\* is mounted where (computeReadonlyHostMounts, persistentLayers,
\* ephemeralLayers).
THEOREM WritesSafe == Spec => []CommandWritesWhatWasDeclared
BY Invariance, WritesWhatWasDeclared, PTL

\* Whatever input was accepted, of the scratch base only this run's exec
\* directory shows, read-only: the layers lie apart from it, and it is mounted
\* over last.
LEMMA HidesScratch ==
  ASSUME IInv
  PROVE  ScratchIsHidden
<1> SUFFICES ASSUME Running, NEW p \in Tree
             PROVE  /\ shown[p].kind # "rootfs"
                    /\ AtOrUnder(p, ScratchBase) /\ shown[p].kind \in {"host", "overlay"} =>
                         AtOrUnder(p, Exec) /\ shown[p].ro
  BY DEF ScratchIsHidden
<1>1. TypeOK /\ RootsOK /\ ~ConfigConflict BY WhenRunning
<1>2. p \in Places /\ p \in Path BY <1>1, Typed DEF Places
<1>3. PICK e \in Entries : Laid(p, Len(Stack) + 1, e) /\ Seen(p, e) BY <1>2, WhenRunning
<1>4. \/ shown[p].kind = "null"
      \/ shown[p].kind = e.kind /\ (e.ro => shown[p].ro)
  BY <1>3, SeenAs
<1>5. e.kind # "rootfs" /\ (AtOrUnder(p, ScratchBase) => OnScratch(p, e))
  <2>1. CASE OnScratch(p, e) BY <2>1 DEF OnScratch, Entry
  <2>2. CASE OnInternal(p, e) /\ ~AtOrUnder(p, ScratchBase) BY <2>2 DEF OnInternal, Entry
  <2>3. CASE OnFresh(p, e) /\ ~AtOrUnder(p, ScratchBase) BY <2>3 DEF OnFresh, Entry
  <2>4. CASE OnLayers(p, e) /\ ~AtOrUnder(p, ScratchBase)
    <3>1. PICK k \in DOMAIN Layers : AtOrUnder(p, Layers[k].at) /\ e = MountShows(Layers[k], p)
      BY <2>4 DEF OnLayers
    <3>2. Layers[k] \in MountType /\ ~AtOrUnder(Rootfs, Layers[k].at) BY <1>1, LayersApart
    <3>3. Layers[k].at \in Path BY <3>2 DEF MountType
    <3>4. Layers[k].type \in {"rbind", "overlay"} BY <1>1, LayersAre
    <3>5. CASE Layers[k].type = "overlay"
      <4>1. e = Entry(Layers[k].at, "overlay", Holder(Layers[k].at), FALSE)
        BY <1>1, <1>2, <3>1, <3>2, <3>5, Showing
      <4>2. e.kind = "overlay" BY <4>1 DEF Entry
      <4> QED BY <2>4, <4>2
    <3>6. CASE Layers[k].type = "rbind"
      <4>1. e = Rebound(Layers[k].at, p, FALSE) BY <1>1, <1>2, <3>1, <3>2, <3>6, Showing
      <4> QED BY <1>1, <1>2, <2>4, <3>1, <3>3, <4>1, Rebinding
    <3> QED BY <3>4, <3>5, <3>6
  <2>5. CASE e = Rebound(Root, p, ~DisableReadonly) /\ ~AtOrUnder(p, ScratchBase)
    <3>1. Root \in Path /\ AtOrUnder(p, Root) BY <1>2, Order
    <3> QED BY <1>1, <1>2, <2>5, <3>1, Rebinding
  <2> QED BY <1>1, <1>2, <1>3, <2>1, <2>2, <2>3, <2>4, <2>5, Topmost
<1>6. OnScratch(p, e) => e.kind = "tmpfs" \/ (AtOrUnder(p, Exec) /\ e.ro) BY DEF OnScratch, Entry
<1> QED BY <1>4, <1>5, <1>6

\* Nothing of any step's scratch directory shows but the exec directory, under
\* any input that was accepted (scratchBaseLayers, assertScratchBaseNotWritable).
THEOREM ScratchSafe == Spec => []ScratchIsHidden
BY Invariance, HidesScratch, PTL

\* The sandbox's own mounts are on top of the layers, and runc's of no
\* writable bind.
LEMMA MountsWin ==
  ASSUME IInv
  PROVE  SandboxMountsWin
<1> SUFFICES ASSUME Running
             PROVE  /\ \A i \in DOMAIN InternalMounts : shown[InternalMounts[i].at].kind = "internal"
                    /\ \A f \in ToSet(Fresh) : shown[f].kind = "fresh" \/ \E r \in roots : AtOrUnder(f, r)
                    /\ \A s \in Sockets : shown[s].kind = "null" \/ ~Present(s)
  BY DEF SandboxMountsWin
<1>1. TypeOK /\ RootsOK /\ ProtectedOK /\ ~ConfigConflict /\ todo.masked = {} BY WhenRunning
<1>2. ASSUME NEW p \in Places, \A s \in Sockets : ~AtOrUnder(p, s)
      PROVE  p \in Path /\ \E e \in Entries : Laid(p, Len(Stack) + 1, e) /\ shown[p].kind = e.kind
  <2>1. p \in Path BY <1>1, Typed
  <2>2. PICK e \in Entries : Laid(p, Len(Stack) + 1, e) /\ Seen(p, e) BY WhenRunning
  <2>3. shown[p].kind = e.kind BY <1>2, <2>2, SeenAs
  <2> QED BY <2>1, <2>2, <2>3
<1>3. \A p \in Path : AtOrUnder(p, Exec) => AtOrUnder(p, ScratchBase)
  <2>1. \A x, y, z \in Path : AtOrUnder(x, y) /\ AtOrUnder(y, z) => AtOrUnder(x, z) BY Order
  <2> QED BY <1>1, <2>1, Typed
<1>4. ASSUME NEW i \in DOMAIN InternalMounts
      PROVE  shown[InternalMounts[i].at].kind = "internal"
  <2>1. PICK a \in Reserved : a = InternalMounts[i].at BY <1>1, InternalsAre
  <2>2. ~AtOrUnder(a, ScratchBase) /\ \A s \in Sockets : ~AtOrUnder(a, s) BY ApartAssumption
  <2>3. a \in Places BY DEF Places, Fixed
  <2>4. a \in Path /\ \E e \in Entries : Laid(a, Len(Stack) + 1, e) /\ shown[a].kind = e.kind
    BY <1>2, <2>2, <2>3
  <2>5. PICK e \in Entries : Laid(a, Len(Stack) + 1, e) /\ shown[a].kind = e.kind BY <2>4
  <2>6. UnderInternal(a)
    <3>1. AtOrUnder(a, a) BY <2>4, Order
    <3> QED BY <2>1, <3>1 DEF UnderInternal
  <2>7. ~OnScratch(a, e) BY <1>3, <2>2, <2>4 DEF OnScratch
  <2>8. OnInternal(a, e) BY <1>1, <2>4, <2>5, <2>6, <2>7, Topmost
  <2> QED BY <2>1, <2>5, <2>8 DEF OnInternal, Entry
<1>5. ASSUME NEW f \in ToSet(Fresh), \A r \in roots : ~AtOrUnder(f, r)
      PROVE  shown[f].kind = "fresh"
  <2>1. ~AtOrUnder(f, ScratchBase) /\ (\A s \in Sockets : ~AtOrUnder(f, s))
        /\ \A a \in Reserved : ~AtOrUnder(f, a)
    BY ApartAssumption
  <2>2. f \in Places BY DEF Places, Fixed
  <2>3. f \in Path /\ \E e \in Entries : Laid(f, Len(Stack) + 1, e) /\ shown[f].kind = e.kind
    BY <1>2, <2>1, <2>2
  <2>4. PICK e \in Entries : Laid(f, Len(Stack) + 1, e) /\ shown[f].kind = e.kind BY <2>3
  <2>5. ~OnScratch(f, e) BY <1>3, <2>1, <2>3 DEF OnScratch
  <2>6. ~OnInternal(f, e) BY <1>1, <2>1, InternalsAre DEF OnInternal
  <2>7. ~OnLayers(f, e)
    <3> SUFFICES ASSUME NEW k \in DOMAIN Layers, AtOrUnder(f, Layers[k].at) PROVE FALSE
      BY DEF OnLayers
    <3> DEFINE b == Layers[k].at
    <3>1. Layers[k].type = "rbind" BY <1>1, <1>5, LayersAre
    <3>2. b \in Path /\ ~Overlap(b, ScratchBase) /\ \A g \in ToSet(Fresh) : ~AtOrUnder(b, g)
      BY <1>1, <3>1, LayersApart DEF MountType
    <3> HIDE DEF b
    <3>3. b # Root BY <1>1, <3>2, Typed, Order DEF Overlap
    <3>4. <<f[1]>> \in ToSet(Fresh) /\ <<f[1]>> \in Path
      <4>1. <<f[1]>> \in ToSet(Fresh) BY ApartAssumption
      <4>2. ToSet(Fresh) \subseteq Path BY <1>1, Typed DEF Fixed
      <4> QED BY <4>1, <4>2
    <3>5. Len(b) \in Nat /\ Len(b) # 0 BY <3>2, <3>3, EmptySeq, LenProperties DEF Root, Path
    <3>6. 1 \in 1..Len(b) /\ b[1] = f[1] BY <2>3, <3>2, <3>5, Above DEF b
    <3>7. AtOrUnder(b, <<f[1]>>)
      <4>1. Len(<<f[1]>>) = 1 /\ <<f[1]>>[1] = f[1] OBVIOUS
      <4>2. PICK g \in Path : g = <<f[1]>> BY <3>4
      <4>3. Len(g) = 1 /\ g[1] = b[1] /\ Len(g) <= Len(b) BY <3>5, <3>6, <4>1, <4>2
      <4>4. \A j \in 1..Len(g) : g[j] = b[j] BY <4>3
      <4>5. AtOrUnder(b, g) BY <3>2, <4>3, <4>4, Above
      <4> QED BY <4>2, <4>5
    <3> QED BY <3>2, <3>4, <3>7
  <2>8. UnderFresh(f)
    <3>1. AtOrUnder(f, f) BY <2>3, Order
    <3> QED BY <3>1 DEF UnderFresh
  <2>9. OnFresh(f, e) BY <1>1, <2>3, <2>4, <2>5, <2>6, <2>7, <2>8, Topmost
  <2> QED BY <2>4, <2>9 DEF OnFresh, Entry
<1>6. \A s \in Sockets : shown[s].kind = "null" \/ ~Present(s) BY <1>1 DEF ProtectedOK
<1> QED BY <1>4, <1>5, <1>6

\* The resolver, the CA, runc's own mounts and the masked sockets are what the
\* command meets at their paths (buildOciConfig, validateFilesystemInputs,
\* assertNoFreshMountDestinations, resolveProtectedPaths).
THEOREM MountsWinSafe == Spec => []SandboxMountsWin
BY Invariance, MountsWin, PTL

\* A candidate for an overlay that is nested under another is folded into the
\* first such.
LEMMA Parenting ==
  ASSUME NEW c, \E p \in Candidates : Nests(p, c)
  PROVE  NestingParent(c) \in Candidates /\ Nests(NestingParent(c), c)
<1> DEFINE O == CandidateOrder
           T == {i \in 1..4 : Nests(O[i], c)}
<1>1. DOMAIN O = 1..4 /\ O[1] = dirs.home /\ O[2] = dirs.runnerTemp /\ O[3] = Tmp /\ O[4] = dirs.workdir
  BY DEF CandidateOrder
<1>2. \A p \in Candidates : \E i \in 1..4 : O[i] = p BY <1>1 DEF Candidates
<1>3. \A i \in 1..4 : O[i] \in Candidates
  <2> TAKE i \in 1..4
  <2>1. i = 1 \/ i = 2 \/ i = 3 \/ i = 4 OBVIOUS
  <2> QED BY <1>1, <2>1 DEF Candidates
<1>4. T \in SUBSET Nat /\ T # {} BY <1>2
<1>5. PICK i \in T : \A j \in T : i <= j
  <2> HIDE DEF T
  <2> QED BY <1>4, Least
<1>6. ASSUME NEW j \in 1..(i - 1) PROVE ~Nests(O[j], c)
  <2>1. j \in 1..4 /\ ~(i <= j) BY <1>5, <1>6
  <2> QED BY <1>5, <2>1
<1>7. \E n \in DOMAIN O : Nests(O[n], c) /\ \A j \in 1..(n - 1) : ~Nests(O[j], c) BY <1>1, <1>6
<1>8. PICK n \in DOMAIN O : Nests(O[n], c) /\ NestingParent(c) = O[n]
  <2> HIDE DEF T
  <2> QED BY <1>7 DEF NestingParent, O
<1> QED BY <1>1, <1>3, <1>8

\* An overlay root over a directory shows the directory's own filesystem, but
\* for one folded into an overlay of the same filesystem on another mount.
LEMMA Folded ==
  ASSUME TypeOK, NEW d \in Candidates \cap Tree, ~Covered(d),
         \A a \in Candidates :
           IsStrictPrefix(a, d) /\ DeviceOf(a) = DeviceOf(d) => Holder(a) = Holder(d)
  PROVE  \E r \in OverlayRoots : AtOrUnder(d, r) /\ Holder(r) = Holder(d)
<1> DEFINE C == {c \in Candidates \cap Tree : ~Covered(c) /\ AtOrUnder(d, c) /\ Holder(c) = Holder(d)}
           T == {Len(c) : c \in C}
<1>1. \A c \in Candidates : c \in Path BY Typed
<1>2. d \in C BY <1>1, Order
<1>3. T \in SUBSET Nat /\ T # {}
  <2>1. \A c \in C : Len(c) \in Nat BY <1>1, Order
  <2> QED BY <1>2, <2>1
<1>4. PICK t \in T : \A l \in T : t <= l
  <2> HIDE DEF T
  <2> QED BY <1>3, Least
<1>5. PICK c \in C : t = Len(c) OBVIOUS
<1>6. SUFFICES ASSUME c \notin OverlayRoots PROVE FALSE BY <1>5
<1>7. (\E p \in Candidates : Nests(p, c)) /\ DeviceOf(c) = DeviceOf(NestingParent(c))
  BY <1>5, <1>6 DEF OverlayRoots
<1>8. PICK h \in Candidates : Nests(h, c) /\ DeviceOf(c) = DeviceOf(h) BY <1>7, Parenting
<1>9. h # c /\ h \in Tree /\ ~Covered(h) /\ AtOrUnder(c, h) BY <1>8 DEF Nests
<1>10. h \in Path /\ c \in Path /\ d \in Path BY <1>1, <1>5
<1>11. Len(h) < Len(c) /\ Len(h) \in Nat /\ Len(c) \in Nat BY <1>9, <1>10, Order
<1>12. h \notin C
  <2>1. ~(t <= Len(h)) BY <1>5, <1>11
  <2>2. Len(h) \notin T BY <1>4, <2>1
  <2> QED BY <2>2
<1>13. AtOrUnder(d, c) /\ Holder(c) = Holder(d) BY <1>5
<1>14. AtOrUnder(d, h) BY <1>9, <1>10, <1>13, Order
<1>15. Holder(h) # Holder(d) BY <1>8, <1>9, <1>12, <1>14
<1>16. h # d BY <1>15
<1>17. IsStrictPrefix(h, d) BY <1>10, <1>14, <1>16, Order
<1>18. DeviceOf(h) = DeviceOf(d) BY <1>8, <1>13 DEF DeviceOf
<1> QED BY <1>8, <1>15, <1>17, <1>18

LEMMA DeclaredApart ==
  ASSUME TypeOK, RootsOK, ~InputConflict, ~ConfigConflict, ~DisableReadonly,
         NEW d \in Candidates \cup ToSet(input)
  PROVE  /\ d \in Path /\ \A a \in Reserved \cup BaseReadonly : ~AtOrUnder(d, a)
         /\ d \in ToSet(input) => d \in Bound
<1>1. ToSet(input) \subseteq Bound
  <2>1. CASE mode = "persistent" BY <2>1, PersistentBinds
  <2>2. CASE mode = "ephemeral" BY <2>2 DEF Bound
  <2> QED BY <2>1, <2>2 DEF TypeOK
<1>2. d \in Path BY Typed, SetsMounted
<1>3. CASE d \in Candidates
  <2>1. d \in {dirs.workdir, dirs.home, dirs.runnerTemp, Tmp} /\ dirs \in Layouts
    BY <1>3 DEF Candidates, TypeOK
  <2>2. \A a \in Reserved \cup BaseReadonly : ~AtOrUnder(d, a) BY <2>1, ApartAssumption
  <2> QED BY <1>1, <1>2, <2>2
<1>4. CASE d \in ToSet(input)
  <2>1. \A r \in Reserved : ~AtOrUnder(d, r) BY <1>4 DEF InputConflict
  <2>2. ASSUME NEW b \in BaseReadonly, AtOrUnder(d, b) PROVE FALSE
    <3>1. PICK f \in ToSet(Fresh) : AtOrUnder(b, f) BY ApartAssumption
    <3>2. b \in Path /\ f \in Path BY Typed DEF Fixed
    <3>3. AtOrUnder(d, f) BY <1>2, <2>2, <3>1, <3>2, Order
    <3> QED BY <1>1, <1>4, <3>3 DEF ConfigConflict
  <2> QED BY <1>1, <1>2, <2>1, <2>2
<1> QED BY <1>3, <1>4

\* A declared directory that layers are over is on the last of them, and no
\* read-only path over it is from the base spec.
LEMMA OnItsLayer ==
  ASSUME IInv, Running, ~DisableReadonly, ~moved, NEW d \in Tree,
         d \in Candidates \cup ToSet(input), \A s \in Sockets : ~AtOrUnder(d, s), UnderLayer(d)
  PROVE  \E k \in DOMAIN Layers, e \in Entries :
           /\ AtOrUnder(d, Layers[k].at) /\ e = MountShows(Layers[k], d)
           /\ \A l \in DOMAIN Layers : k < l => ~AtOrUnder(d, Layers[l].at)
           /\ \/ shown[d] = e
              \/ \E p \in DOMAIN host \ Writable : AtOrUnder(d, p) /\ AtOrUnder(p, e.at)
<1>1. TypeOK /\ RootsOK /\ ConfigOK /\ ~ConfigConflict /\ ~InputConflict BY WhenRunning
<1>2. d \in Places /\ d \in Path /\ \A a \in Reserved \cup BaseReadonly : ~AtOrUnder(d, a)
  BY <1>1, DeclaredApart DEF Places
<1>3. PICK e \in Entries : Laid(d, Len(Stack) + 1, e) /\ Seen(d, e) BY <1>2, WhenRunning
<1>4. ~AtOrUnder(d, ScratchBase)
  <2>1. PICK k \in DOMAIN Layers : AtOrUnder(d, Layers[k].at) BY DEF UnderLayer
  <2>2. Layers[k].at \in Path /\ ~Overlap(Layers[k].at, ScratchBase) BY <1>1, LayersApart DEF MountType
  <2>3. ScratchBase \in Path BY <1>1, Typed
  <2> QED BY <1>2, <2>1, <2>2, <2>3, Order DEF Overlap
<1>5. ~AtOrUnder(d, Exec)
  <2>1. \A x, y, z \in Path : AtOrUnder(x, y) /\ AtOrUnder(y, z) => AtOrUnder(x, z) BY Order
  <2> QED BY <1>1, <1>2, <1>4, <2>1, Typed
<1>6. ~OnScratch(d, e) BY <1>4, <1>5 DEF OnScratch
<1>7. ~OnInternal(d, e) BY <1>1, <1>2, InternalsAre DEF OnInternal
<1>8. OnLayers(d, e) BY <1>1, <1>2, <1>3, <1>6, <1>7, Topmost
<1>9. PICK k \in DOMAIN Layers :
        /\ AtOrUnder(d, Layers[k].at) /\ e = MountShows(Layers[k], d)
        /\ \A l \in DOMAIN Layers : k < l => ~AtOrUnder(d, Layers[l].at)
  BY <1>8 DEF OnLayers
<1>10. \/ shown[d] = e
       \/ \E p \in config.readonly : AtOrUnder(d, p) /\ AtOrUnder(p, e.at)
  BY <1>3, SeenAs
<1>11. \A p \in config.readonly : AtOrUnder(d, p) => p \in DOMAIN host \ Writable
  BY <1>1, <1>2 DEF ConfigOK, Running
<1> QED BY <1>9, <1>10, <1>11

\* Under a bind its files can be written, or a host mount below it cuts off
\* all but itself.
LEMMA UnderBind ==
  ASSUME TypeOK, RootsOK, ~ConfigConflict, NEW d \in Path, NEW k \in DOMAIN Layers,
         Layers[k].type = "rbind", AtOrUnder(d, Layers[k].at), NEW e, e = MountShows(Layers[k], d)
  PROVE  /\ e.kind = "host" /\ ~e.ro /\ e.layer = Holder(d)
         /\ \A p \in DOMAIN host \ Writable : AtOrUnder(d, p) /\ AtOrUnder(p, e.at) =>
              /\ Holder(d) \in DOMAIN host \ Writable /\ IsStrictPrefix(Layers[k].at, Holder(d))
<1> DEFINE a == Layers[k].at
           h == Holder(d)
<1>1. Layers[k] \in MountType /\ a \in Writable /\ ~AtOrUnder(Rootfs, a) BY LayersApart
<1>2. a \in Path BY <1>1 DEF MountType
<1>3. e = Rebound(a, d, FALSE) BY <1>1, Showing
<1>4. /\ e.kind = "host" /\ e.layer = h /\ ~e.ro
      /\ (e.at = a /\ ~IsStrictPrefix(a, h)) \/ (e.at = h /\ IsStrictPrefix(a, h))
  <2>1. AtOrUnder(d, a) /\ FALSE \in BOOLEAN OBVIOUS
  <2> HIDE DEF a
  <2>2. /\ Rebound(a, d, FALSE).kind = "host" /\ Rebound(a, d, FALSE).layer = Holder(d)
        /\ \/ Rebound(a, d, FALSE).at = a /\ Rebound(a, d, FALSE).ro = FALSE
              /\ ~IsStrictPrefix(a, Holder(d))
           \/ Rebound(a, d, FALSE).at = Holder(d) /\ IsStrictPrefix(a, Holder(d))
              /\ ~Rebound(a, d, FALSE).ro
    BY <1>2, <2>1, Rebinding
  <2> QED BY <1>3, <2>2
<1>5. h \in DOMAIN host /\ h \in Path /\ AtOrUnder(d, h) /\ \A n \in DOMAIN host : AtOrUnder(d, n) => AtOrUnder(h, n)
  BY Holding
<1> HIDE DEF a, h
<1>6. ASSUME NEW p \in DOMAIN host \ Writable, AtOrUnder(d, p), AtOrUnder(p, e.at)
      PROVE  h \in DOMAIN host \ Writable /\ IsStrictPrefix(a, h)
  <2>1. p \in Path /\ AtOrUnder(h, p) BY <1>5, <1>6, Typed
  <2>2. CASE e.at = a /\ ~IsStrictPrefix(a, h)
    <3>1. p # a BY <1>1, <1>6 DEF a
    <3>2. AtOrUnder(h, a) BY <1>2, <1>5, <1>6, <2>1, <2>2, Order
    <3>3. h # a BY <1>2, <1>6, <2>1, <2>2, <3>1, Order
    <3> QED BY <1>2, <1>5, <2>2, <3>2, <3>3, Order
  <2>3. CASE e.at = h /\ IsStrictPrefix(a, h)
    <3>1. p = h BY <1>5, <1>6, <2>1, <2>3, Order
    <3> QED BY <1>6, <2>3, <3>1
  <2> QED BY <1>4, <2>2, <2>3
<1> QED BY <1>4, <1>6 DEF a, h

\* Under the last of the overlays over it, when one of them shows its own
\* filesystem.
LEMMA UnderOverlay ==
  ASSUME TypeOK, RootsOK, ~ConfigConflict, mode = "ephemeral", NEW d \in Path, NEW k \in DOMAIN Layers,
         Layers[k].type = "overlay", AtOrUnder(d, Layers[k].at), NEW e, e = MountShows(Layers[k], d),
         \A l \in DOMAIN Layers : k < l => ~AtOrUnder(d, Layers[l].at),
         NEW r \in roots, AtOrUnder(d, r), Holder(r) = Holder(d)
  PROVE  /\ e.kind = "overlay" /\ ~e.ro /\ e.layer = Holder(d)
         /\ \A p \in DOMAIN host \ Writable : ~(AtOrUnder(d, p) /\ AtOrUnder(p, e.at))
<1> DEFINE a == Layers[k].at
           h == Holder(d)
<1>1. Layers[k] \in MountType /\ a \in Writable BY LayersApart
<1>2. a \in Path /\ r \in Path BY <1>1, SetsMounted DEF MountType
<1>3. e = Entry(a, "overlay", Holder(a), FALSE) BY <1>1, Showing
<1>4. e.at = a /\ e.kind = "overlay" /\ e.layer = Holder(a) /\ ~e.ro BY <1>3 DEF Entry
<1>5. h \in DOMAIN host /\ h \in Path /\ AtOrUnder(d, h) /\ \A n \in DOMAIN host : AtOrUnder(d, n) => AtOrUnder(h, n)
  BY Holding
<1>6. AtOrUnder(a, r)
  <2>1. PICK l \in DOMAIN Layers : Layers[l] = Mount(r, "overlay") BY LayersAre
  <2>2. Layers[l].at = r /\ Layers[l].type = "overlay" BY <2>1 DEF Mount
  <2>3. ~(k < l) BY <2>2
  <2>4. k \in Nat /\ l \in Nat BY LayersAre, LenProperties
  <2>5. CASE l = k BY <1>2, <2>2, <2>5, Order
  <2>6. CASE l < k
    <3>1. ~IsStrictPrefix(a, r) BY <2>2, <2>6, LayersAre
    <3> HIDE DEF a
    <3>2. AtOrUnder(a, r) \/ AtOrUnder(r, a) BY <1>2, Order DEF a
    <3> QED BY <1>2, <3>1, <3>2, Order
  <2> QED BY <2>3, <2>4, <2>5, <2>6
<1>7. AtOrUnder(a, h)
  <2>1. AtOrUnder(r, h) BY <1>2, Holding
  <2> HIDE DEF a, h
  <2> QED BY <1>2, <1>5, <1>6, <2>1, Order
<1>8. Holder(a) = h BY <1>2, <1>7, SameHolder
<1> HIDE DEF a, h
<1>9. ASSUME NEW p \in DOMAIN host \ Writable, AtOrUnder(d, p), AtOrUnder(p, e.at) PROVE FALSE
  <2>1. p \in Path /\ AtOrUnder(h, p) BY <1>5, <1>9, Typed
  <2>2. AtOrUnder(a, p) BY <1>2, <1>5, <1>7, <2>1, Order
  <2>3. p = a BY <1>2, <1>4, <1>9, <2>1, <2>2, Order
  <2> QED BY <1>1, <1>9, <2>3
<1> QED BY <1>4, <1>8, <1>9 DEF h

\* What is declared can be written.
LEMMA DeclaredUsable ==
  ASSUME IInv
  PROVE  DeclaredDirsAreUsable
<1> SUFFICES ASSUME Running, ~DisableReadonly, ~moved, NEW d \in (Candidates \cap Tree) \cup ToSet(input),
                    \A m \in Sockets : ~AtOrUnder(d, m), ~CutOff(d)
             PROVE  Usable(d) /\ (shown[d].kind = "overlay" <=> ~\E b \in Bound : AtOrUnder(d, b))
  BY DEF DeclaredDirsAreUsable
<1>1. TypeOK /\ RootsOK /\ PlanOK /\ TodoOK /\ ~ConfigConflict /\ ~InputConflict BY WhenRunning
<1>2. d \in Path /\ (d \in ToSet(input) => d \in Bound) BY <1>1, DeclaredApart
<1>3. AtOrUnder(d, d) BY <1>2, Order
<1>4. \A b \in Bound : \E k \in DOMAIN Layers : Layers[k] = Mount(b, "rbind") BY <1>1, LayersAre
<1>5. d \in Tree
  <2> SUFFICES ASSUME d \in Bound PROVE d \in Tree BY <1>2
  <2>1. PICK k \in DOMAIN Layers : Layers[k] = Mount(d, "rbind") BY <1>4
  <2>2. k \in 1..Len(Layers) BY <1>1, LayersAre, LenProperties
  <2>3. /\ Len(Fresh) \in Nat /\ Len(Layers) \in Nat /\ Len(InternalMounts) \in Nat
        /\ Len(Stack) = Len(Fresh) + Len(Layers) + Len(InternalMounts) + 2
        /\ Stack[Len(Fresh) + k] = Layers[k]
    BY <1>1, <2>2, StackIs
  <2>4. todo.next = Len(Stack) + 1 BY WhenRunning
  <2>5. Len(Fresh) + k \in 1..(todo.next - 1) BY <2>2, <2>3, <2>4
  <2>6. Stack[Len(Fresh) + k].type = "rbind" /\ Stack[Len(Fresh) + k].at = d BY <2>1, <2>3 DEF Mount
  <2> QED BY <1>1, <2>5, <2>6 DEF TodoOK
<1>6. ASSUME mode = "ephemeral", \A b \in Bound : ~AtOrUnder(d, b)
      PROVE  \E r \in roots : AtOrUnder(d, r) /\ Holder(r) = Holder(d)
  <2>1. d \notin Bound BY <1>3, <1>6
  <2>2. d \in Candidates \cap Tree BY <1>2, <2>1
  <2>3. ~Covered(d) BY <1>6 DEF Covered, Bound
  <2>4. \A a \in Candidates :
          IsStrictPrefix(a, d) /\ DeviceOf(a) = DeviceOf(d) => Holder(a) = Holder(d)
    BY <1>6, <2>1 DEF CutOff
  <2>5. roots = OverlayRoots BY <1>1, <1>6 DEF PlanOK, Running
  <2> QED BY <1>1, <2>2, <2>3, <2>4, <2>5, Folded
<1>7. UnderLayer(d)
  <2>1. CASE \E b \in Bound : AtOrUnder(d, b) BY <1>4, <2>1 DEF UnderLayer, Mount
  <2>2. CASE (\A b \in Bound : ~AtOrUnder(d, b)) /\ mode = "ephemeral"
    <3>1. PICK r \in roots : AtOrUnder(d, r) BY <1>6, <2>2
    <3>2. \E k \in DOMAIN Layers : Layers[k] = Mount(r, "overlay") BY <1>1, LayersAre
    <3> QED BY <3>1, <3>2 DEF UnderLayer, Mount
  <2>3. CASE (\A b \in Bound : ~AtOrUnder(d, b)) /\ mode = "persistent"
    BY <1>1, <1>3, <2>3, PersistentBinds
  <2> QED BY <1>1, <2>1, <2>2, <2>3 DEF TypeOK
<1>8. PICK k \in DOMAIN Layers, e \in Entries :
        /\ AtOrUnder(d, Layers[k].at) /\ e = MountShows(Layers[k], d)
        /\ \A l \in DOMAIN Layers : k < l => ~AtOrUnder(d, Layers[l].at)
        /\ \/ shown[d] = e
           \/ \E p \in DOMAIN host \ Writable : AtOrUnder(d, p) /\ AtOrUnder(p, e.at)
  BY <1>5, <1>7, OnItsLayer
<1>9. k \in Nat /\ DOMAIN Layers \subseteq Nat BY <1>1, LayersAre, LenProperties
<1>10. CASE Layers[k].type = "rbind"
  <2> DEFINE a == Layers[k].at
  <2>1. a \in Bound BY <1>1, <1>10, LayersAre
  <2>2. /\ e.kind = "host" /\ ~e.ro /\ e.layer = Holder(d)
        /\ \A p \in DOMAIN host \ Writable : AtOrUnder(d, p) /\ AtOrUnder(p, e.at) =>
             /\ Holder(d) \in DOMAIN host \ Writable /\ IsStrictPrefix(a, Holder(d))
    BY <1>1, <1>2, <1>8, <1>10, UnderBind
  <2>3. CASE shown[d] = e BY <1>8, <2>1, <2>2, <2>3 DEF Usable
  <2>4. CASE Holder(d) \in DOMAIN host \ Writable /\ IsStrictPrefix(a, Holder(d))
    <3>1. Holder(d) \in Path /\ AtOrUnder(d, Holder(d)) /\ a \in Path BY <1>1, <1>2, <2>1, Holding, LayersAre
    <3> HIDE DEF a
    <3>2. d # a BY <2>4, <3>1, <1>2, Order
    <3>3. CASE mode = "persistent"
      <4> DEFINE W == WritableDirs
      <4>1. /\ W \in Seq(Path) /\ Layers = Mounts(W, "rbind")
            /\ Candidates \cup ToSet(input) \subseteq ToSet(W) /\ Bound = ToSet(W)
        BY <1>1, <3>3, PersistentBinds
      <4>2. DOMAIN Layers = DOMAIN W /\ \A i \in DOMAIN W : Layers[i] = Mount(W[i], "rbind")
        BY <4>1, MountsOf DEF Types
      <4>3. \A i \in DOMAIN W : Layers[i].at = W[i] BY <4>2 DEF Mount
      <4> HIDE DEF W
      <4>4. d \in ToSet(W) BY <4>1
      <4>5. PICK i \in DOMAIN W : W[i] = d BY <4>1, <4>4, InSeq
      <4>6. W[k] = a BY <4>2, <4>3 DEF a
      <4>7. i # k BY <3>2, <4>5, <4>6
      <4>8. ~(k < i) BY <1>3, <1>8, <4>2, <4>3, <4>5
      <4>9. i < k BY <1>9, <4>2, <4>7, <4>8
      <4>10. d \in Writable BY <4>1, <4>4 DEF Writable
      <4>11. IsStrictPrefix(Holder(d), d) BY <1>2, <2>4, <3>1, <4>10, Order
      <4>12. CutOff(d) BY <2>4, <3>3, <4>2, <4>5, <4>6, <4>9, <4>11 DEF CutOff, W
      <4> QED BY <4>12
    <3>4. CASE mode = "ephemeral"
      <4>1. d \notin Bound
        <5> SUFFICES ASSUME d \in Bound PROVE FALSE OBVIOUS
        <5>1. PICK l \in DOMAIN Layers : Layers[l] = Mount(d, "rbind") BY <1>4
        <5>2. Layers[l].at = d /\ Layers[l].type = "rbind" BY <5>1 DEF Mount
        <5>3. ~(k < l) BY <1>3, <1>8, <5>2
        <5>4. l # k BY <3>2, <5>2 DEF a
        <5>5. l < k BY <1>9, <5>3, <5>4
        <5>6. ~IsStrictPrefix(a, d) BY <1>1, <1>10, <3>4, <5>2, <5>5, LayersAre DEF a
        <5>7. AtOrUnder(d, a) BY <1>8 DEF a
        <5> QED BY <1>2, <3>1, <3>2, <5>6, <5>7, Order
      <4>2. CutOff(d) BY <2>1, <2>4, <3>1, <3>4, <4>1 DEF CutOff
      <4> QED BY <4>2
    <3> QED BY <1>1, <3>3, <3>4 DEF TypeOK
  <2> QED BY <1>8, <2>2, <2>3, <2>4
<1>11. CASE Layers[k].type = "overlay"
  <2>1. mode = "ephemeral"
    <3>1. Layers[k].at \in roots BY <1>1, <1>11, LayersAre
    <3> QED BY <1>1, <3>1 DEF TypeOK, RootsOK
  <2>2. ASSUME NEW b \in Bound, AtOrUnder(d, b) PROVE FALSE
    <3>1. PICK l \in DOMAIN Layers : Layers[l] = Mount(b, "rbind") BY <1>4
    <3>2. Layers[l].at = b /\ Layers[l].type = "rbind" BY <3>1 DEF Mount
    <3>3. ~(k < l) BY <1>8, <2>2, <3>2
    <3>4. l # k BY <1>11, <3>2
    <3>5. l < k BY <1>9, <3>3, <3>4
    <3> QED BY <1>1, <1>11, <2>1, <3>2, <3>5, LayersAre
  <2>3. PICK r \in roots : AtOrUnder(d, r) /\ Holder(r) = Holder(d) BY <1>6, <2>1, <2>2
  <2>4. /\ e.kind = "overlay" /\ ~e.ro /\ e.layer = Holder(d)
        /\ \A p \in DOMAIN host \ Writable : ~(AtOrUnder(d, p) /\ AtOrUnder(p, e.at))
    BY <1>1, <1>2, <1>8, <1>11, <2>1, <2>3, UnderOverlay
  <2>5. shown[d] = e BY <1>8, <2>4
  <2> QED BY <2>2, <2>4, <2>5 DEF Usable
<1> QED BY <1>1, <1>10, <1>11, LayersAre

\* What was declared can be written and is the host's own, but where one of the
\* three ways of CutOff says otherwise (writableDirsOf, determineOverlayRoots).
THEOREM DeclaredSafe == Spec => []DeclaredDirsAreUsable
BY Invariance, DeclaredUsable, PTL
=============================================================================
