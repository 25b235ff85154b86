-------------------------- MODULE ReportLogProofs --------------------------
(***************************************************************************)
(* The record a report makes of a log, for files and lines of any number   *)
(* and any restart, rotation or end of the container: it is complete when  *)
(* the report takes it to be, and under fail_on_blocked the step is failed *)
(* by a refusal, or by a line that may have been one, and by nothing else. *)
(***************************************************************************)
EXTENDS ReportLog, SequenceTheorems, TLAPS

LinesOf(l) == Lines[l] \cup {Marker}
AllLogs == {"haproxy", "coredns"}
File == [name : Nat, from : Nat, to : Nat]

Typed ==
  /\ engine \in {"universal", "inspect"} /\ audit \in BOOLEAN /\ failOnBlocked \in BOOLEAN
  /\ written \in [Logs -> Seq(UNION {LinesOf(l) : l \in AllLogs})]
  /\ stored \in [Logs -> Nat \ {0}] /\ rotations \in [Logs -> Nat]
  /\ archives \in [Logs -> Seq(File)] /\ listing \in [Logs -> Seq(Int)]
  /\ listed \in [Logs -> Nat \X Nat] /\ read \in [Logs -> SUBSET Nat]
  /\ phase \in {"command", "fetch", "summary", "annotate", "upload", "done"}
  /\ exitCode \in {0, 1} /\ warned \in BOOLEAN

\* The lines a service wrote are its own, the first of them its marker.
WrittenOK(l) ==
  /\ Len(written[l]) >= 1 /\ written[l][1] = Marker
  /\ \A i \in 1..Len(written[l]) : written[l][i] \in LinesOf(l)

\* The files are intervals of the log, one after the other and up to `current`.
FilesOK(l) ==
  /\ stored[l] <= Len(written[l])
  /\ rotations[l] * SegmentLines <= stored[l] /\ stored[l] < (rotations[l] + 1) * SegmentLines
  /\ Len(archives[l]) <= rotations[l]
  /\ \A i \in 1..Len(archives[l]) :
       LET name == rotations[l] - Len(archives[l]) + i IN
       archives[l][i] = [name |-> name, from |-> (name - 1) * SegmentLines + 1, to |-> name * SegmentLines]

\* The oldest line that is left.
First(l) == (rotations[l] - Len(archives[l])) * SegmentLines + 1

\* While no file is renamed, what is read is what comes before the rest of the list.
InOrder(l) ==
  LET rest == Len(listing[l]) IN
    /\ rest <= Len(archives[l]) + 1
    /\ \A i \in 1..rest : listing[l][i] = IF i < rest THEN rotations[l] - rest + 1 + i ELSE Current
    /\ rest > 0 => read[l] = First(l)..((rotations[l] - rest + 1) * SegmentLines)
    /\ rest = 0 => \E last \in listed[l][1]..stored[l] : read[l] = First(l)..last

ReadingOK(l) ==
  /\ read[l] \subseteq 1..stored[l]
  /\ listing[l] = NotListed => read[l] = {}
  /\ listing[l] # NotListed =>
       /\ \A i \in 1..Len(listing[l]) : listing[l][i] \in Nat
       /\ listed[l][1] \in 1..stored[l] /\ listed[l][2] <= rotations[l]
       /\ ~RotatedWhileRead(l) => InOrder(l)

\* The report is past its reading.
AllRead ==
  (phase \in {"summary", "annotate", "upload"} \/ (phase = "done" /\ ~warned)) =>
    \A l \in Logs : listing[l] = <<>>

\* A refusal in the files decides a step under fail_on_blocked, and nothing else.
RefusalsCount ==
  \A l \in Logs : (\E i \in Stored(l) : Refusal(written[l][i])) =>
    exitCode = 1 \/ RotatedWhileRead(l) \/ RestartHeads(l)

Decided ==
  /\ phase \in {"command", "fetch", "summary", "annotate"} => exitCode = 0
  /\ (phase = "upload" \/ (phase = "done" /\ ~warned)) /\ ~audit /\ failOnBlocked => RefusalsCount
  /\ exitCode = 1 =>
       /\ ~audit /\ failOnBlocked
       /\ \E l \in Logs : Missed(l) # {} \/ \E i \in read[l] : Refusal(written[l][i])

IInv ==
  /\ Typed
  /\ \A l \in Logs : WrittenOK(l) /\ FilesOK(l) /\ ReadingOK(l)
  /\ AllRead /\ Decided

-----------------------------------------------------------------------------
(* Arithmetic, and intervals.                                              *)

LEMMA NextFile ==
  ASSUME NEW a \in Nat
  PROVE  (a + 1) * SegmentLines = a * SegmentLines + SegmentLines
         /\ a * SegmentLines \in Nat
BY ReportLogAssumption

LEMMA LaterFile ==
  ASSUME NEW a \in Nat, NEW b \in Nat, a <= b
  PROVE  a * SegmentLines <= b * SegmentLines
<1> DEFINE d == b - a
<1>1. d \in Nat /\ b = a + d OBVIOUS
<1>2. b * SegmentLines = a * SegmentLines + d * SegmentLines BY <1>1, ReportLogAssumption
<1>3. d * SegmentLines \in Nat /\ a * SegmentLines \in Nat BY <1>1, ReportLogAssumption
<1> QED BY <1>2, <1>3

LEMMA Intervals ==
  ASSUME NEW a \in Nat, NEW b \in Nat, NEW c \in Nat, a <= b + 1, b <= c
  PROVE  (a..b) \cup ((b + 1)..c) = a..c
OBVIOUS

\* The least of a set of line numbers that has a least one.
LEMMA LeastLine ==
  ASSUME NEW S \in SUBSET Nat, NEW a \in S, \A b \in S : a <= b
  PROVE  Min(S) = a
<1> DEFINE m == Min(S)
<1>1. m \in S /\ \A b \in S : m <= b BY DEF Min
<1> HIDE DEF m
<1>2. m = a BY <1>1
<1> QED BY <1>2 DEF m

\* What there is of each log.
LEMMA LogTypes ==
  ASSUME Typed, NEW l \in Logs
  PROVE  /\ l \in AllLogs /\ (l = "coredns" => engine = "inspect")
         /\ written[l] \in Seq(UNION {LinesOf(k) : k \in AllLogs})
         /\ stored[l] \in Nat \ {0} /\ rotations[l] \in Nat /\ archives[l] \in Seq(File)
         /\ listing[l] \in Seq(Int) /\ listed[l] \in Nat \X Nat /\ read[l] \in SUBSET Nat
BY DEF Typed, Logs, LogsOf, AllLogs

LEMMA EmptyLists == <<>> # NotListed /\ Len(<<>>) = 0
BY DEF NotListed

\* What is read of files that kept their names starts with the first of them.
LEMMA HeadOfRead ==
  ASSUME IInv, NEW l \in Logs, listing[l] = <<>>, ~RotatedWhileRead(l)
  PROVE  /\ First(l) \in Nat \ {0}
         /\ read[l] # {} => Min(read[l]) = First(l) /\ First(l) \in read[l]
         /\ First(l) = 1 => Missed(l) = {}
<1>1. Typed /\ FilesOK(l) /\ ReadingOK(l) BY DEF IInv
<1>2. /\ stored[l] \in Nat \ {0} /\ rotations[l] \in Nat /\ Len(archives[l]) \in Nat
      /\ listed[l] \in Nat \X Nat /\ read[l] \in SUBSET Nat
  <2>1. archives[l] \in Seq(File) BY <1>1, LogTypes
  <2>2. Len(archives[l]) \in Nat BY <2>1
  <2>3. /\ stored[l] \in Nat \ {0} /\ rotations[l] \in Nat
        /\ listed[l] \in Nat \X Nat /\ read[l] \in SUBSET Nat
    BY <1>1, LogTypes
  <2> QED BY <2>2, <2>3
<1>3. PICK last \in listed[l][1]..stored[l] : read[l] = First(l)..last
  BY <1>1, EmptyLists DEF ReadingOK, InOrder
<1>4. First(l) \in Nat \ {0}
  <2>1. rotations[l] - Len(archives[l]) \in Nat BY <1>1, <1>2 DEF FilesOK
  <2>2. (rotations[l] - Len(archives[l])) * SegmentLines \in Nat BY <2>1, NextFile
  <2> QED BY <2>2 DEF First
<1>5. ASSUME read[l] # {} PROVE Min(read[l]) = First(l) /\ First(l) \in read[l]
  <2>1. First(l) \in read[l] /\ \A b \in read[l] : First(l) <= b
    BY <1>2, <1>3, <1>4, <1>5
  <2> QED BY <2>1, <1>2, LeastLine
<1>6. First(l) = 1 => Missed(l) = {} BY <1>2, <1>3 DEF Missed, Stored
<1> QED BY <1>4, <1>5, <1>6

\* What has been read or listed of a log is there, and stays there.
LEMMA LinesThere ==
  ASSUME IInv, NEW l \in Logs
  PROVE  /\ read[l] \subseteq 1..Len(written[l])
         /\ listing[l] # NotListed => Stored(l) \subseteq 1..Len(written[l])
<1>1. Typed /\ WrittenOK(l) /\ FilesOK(l) /\ ReadingOK(l) BY DEF IInv
<1>2. stored[l] \in Nat \ {0} /\ Len(written[l]) \in Nat /\ listed[l] \in Nat \X Nat
  <2>1. written[l] \in Seq(UNION {LinesOf(k) : k \in AllLogs}) BY <1>1, LogTypes
  <2>2. stored[l] \in Nat \ {0} /\ listed[l] \in Nat \X Nat BY <1>1, LogTypes
  <2> QED BY <2>1, <2>2
<1>3. stored[l] <= Len(written[l]) BY <1>1 DEF FilesOK
<1> QED BY <1>1, <1>2, <1>3 DEF ReadingOK, Stored

\* What was decided stays true while the services write and their logs rotate.
LEMMA DecidedStays ==
  ASSUME IInv, UNCHANGED <<inputs, exitCode, warned>>,
         \/ phase' = phase /\ UNCHANGED <<listed, read>>
         \/ phase = "upload" /\ phase' = "done" /\ UNCHANGED <<listed, read>>,
         \A l \in Logs : rotations'[l] \in Nat /\ rotations'[l] >= rotations[l],
         \A l \in Logs : \A i \in 1..Len(written[l]) : written'[l][i] = written[l][i]
  PROVE  Decided'
<1>1. Typed /\ AllRead /\ Decided /\ Logs' = Logs BY DEF IInv, Logs, inputs
<1>2. UNCHANGED <<audit, failOnBlocked, listed, read>> BY DEF inputs
<1>3. phase' \in {"command", "fetch", "summary", "annotate"} => exitCode' = 0
  BY <1>1 DEF Decided
<1>4. ASSUME phase' = "upload" \/ (phase' = "done" /\ ~warned'), ~audit', failOnBlocked'
      PROVE  RefusalsCount'
  <2>1. RefusalsCount /\ \A l \in Logs : listing[l] = <<>>
    BY <1>1, <1>2, <1>4 DEF Decided, AllRead
  <2> SUFFICES ASSUME NEW l \in Logs, NEW i \in Stored(l), Refusal(written'[l][i]), ~RotatedWhileRead(l)',
                      exitCode' # 1
               PROVE  RestartHeads(l)'
    BY <1>1, <1>2 DEF RefusalsCount, Stored
  <2>2. listing[l] = <<>> /\ listing[l] # NotListed BY <2>1, EmptyLists
  <2>3. Refusal(written[l][i]) BY <2>2, LinesThere
  <2>4. ~RotatedWhileRead(l)
    <3>1. rotations[l] \in Nat /\ listed[l] \in Nat \X Nat BY <1>1, LogTypes
    <3>2. listed[l][2] <= rotations[l] BY <2>2 DEF IInv, ReadingOK
    <3> QED BY <1>2, <3>1, <3>2 DEF RotatedWhileRead
  <2>5. RestartHeads(l) BY <2>1, <2>3, <2>4 DEF RefusalsCount
  <2>6. Min(read[l]) \in read[l] BY <2>2, <2>4, <2>5, HeadOfRead DEF RestartHeads
  <2>7. written'[l][Min(read[l])] = written[l][Min(read[l])] BY <2>6, LinesThere
  <2> QED BY <1>2, <2>5, <2>7 DEF RestartHeads
<1>5. ASSUME exitCode' = 1
      PROVE  /\ ~audit' /\ failOnBlocked'
             /\ \E l \in Logs' : Missed(l)' # {} \/ \E i \in read'[l] : Refusal(written'[l][i])
  <2>1. ~audit /\ failOnBlocked BY <1>1, <1>5 DEF Decided
  <2>2. PICK l \in Logs : Missed(l) # {} \/ \E i \in read[l] : Refusal(written[l][i])
    BY <1>1, <1>5 DEF Decided
  <2>3. Missed(l)' = Missed(l) BY <1>2 DEF Missed, Stored
  <2>4. \A i \in read[l] : written'[l][i] = written[l][i] BY LinesThere
  <2> QED BY <1>1, <1>2, <2>1, <2>2, <2>3, <2>4
<1> QED BY <1>3, <1>4, <1>5 DEF Decided

\* The other logs keep what is known of them.
LEMMA LogStays ==
  ASSUME NEW l, written'[l] = written[l], stored'[l] = stored[l], archives'[l] = archives[l],
         rotations'[l] = rotations[l], listing'[l] = listing[l], listed'[l] = listed[l], read'[l] = read[l],
         WrittenOK(l), FilesOK(l), ReadingOK(l)
  PROVE  WrittenOK(l)' /\ FilesOK(l)' /\ ReadingOK(l)'
<1>1. WrittenOK(l)' BY DEF WrittenOK
<1>2. FilesOK(l)' BY DEF FilesOK
<1>3. First(l)' = First(l) /\ RotatedWhileRead(l)' = RotatedWhileRead(l) BY DEF First, RotatedWhileRead
<1>4. InOrder(l)' = InOrder(l) BY <1>3 DEF InOrder
<1> HIDE DEF InOrder, RotatedWhileRead
<1>5. ReadingOK(l)' BY <1>3, <1>4 DEF ReadingOK
<1> QED BY <1>1, <1>2, <1>5

-----------------------------------------------------------------------------
(* The services and s6-log.                                                *)

LEMMA WriteKeepsInv ==
  ASSUME IInv, NEW l \in Logs, NEW line \in LinesOf(l), Write(l, line)
  PROVE  IInv'
<1> DEFINE AllLines == UNION {LinesOf(k) : k \in AllLogs}
<1>1. Typed /\ Logs' = Logs BY DEF IInv, Logs, Write, inputs
<1>2. l \in AllLogs /\ written[l] \in Seq(AllLines) /\ line \in AllLines BY <1>1, LogTypes
<1>3. written' = [written EXCEPT ![l] = Append(written[l], line)] BY DEF Write
<1>4. /\ Append(written[l], line) \in Seq(AllLines)
      /\ Len(Append(written[l], line)) = Len(written[l]) + 1
      /\ \A i \in 1..Len(written[l]) : Append(written[l], line)[i] = written[l][i]
      /\ Append(written[l], line)[Len(written[l]) + 1] = line
  BY <1>2, AppendProperties
<1>5. written \in [Logs -> Seq(AllLines)] BY <1>1 DEF Typed
<1>6. /\ written'[l] = Append(written[l], line)
      /\ \A k \in Logs \ {l} : written'[k] = written[k]
      /\ written' \in [Logs -> Seq(AllLines)]
  BY <1>3, <1>4, <1>5
<1>7. Typed' BY <1>1, <1>6 DEF Typed, Write, inputs
<1>8. ASSUME NEW k \in Logs PROVE WrittenOK(k)' /\ FilesOK(k)' /\ ReadingOK(k)'
  <2>0. WrittenOK(k) /\ FilesOK(k) /\ ReadingOK(k) BY DEF IInv
  <2>1. CASE k # l BY <2>0, <2>1, <1>6, LogStays DEF Write
  <2>2. CASE k = l
    <3>1. WrittenOK(l)' BY <2>0, <2>2, <1>2, <1>4, <1>6 DEF WrittenOK
    <3>2. FilesOK(l)'
      <4>1. stored[l] \in Nat BY <1>1, LogTypes
      <4>2. stored[l] <= Len(written'[l]) BY <4>1, <2>0, <2>2, <1>2, <1>4, <1>6 DEF FilesOK
      <4> QED BY <4>2, <2>0, <2>2 DEF FilesOK, Write
    <3>3. First(l)' = First(l) /\ RotatedWhileRead(l)' = RotatedWhileRead(l)
      BY DEF First, RotatedWhileRead, Write
    <3>4. InOrder(l)' = InOrder(l) BY <3>3 DEF InOrder, Write
    <3> HIDE DEF InOrder, RotatedWhileRead
    <3>5. ReadingOK(l)' BY <2>0, <2>2, <3>3, <3>4 DEF ReadingOK, Write
    <3> QED BY <2>2, <3>1, <3>2, <3>5
  <2> QED BY <2>1, <2>2
<1>9. AllRead' BY <1>1 DEF IInv, AllRead, Write
<1>10. \A k \in Logs : \A i \in 1..Len(written[k]) : written'[k][i] = written[k][i]
  BY <1>4, <1>6
<1>11. \A k \in Logs : rotations'[k] \in Nat /\ rotations'[k] >= rotations[k]
  BY <1>1 DEF Typed, Write
<1>12. Decided' BY <1>10, <1>11, DecidedStays DEF Write
<1> QED BY <1>1, <1>7, <1>8, <1>9, <1>12 DEF IInv

\* The file that s6-log adds is the next interval of the log.
LEMMA RotatedFiles ==
  ASSUME NEW files \in Seq(File), NEW r \in Nat, NEW n \in Nat, n = Len(files), n <= r,
         \A i \in 1..n : LET name == r - n + i IN
           files[i] = [name |-> name, from |-> (name - 1) * SegmentLines + 1, to |-> name * SegmentLines],
         NEW newest \in File,
         newest = [name |-> r + 1, from |-> r * SegmentLines + 1, to |-> (r + 1) * SegmentLines]
  PROVE  LET kept == Kept(Append(files, newest)) IN
         /\ kept \in Seq(File) /\ Len(kept) <= r + 1
         /\ \A i \in 1..Len(kept) : LET name == r + 1 - Len(kept) + i IN
              kept[i] = [name |-> name, from |-> (name - 1) * SegmentLines + 1, to |-> name * SegmentLines]
<1> DEFINE F(name) == [name |-> name, from |-> (name - 1) * SegmentLines + 1, to |-> name * SegmentLines]
           more == Append(files, newest)
<1>0. \A i \in 1..n : files[i] = F(r - n + i) OBVIOUS
<1>1. more \in Seq(File) /\ Len(more) = n + 1 /\ more # <<>> /\ more[n + 1] = newest
      /\ \A i \in 1..n : more[i] = files[i]
  BY AppendProperties
<1>2. newest = F(r + 1)
  <2>1. (r + 1) - 1 = r OBVIOUS
  <2> QED BY <2>1
<1> HIDE DEF F, more
<1>3. \A i \in 1..(n + 1) : more[i] = F(r + 1 - (n + 1) + i)
  <2> TAKE i \in 1..(n + 1)
  <2>1. CASE i = n + 1
    <3>1. r + 1 - (n + 1) + i = r + 1 BY <2>1
    <3> QED BY <2>1, <3>1, <1>1, <1>2
  <2>2. CASE i # n + 1
    <3>1. i \in 1..n /\ r + 1 - (n + 1) + i = r - n + i BY <2>2
    <3> QED BY <3>1, <1>0, <1>1
  <2> QED BY <2>1, <2>2
<1>4. Tail(more) \in Seq(File) /\ Len(Tail(more)) = n /\ \A i \in 1..n : Tail(more)[i] = more[i + 1]
  BY <1>1, HeadTailProperties
<1>5. \A i \in 1..n : Tail(more)[i] = F(r + 1 - n + i)
  <2> TAKE i \in 1..n
  <2>1. i + 1 \in 1..(n + 1) /\ r + 1 - (n + 1) + (i + 1) = r + 1 - n + i OBVIOUS
  <2> QED BY <2>1, <1>3, <1>4
<1>6. /\ Kept(more) \in Seq(File) /\ Len(Kept(more)) <= r + 1
      /\ \A i \in 1..Len(Kept(more)) : Kept(more)[i] = F(r + 1 - Len(Kept(more)) + i)
  <2>1. CASE Kept(more) = more BY <2>1, <1>1, <1>3
  <2>2. CASE Kept(more) = Tail(more)
    <3>1. Len(Kept(more)) = n /\ Kept(more) \in Seq(File) BY <2>2, <1>4
    <3>2. n <= r + 1 OBVIOUS
    <3>3. \A i \in 1..n : Kept(more)[i] = F(r + 1 - n + i) BY <2>2, <1>5
    <3> QED BY <3>1, <3>2, <3>3
  <2> QED BY <2>1, <2>2 DEF Kept
<1> QED BY <1>6 DEF F, more

LEMMA StoreKeepsInv ==
  ASSUME IInv, NEW l \in Logs, Store(l)
  PROVE  IInv'
<1>1. Typed /\ Logs' = Logs /\ FilesOK(l) /\ WrittenOK(l) /\ ReadingOK(l) BY DEF IInv, Logs, Store, inputs
<1>2. stored[l] \in Nat \ {0} /\ rotations[l] \in Nat /\ archives[l] \in Seq(File)
      /\ listing[l] \in Seq(Int) /\ listed[l] \in Nat \X Nat /\ read[l] \in SUBSET Nat
  BY <1>1, LogTypes
<1>3. Len(archives[l]) \in Nat BY <1>2
<1>4. Len(written[l]) \in Nat
  <2>1. written[l] \in Seq(UNION {LinesOf(k) : k \in AllLogs}) BY <1>1, LogTypes
  <2> QED BY <2>1
<1>5. stored' = [stored EXCEPT ![l] = stored[l] + 1] /\ stored[l] + 1 <= Len(written[l])
  BY <1>2, <1>4 DEF Store
<1>6. /\ stored'[l] = stored[l] + 1 /\ stored' \in [Logs -> Nat \ {0}]
      /\ \A k \in Logs \ {l} : stored'[k] = stored[k]
  BY <1>1, <1>2, <1>5 DEF Typed
<1>7. /\ rotations[l] * SegmentLines \in Nat
      /\ (rotations[l] + 1) * SegmentLines = rotations[l] * SegmentLines + SegmentLines
      /\ (rotations[l] + 2) * SegmentLines = (rotations[l] + 1) * SegmentLines + SegmentLines
      /\ (rotations[l] + 1) * SegmentLines \in Nat
      /\ SegmentLines \in Nat \ {0, 1}
  <2>1. SegmentLines \in Nat \ {0, 1} /\ rotations[l] + 1 \in Nat /\ (rotations[l] + 1) + 1 = rotations[l] + 2
    BY <1>2, ReportLogAssumption
  <2>2. ((rotations[l] + 1) + 1) * SegmentLines = (rotations[l] + 1) * SegmentLines + SegmentLines
        /\ (rotations[l] + 1) * SegmentLines \in Nat
    BY <2>1, NextFile
  <2>3. (rotations[l] + 1) * SegmentLines = rotations[l] * SegmentLines + SegmentLines
        /\ rotations[l] * SegmentLines \in Nat
    BY <1>2, NextFile
  <2> QED BY <2>1, <2>2, <2>3
<1>8. rotations[l] * SegmentLines <= stored[l] /\ stored[l] < (rotations[l] + 1) * SegmentLines
  BY <1>1 DEF FilesOK
<1>9. WrittenOK(l)' BY <1>1 DEF WrittenOK, Store
<1> DEFINE low == rotations[l] * SegmentLines
           high == (rotations[l] + 1) * SegmentLines
<1>c. /\ low \in Nat /\ high \in Nat /\ high = low + SegmentLines /\ CurrentFrom(l) = low + 1
      /\ low <= stored[l] /\ stored[l] < high
  BY <1>7, <1>8 DEF CurrentFrom
<1>d. /\ stored[l] + 1 - CurrentFrom(l) + 1 < SegmentLines => stored[l] + 1 < high
      /\ ~(stored[l] + 1 - CurrentFrom(l) + 1 < SegmentLines) => stored[l] + 1 = high
  <2> HIDE DEF low, high
  <2>1. SegmentLines \in Nat BY ReportLogAssumption
  <2> QED BY <1>2, <1>c, <2>1
<1> DEFINE Moved ==
      /\ archives' \in [Logs -> Seq(File)] /\ rotations' \in [Logs -> Nat]
      /\ \A k \in Logs \ {l} : archives'[k] = archives[k] /\ rotations'[k] = rotations[k]
      /\ rotations'[l] >= rotations[l]
      /\ FilesOK(l)' /\ ReadingOK(l)'
<1>10. ASSUME stored[l] + 1 - CurrentFrom(l) + 1 < SegmentLines PROVE Moved
  <2>1. UNCHANGED <<archives, rotations>> BY <1>10 DEF Store
  <2>2. stored[l] + 1 < (rotations[l] + 1) * SegmentLines BY <1>10, <1>d
  <2>3. FilesOK(l)'
    <3>1. low <= stored'[l]
      <4> HIDE DEF low, high
      <4> QED BY <1>2, <1>6, <1>c
    <3> QED BY <3>1, <2>1, <2>2, <1>1, <1>5, <1>6 DEF FilesOK, Store
  <2>4. ReadingOK(l)'
    <3>1. First(l)' = First(l) /\ RotatedWhileRead(l)' = RotatedWhileRead(l)
      BY <2>1 DEF First, RotatedWhileRead, Store
    <3>2. InOrder(l) => InOrder(l)'
      <4> DEFINE rest == Len(listing[l])
      <4> SUFFICES ASSUME InOrder(l) PROVE InOrder(l)' OBVIOUS
      <4>1. UNCHANGED <<listing, listed, read>> BY DEF Store
      <4>2. ASSUME rest = 0 PROVE \E last \in listed[l][1]..stored'[l] : read[l] = First(l)..last
        <5>1. PICK last \in listed[l][1]..stored[l] : read[l] = First(l)..last BY <4>2 DEF InOrder
        <5>2. last \in listed[l][1]..stored'[l] BY <1>2, <1>6
        <5> QED BY <5>1, <5>2
      <4> QED BY <4>1, <4>2, <2>1, <3>1 DEF InOrder
    <3>3. 1..stored[l] \subseteq 1..stored'[l] BY <1>2, <1>6
    <3>4. UNCHANGED <<listing, listed, read>> BY DEF Store
    <3> HIDE DEF InOrder, RotatedWhileRead
    <3> QED BY <1>1, <2>1, <3>1, <3>2, <3>3, <3>4 DEF ReadingOK
  <2>5. /\ archives' \in [Logs -> Seq(File)] /\ rotations' \in [Logs -> Nat]
        /\ \A k \in Logs \ {l} : archives'[k] = archives[k] /\ rotations'[k] = rotations[k]
        /\ rotations'[l] >= rotations[l]
    BY <1>1, <1>2, <2>1 DEF Typed
  <2> QED BY <2>3, <2>4, <2>5
<1>11. ASSUME ~(stored[l] + 1 - CurrentFrom(l) + 1 < SegmentLines) PROVE Moved
  <2> DEFINE newest == [name |-> rotations[l] + 1, from |-> CurrentFrom(l), to |-> stored[l] + 1]
             kept == Kept(Append(archives[l], newest))
  <2>1. /\ rotations' = [rotations EXCEPT ![l] = rotations[l] + 1]
        /\ archives' = [archives EXCEPT ![l] = kept]
    BY <1>11 DEF Store
  <2>2. stored[l] + 1 = (rotations[l] + 1) * SegmentLines BY <1>11, <1>d
  <2>3. newest \in File
        /\ newest = [name |-> rotations[l] + 1, from |-> rotations[l] * SegmentLines + 1,
                     to |-> (rotations[l] + 1) * SegmentLines]
    <3>1. newest = [name |-> rotations[l] + 1, from |-> low + 1, to |-> high] BY <2>2, <1>c
    <3>2. rotations[l] + 1 \in Nat /\ low + 1 \in Nat /\ high \in Nat BY <1>2, <1>c
    <3> QED BY <3>1, <3>2 DEF File
  <2>4. /\ kept \in Seq(File) /\ Len(kept) <= rotations[l] + 1
        /\ \A i \in 1..Len(kept) : LET name == rotations[l] + 1 - Len(kept) + i IN
             kept[i] = [name |-> name, from |-> (name - 1) * SegmentLines + 1, to |-> name * SegmentLines]
    <3> HIDE DEF newest
    <3>1. /\ Len(archives[l]) <= rotations[l]
          /\ \A i \in 1..Len(archives[l]) : LET name == rotations[l] - Len(archives[l]) + i IN
               archives[l][i] = [name |-> name, from |-> (name - 1) * SegmentLines + 1, to |-> name * SegmentLines]
      BY <1>1 DEF FilesOK
    <3> QED BY <1>2, <1>3, <2>3, <3>1, RotatedFiles
  <2> HIDE DEF kept
  <2>5. /\ archives' \in [Logs -> Seq(File)] /\ rotations' \in [Logs -> Nat]
        /\ \A k \in Logs \ {l} : archives'[k] = archives[k] /\ rotations'[k] = rotations[k]
        /\ archives'[l] = kept /\ rotations'[l] = rotations[l] + 1
        /\ rotations'[l] >= rotations[l]
    BY <1>1, <1>2, <2>1, <2>4 DEF Typed
  <2>6. FilesOK(l)'
    <3>1. stored'[l] <= Len(written[l]) BY <1>5, <1>6
    <3>2. rotations'[l] * SegmentLines <= stored'[l] /\ stored'[l] < (rotations'[l] + 1) * SegmentLines
      <4>1. (rotations[l] + 1) + 1 = rotations[l] + 2 BY <1>2
      <4>2. (rotations'[l] + 1) * SegmentLines = (rotations[l] + 2) * SegmentLines BY <4>1, <2>5
      <4>3. (rotations[l] + 1) * SegmentLines < (rotations[l] + 2) * SegmentLines BY <1>7
      <4> QED BY <4>2, <4>3, <2>2, <2>5, <1>6, <1>7
    <3>3. /\ Len(archives'[l]) <= rotations'[l]
          /\ \A i \in 1..Len(archives'[l]) : LET name == rotations'[l] - Len(archives'[l]) + i IN
               archives'[l][i] = [name |-> name, from |-> (name - 1) * SegmentLines + 1, to |-> name * SegmentLines]
      <4> DEFINE G(name) == [name |-> name, from |-> (name - 1) * SegmentLines + 1, to |-> name * SegmentLines]
      <4>1. \A i \in 1..Len(kept) : kept[i] = G(rotations[l] + 1 - Len(kept) + i) BY <2>4
      <4> HIDE DEF G
      <4>2. \A i \in 1..Len(archives'[l]) : archives'[l][i] = G(rotations'[l] - Len(archives'[l]) + i)
        <5> TAKE i \in 1..Len(archives'[l])
        <5>1. i \in 1..Len(kept) BY <2>5
        <5>2. rotations'[l] - Len(archives'[l]) = rotations[l] + 1 - Len(kept)
          <6>1. rotations'[l] = rotations[l] + 1 BY <2>5
          <6>2. Len(archives'[l]) = Len(kept) BY <2>5
          <6> QED BY <6>1, <6>2, <1>2
        <5>3. kept[i] = G(rotations[l] + 1 - Len(kept) + i) BY <4>1, <5>1
        <5> QED BY <5>2, <5>3, <2>5
      <4>3. Len(archives'[l]) <= rotations'[l] BY <2>4, <2>5
      <4> QED BY <4>2, <4>3 DEF G
    <3>4. written'[l] = written[l] BY DEF Store
    <3> QED BY <3>1, <3>2, <3>3, <3>4 DEF FilesOK
  <2>7. ReadingOK(l)'
    <3>1. UNCHANGED <<listing, listed, read>> BY DEF Store
    <3>2. 1..stored[l] \subseteq 1..stored'[l] BY <1>2, <1>6
    <3>3. ASSUME listing[l] # NotListed
          PROVE  listed[l][1] \in 1..stored'[l] /\ listed[l][2] <= rotations'[l] /\ RotatedWhileRead(l)'
      BY <3>1, <3>2, <3>3, <2>5, <1>1, <1>2 DEF ReadingOK, RotatedWhileRead
    <3> HIDE DEF InOrder, RotatedWhileRead
    <3> QED BY <1>1, <3>1, <3>2, <3>3 DEF ReadingOK
  <2> QED BY <2>5, <2>6, <2>7
<1>12. Moved BY <1>10, <1>11
<1>13. Typed' BY <1>1, <1>6, <1>12 DEF Typed, Store, inputs
<1>14. ASSUME NEW k \in Logs PROVE WrittenOK(k)' /\ FilesOK(k)' /\ ReadingOK(k)'
  <2>1. CASE k # l
    <3>1. WrittenOK(k) /\ FilesOK(k) /\ ReadingOK(k) BY DEF IInv
    <3> QED BY <2>1, <3>1, <1>6, <1>12, LogStays DEF Store
  <2> QED BY <2>1, <1>9, <1>12
<1>15. AllRead' BY <1>1 DEF IInv, AllRead, Store
<1>16. \A k \in Logs : rotations'[k] \in Nat /\ rotations'[k] >= rotations[k]
  <2> TAKE k \in Logs
  <2>1. rotations[k] \in Nat /\ rotations'[k] \in Nat BY <1>1, <1>12 DEF Typed
  <2>2. k # l => rotations'[k] = rotations[k] BY <1>12
  <2> QED BY <2>1, <2>2, <1>12
<1>17. Decided' BY <1>16, DecidedStays DEF Store
<1> QED BY <1>1, <1>13, <1>14, <1>15, <1>17 DEF IInv

LEMMA ContainerDiesKeepsInv == IInv /\ ContainerDies => IInv'
<1> SUFFICES ASSUME IInv, ContainerDies PROVE IInv' OBVIOUS
<1>1. Typed /\ Logs' = Logs BY DEF IInv, Logs, ContainerDies, inputs
<1>2. UNCHANGED <<inputs, log_, phase, listing, listed, read, exitCode, warned>> BY DEF ContainerDies
<1>3. Typed' BY <1>1, <1>2 DEF Typed, inputs, log_
<1>4. ASSUME NEW k \in Logs PROVE WrittenOK(k)' /\ FilesOK(k)' /\ ReadingOK(k)'
  BY <1>2, LogStays DEF IInv, log_
<1>5. AllRead' BY <1>1, <1>2 DEF IInv, AllRead
<1>6. Decided' BY <1>1, <1>2, DecidedStays DEF log_, Typed
<1> QED BY <1>1, <1>3, <1>4, <1>5, <1>6 DEF IInv

-----------------------------------------------------------------------------
(* The steps of the report.                                                *)

\* Nothing is decided before the annotations, or when the report has failed.
LEMMA NotDecided ==
  ASSUME exitCode' = 0,
         phase' \in {"command", "fetch", "summary", "annotate"} \/ (phase' = "done" /\ warned')
  PROVE  Decided'
BY DEF Decided

LEMMA CommandEndsKeepsInv == IInv /\ CommandEnds => IInv'
<1> SUFFICES ASSUME IInv, CommandEnds PROVE IInv' OBVIOUS
<1>1. Typed /\ Logs' = Logs /\ exitCode = 0 BY DEF IInv, Decided, Logs, CommandEnds, inputs
<1>2. UNCHANGED <<inputs, log_, alive, listing, listed, read, exitCode, warned>> /\ phase' = "fetch"
  BY DEF CommandEnds
<1>3. Typed' BY <1>1, <1>2 DEF Typed, inputs, log_
<1>4. ASSUME NEW k \in Logs PROVE WrittenOK(k)' /\ FilesOK(k)' /\ ReadingOK(k)'
  BY <1>2, LogStays DEF IInv, log_
<1>5. AllRead' BY <1>2 DEF AllRead
<1>6. Decided' BY <1>1, <1>2, NotDecided
<1> QED BY <1>1, <1>3, <1>4, <1>5, <1>6 DEF IInv

LEMMA WarnKeepsInv == IInv /\ phase \in {"fetch", "summary"} /\ Warn => IInv'
<1> SUFFICES ASSUME IInv, phase \in {"fetch", "summary"}, Warn PROVE IInv' OBVIOUS
<1>1. Typed /\ Logs' = Logs /\ exitCode = 0 BY DEF IInv, Decided, Logs, Warn, inputs
<1>2. UNCHANGED <<inputs, log_, alive, listing, listed, read, exitCode>> /\ phase' = "done" /\ warned' = TRUE
  BY DEF Warn
<1>3. Typed' BY <1>1, <1>2 DEF Typed, inputs, log_
<1>4. ASSUME NEW k \in Logs PROVE WrittenOK(k)' /\ FilesOK(k)' /\ ReadingOK(k)'
  BY <1>2, LogStays DEF IInv, log_
<1>5. AllRead' BY <1>2 DEF AllRead
<1>6. Decided' BY <1>1, <1>2, NotDecided
<1> QED BY <1>1, <1>3, <1>4, <1>5, <1>6 DEF IInv

LEMMA FetchKeepsInv == IInv /\ Fetch => IInv'
<1> SUFFICES ASSUME IInv, Fetch PROVE IInv' OBVIOUS
<1>1. Typed /\ Logs' = Logs /\ exitCode = 0 BY DEF IInv, Decided, Logs, Fetch, Fetched
<1>2. /\ UNCHANGED <<engine, log_, alive, listing, listed, read, exitCode, warned>> /\ phase' = "summary"
      /\ audit' \in BOOLEAN /\ failOnBlocked' \in BOOLEAN
  BY DEF Fetch
<1>3. Typed' BY <1>1, <1>2 DEF Typed, log_
<1>4. ASSUME NEW k \in Logs PROVE WrittenOK(k)' /\ FilesOK(k)' /\ ReadingOK(k)'
  BY <1>2, LogStays DEF IInv, log_
<1>5. AllRead' BY <1>1, <1>2 DEF AllRead, Fetch, Fetched
<1>6. Decided' BY <1>1, <1>2, NotDecided
<1> QED BY <1>1, <1>3, <1>4, <1>5, <1>6 DEF IInv

LEMMA WriteSummaryKeepsInv == IInv /\ WriteSummary => IInv'
<1> SUFFICES ASSUME IInv, WriteSummary PROVE IInv' OBVIOUS
<1>1. Typed /\ Logs' = Logs /\ exitCode = 0 /\ AllRead BY DEF IInv, Decided, Logs, WriteSummary, inputs
<1>2. /\ UNCHANGED <<inputs, log_, alive, listing, listed, read, exitCode, warned>>
      /\ phase = "summary" /\ phase' = "annotate"
  BY DEF WriteSummary
<1>3. Typed' BY <1>1, <1>2 DEF Typed, inputs, log_
<1>4. ASSUME NEW k \in Logs PROVE WrittenOK(k)' /\ FilesOK(k)' /\ ReadingOK(k)'
  BY <1>2, LogStays DEF IInv, log_
<1>5. AllRead' BY <1>1, <1>2 DEF AllRead
<1>6. Decided' BY <1>1, <1>2, NotDecided
<1> QED BY <1>1, <1>3, <1>4, <1>5, <1>6 DEF IInv

LEMMA UploadKeepsInv == IInv /\ Upload => IInv'
<1> SUFFICES ASSUME IInv, Upload PROVE IInv' OBVIOUS
<1>1. Typed /\ Logs' = Logs /\ AllRead BY DEF IInv, Logs, Upload, inputs
<1>2. /\ UNCHANGED <<inputs, log_, alive, listing, listed, read, exitCode, warned>>
      /\ phase = "upload" /\ phase' = "done"
  BY DEF Upload
<1>3. Typed' BY <1>1, <1>2 DEF Typed, inputs, log_
<1>4. ASSUME NEW k \in Logs PROVE WrittenOK(k)' /\ FilesOK(k)' /\ ReadingOK(k)'
  BY <1>2, LogStays DEF IInv, log_
<1>5. AllRead'
  <2>1. (phase = "done" /\ ~warned) \/ phase = "upload" BY <1>2
  <2>2. \A l \in Logs : listing[l] = <<>>
    BY <1>1, <1>2 DEF AllRead, Upload
  <2> QED BY <1>1, <1>2, <2>2 DEF AllRead
<1>6. Decided' BY <1>1, <1>2, DecidedStays DEF log_, Typed
<1> QED BY <1>1, <1>3, <1>4, <1>5, <1>6 DEF IInv

\* The list has every file, in the order of what they hold.
LEMMA ListKeepsInv ==
  ASSUME IInv, NEW l \in Logs, List(l)
  PROVE  IInv'
<1> DEFINE names == [i \in DOMAIN archives[l] |-> archives[l][i].name]
           n == Len(archives[l])
<1>1. Typed /\ Logs' = Logs /\ FilesOK(l) /\ WrittenOK(l) /\ ReadingOK(l) /\ exitCode = 0
  BY DEF IInv, Decided, Logs, List, inputs
<1>2. stored[l] \in Nat \ {0} /\ rotations[l] \in Nat /\ archives[l] \in Seq(File)
  BY <1>1, LogTypes
<1>3. n \in Nat /\ DOMAIN archives[l] = 1..n /\ n <= rotations[l] BY <1>1, <1>2 DEF FilesOK
<1>4. \A i \in 1..n : archives[l][i].name = rotations[l] - n + i
  <2> TAKE i \in 1..n
  <2> DEFINE m == rotations[l] - n + i
  <2>1. archives[l][i] = [name |-> m, from |-> (m - 1) * SegmentLines + 1, to |-> m * SegmentLines]
    BY <1>1 DEF FilesOK
  <2> HIDE DEF m
  <2>2. archives[l][i].name = m BY <2>1
  <2> QED BY <2>2 DEF m
<1>5. names \in Seq(Nat) /\ Len(names) = n /\ \A i \in 1..n : names[i] = rotations[l] - n + i
  <2>1. \A i \in 1..n : names[i] = rotations[l] - n + i BY <1>3, <1>4
  <2>2. \A i \in 1..n : archives[l][i].name \in Nat BY <1>2, <1>3, <1>4
  <2>3. names = [i \in 1..n |-> archives[l][i].name] BY <1>3
  <2>4. [i \in 1..n |-> archives[l][i].name] \in Seq(Nat) BY <1>3, <2>2
  <2>5. DOMAIN names = 1..n BY <2>3
  <2>6. Len(names) = n BY <1>3, <2>3, <2>4, <2>5
  <2> QED BY <2>1, <2>3, <2>4, <2>6
<1>6. /\ Segments(l) \in Seq(Nat) /\ Len(Segments(l)) = n + 1
      /\ \A i \in 1..n : Segments(l)[i] = rotations[l] - n + i
      /\ Segments(l)[n + 1] = Current
  <2>1. Segments(l) = Append(names, Current) /\ Current \in Nat BY DEF Segments, Current
  <2> HIDE DEF names
  <2> QED BY <1>5, <2>1, AppendProperties
<1> HIDE DEF names, n
<1>7. /\ listing' = [listing EXCEPT ![l] = Segments(l)]
      /\ listed' = [listed EXCEPT ![l] = <<stored[l], rotations[l]>>]
      /\ listing[l] = NotListed /\ phase = "fetch"
      /\ UNCHANGED <<inputs, log_, alive, phase, read, exitCode, warned>>
  BY DEF List
<1>8. /\ listing' \in [Logs -> Seq(Int)] /\ listing'[l] = Segments(l)
      /\ listed' \in [Logs -> Nat \X Nat] /\ listed'[l] = <<stored[l], rotations[l]>>
      /\ \A k \in Logs \ {l} : listing'[k] = listing[k] /\ listed'[k] = listed[k]
  <2>1. Segments(l) \in Seq(Int) BY <1>6
  <2> QED BY <2>1, <1>1, <1>2, <1>7 DEF Typed
<1>9. Typed' BY <1>1, <1>7, <1>8 DEF Typed, inputs, log_
<1>10. ReadingOK(l)'
  <2>1. read'[l] = {} BY <1>1, <1>7 DEF ReadingOK
  <2>2. stored'[l] = stored[l] /\ rotations'[l] = rotations[l] /\ archives'[l] = archives[l] BY <1>7 DEF log_
  <2>3. \A i \in 1..Len(listing'[l]) : listing'[l][i] \in Nat
    BY <1>3, <1>6, <1>8
  <2>4. listed'[l][1] \in 1..stored'[l] /\ listed'[l][2] <= rotations'[l] BY <1>2, <1>8, <2>2
  <2>5. InOrder(l)'
    <3>1. First(l)' = (rotations[l] - n) * SegmentLines + 1 BY <2>2 DEF First, n
    <3>2. Len(listing'[l]) = n + 1 BY <1>6, <1>8
    <3>3. rotations[l] - n \in Nat /\ rotations[l] - (n + 1) + 1 = rotations[l] - n BY <1>2, <1>3
    <3>4. read'[l] = First(l)'..((rotations'[l] - Len(listing'[l]) + 1) * SegmentLines)
      <4>1. (rotations'[l] - Len(listing'[l]) + 1) * SegmentLines = (rotations[l] - n) * SegmentLines
        BY <2>2, <3>2, <3>3
      <4>2. (rotations[l] - n) * SegmentLines \in Nat BY <3>3, NextFile
      <4> DEFINE m == (rotations[l] - n) * SegmentLines
      <4>3. {} = (m + 1)..m
        <5> HIDE DEF m
        <5>1. m \in Nat BY <4>2 DEF m
        <5> QED BY <5>1
      <4> QED BY <2>1, <3>1, <4>1, <4>3
    <3>5. \A i \in 1..(n + 1) : listing'[l][i] =
            IF i < n + 1 THEN rotations[l] - (n + 1) + 1 + i ELSE Current
      <4> TAKE i \in 1..(n + 1)
      <4>1. CASE i = n + 1 BY <4>1, <1>3, <1>6, <1>8
      <4>2. CASE i # n + 1
        <5>1. i \in 1..n /\ i < n + 1 BY <4>2, <1>3
        <5> QED BY <5>1, <3>3, <1>6, <1>8
      <4> QED BY <4>1, <4>2
    <3>6. Len(listing'[l]) > 0 /\ Len(listing'[l]) <= Len(archives'[l]) + 1
      BY <3>2, <1>3, <2>2 DEF n
    <3> QED BY <3>2, <3>4, <3>5, <3>6, <2>2 DEF InOrder
  <2> HIDE DEF InOrder
  <2>6. read'[l] \subseteq 1..stored'[l] BY <2>1
  <2> QED BY <2>1, <2>3, <2>4, <2>5, <2>6 DEF ReadingOK
<1>11. ASSUME NEW k \in Logs PROVE WrittenOK(k)' /\ FilesOK(k)' /\ ReadingOK(k)'
  <2>1. WrittenOK(k) /\ FilesOK(k) /\ ReadingOK(k) BY DEF IInv
  <2>2. CASE k # l BY <2>1, <2>2, <1>7, <1>8, LogStays DEF log_
  <2>3. CASE k = l
    <3>1. WrittenOK(l)' BY <1>1, <1>7 DEF WrittenOK, log_
    <3>2. FilesOK(l)' BY <1>1, <1>7 DEF FilesOK, log_
    <3> QED BY <2>3, <3>1, <3>2, <1>10
  <2> QED BY <2>2, <2>3
<1>12. AllRead' BY <1>7 DEF AllRead
<1>13. Decided' BY <1>1, <1>7, NotDecided
<1> QED BY <1>1, <1>9, <1>11, <1>12, <1>13 DEF IInv

\* A file that is still there is an interval of the log.
LEMMA ArchivedFile ==
  ASSUME Typed, NEW l \in Logs, FilesOK(l), NEW f \in Range(archives[l])
  PROVE  /\ f.name \in 1..rotations[l]
         /\ f.from = (f.name - 1) * SegmentLines + 1 /\ f.to = f.name * SegmentLines
         /\ f.from..f.to \subseteq 1..stored[l]
<1>1. stored[l] \in Nat \ {0} /\ rotations[l] \in Nat /\ archives[l] \in Seq(File) BY LogTypes
<1> DEFINE n == Len(archives[l])
<1>2. n \in Nat /\ DOMAIN archives[l] = 1..n /\ n <= rotations[l] BY <1>1 DEF FilesOK
<1>3. PICK i \in 1..n : f = archives[l][i] BY <1>2 DEF Range
<1> DEFINE m == rotations[l] - n + i
<1>4. f = [name |-> m, from |-> (m - 1) * SegmentLines + 1, to |-> m * SegmentLines]
  BY <1>3 DEF FilesOK
<1>5. m \in 1..rotations[l] /\ m - 1 \in Nat /\ m \in Nat BY <1>1, <1>2, <1>3
<1> HIDE DEF m
<1>6. f.name = m /\ f.from = (m - 1) * SegmentLines + 1 /\ f.to = m * SegmentLines BY <1>4
<1>7. (m - 1) * SegmentLines \in Nat /\ m * SegmentLines \in Nat BY <1>5, NextFile
<1>8. m * SegmentLines <= stored[l]
  <2>1. m * SegmentLines <= rotations[l] * SegmentLines BY <1>1, <1>5, LaterFile
  <2>2. rotations[l] * SegmentLines <= stored[l] BY DEF FilesOK
  <2>3. rotations[l] * SegmentLines \in Nat BY <1>1, NextFile
  <2> QED BY <2>1, <2>2, <2>3, <1>1, <1>7
<1>9. f.from..f.to \subseteq 1..stored[l]
  <2> DEFINE a == (m - 1) * SegmentLines
             b == m * SegmentLines
  <2>1. a \in Nat /\ b \in Nat /\ b <= stored[l] /\ f.from = a + 1 /\ f.to = b BY <1>6, <1>7, <1>8
  <2> HIDE DEF a, b
  <2> QED BY <2>1, <1>1
<1> QED BY <1>5, <1>6, <1>9

\* The next file of the list holds what comes after the lines that are read.
LEMMA NextInOrder ==
  ASSUME IInv, NEW l \in Logs, ReadNext(l), InOrder(l), listing[l] # NotListed,
         listing'[l] = Tail(listing[l]), read'[l] \in SUBSET Nat
  PROVE  InOrder(l)'
<1> DEFINE rest == Len(listing[l])
           r == rotations[l]
           n == Len(archives[l])
<1>1. Typed /\ FilesOK(l) /\ ReadingOK(l) BY DEF IInv
<1>2. stored[l] \in Nat \ {0} /\ r \in Nat /\ archives[l] \in Seq(File) /\ listing[l] \in Seq(Int)
      /\ listed[l] \in Nat \X Nat
  BY <1>1, LogTypes
<1>3. n \in Nat /\ n <= r BY <1>1, <1>2 DEF FilesOK
<1>4. listing[l] # <<>> BY DEF ReadNext, Listed
<1>5. rest \in Nat \ {0} /\ rest <= n + 1
  <2>1. rest \in Nat /\ rest # 0 BY <1>2, <1>4, EmptySeq
  <2> QED BY <2>1 DEF InOrder
<1>6. /\ UNCHANGED log_ /\ UNCHANGED <<listed>> BY DEF ReadNext
<1>7. First(l)' = First(l) /\ First(l) = (r - n) * SegmentLines + 1 BY <1>6 DEF First, log_
<1>8. /\ Tail(listing[l]) \in Seq(Int) /\ Len(Tail(listing[l])) = rest - 1
      /\ \A i \in 1..(rest - 1) : Tail(listing[l])[i] = listing[l][i + 1]
  BY <1>2, <1>4, HeadTailProperties
<1>9. \A i \in 1..rest : listing[l][i] = IF i < rest THEN r - rest + 1 + i ELSE Current
  BY DEF InOrder
<1>10. read[l] = First(l)..((r - rest + 1) * SegmentLines) BY <1>5 DEF InOrder
<1>11. Head(listing[l]) = listing[l][1] BY <1>2, <1>4
<1>12. r - n \in Nat /\ r - rest + 1 \in Nat /\ r - n <= r - rest + 1
  <2>1. r \in Nat /\ n \in Nat BY <1>2, <1>3
  <2> HIDE DEF rest, r, n
  <2> QED BY <2>1, <1>3, <1>5
<1>13. /\ (r - n) * SegmentLines \in Nat /\ (r - rest + 1) * SegmentLines \in Nat
       /\ (r - n) * SegmentLines <= (r - rest + 1) * SegmentLines
  BY <1>12, NextFile, LaterFile
<1>14. CASE rest = 1
  <2>1. Head(listing[l]) = Current BY <1>9, <1>11, <1>14
  <2>2. \A f \in Range(archives[l]) : f.name # Head(listing[l])
    BY <2>1, <1>1, <1>2, ArchivedFile DEF Current
  <2>3. read' = [read EXCEPT ![l] = read[l] \cup CurrentFrom(l)..stored[l]] BY <2>2 DEF ReadNext
  <2>4. read'[l] = read[l] \cup CurrentFrom(l)..stored[l] BY <2>3, <1>1 DEF Typed
  <2>5. r - rest + 1 = r BY <1>2, <1>14
  <2>6. r * SegmentLines <= stored[l] BY <1>1 DEF FilesOK
  <2>7. read'[l] = First(l)..stored[l]
    <3> DEFINE a == First(l)
               b == r * SegmentLines
    <3>1. a \in Nat /\ b \in Nat /\ a <= b + 1 /\ b <= stored[l]
      BY <2>5, <2>6, <1>7, <1>13
    <3>2. read'[l] = (a..b) \cup ((b + 1)..stored[l]) BY <2>4, <2>5, <1>10 DEF CurrentFrom
    <3> HIDE DEF a, b
    <3>3. read'[l] = a..stored[l] BY <3>1, <3>2, <1>2, Intervals
    <3> QED BY <3>3 DEF a
  <2>8. stored[l] \in listed[l][1]..stored[l] BY <1>1, <1>2 DEF ReadingOK
  <2>9. Len(listing'[l]) = 0 BY <1>8, <1>14
  <2>10. \E last \in listed'[l][1]..stored'[l] : read'[l] = First(l)'..last
    BY <2>7, <2>8, <1>6, <1>7 DEF log_
  <2>11. Len(archives'[l]) \in Nat BY <1>3, <1>6 DEF log_
  <2>12. /\ Len(listing'[l]) <= Len(archives'[l]) + 1 /\ ~(Len(listing'[l]) > 0)
         /\ 1..Len(listing'[l]) = {}
    <3>1. 1..0 = {} OBVIOUS
    <3>2. 0 <= Len(archives'[l]) + 1 /\ ~(0 > 0) BY <2>11
    <3> QED BY <2>9, <3>1, <3>2
  <2> QED BY <2>10, <2>12, <2>9 DEF InOrder
<1>15. CASE rest > 1
  <2> DEFINE name == r - rest + 2
  <2>1. Head(listing[l]) = name /\ name \in Nat \ {0} /\ name - 1 = r - rest + 1
    <3>1. listing[l][1] = IF 1 < rest THEN r - rest + 1 + 1 ELSE Current BY <1>5, <1>9
    <3> HIDE DEF rest, r, n
    <3>2. name \in Nat \ {0} /\ name - 1 = r - rest + 1 /\ name = r - rest + 1 + 1
      BY <1>2, <1>3, <1>5
    <3> QED BY <3>1, <3>2, <1>11, <1>15
  <2>2. PICK f \in Range(archives[l]) :
          f.name = name /\ read' = [read EXCEPT ![l] = read[l] \cup f.from..f.to]
    BY <2>1 DEF ReadNext, Current
  <2>3. read'[l] = read[l] \cup f.from..f.to BY <2>2, <1>1 DEF Typed
  <2>4. f.from = (name - 1) * SegmentLines + 1 /\ f.to = name * SegmentLines
    BY <2>2, <1>1, ArchivedFile
  <2>5. /\ (name - 1) * SegmentLines \in Nat /\ name * SegmentLines \in Nat
        /\ (name - 1) * SegmentLines <= name * SegmentLines
    BY <2>1, <1>12, NextFile, LaterFile
  <2>6. read'[l] = First(l)..(name * SegmentLines)
    <3> DEFINE a == First(l)
               b == (name - 1) * SegmentLines
               c == name * SegmentLines
    <3>1. a \in Nat /\ b \in Nat /\ c \in Nat /\ a <= b + 1 /\ b <= c
      BY <2>1, <2>5, <1>7, <1>13
    <3>2. read'[l] = (a..b) \cup ((b + 1)..c) BY <2>1, <2>3, <2>4, <1>10
    <3> HIDE DEF a, b, c
    <3>3. read'[l] = a..c BY <3>1, <3>2, Intervals
    <3> QED BY <3>3 DEF a, c
  <2>7. name = r - (rest - 1) + 1 BY <1>2, <1>5
  <2>8. \A i \in 1..(rest - 1) : Tail(listing[l])[i] = IF i < rest - 1 THEN r - (rest - 1) + 1 + i ELSE Current
    <3> TAKE i \in 1..(rest - 1)
    <3>1. i + 1 \in 1..rest /\ (i + 1 < rest <=> i < rest - 1) /\ r - rest + 1 + (i + 1) = r - (rest - 1) + 1 + i
      <4> HIDE DEF rest, r
      <4> QED BY <1>2, <1>5
    <3>2. listing[l][i + 1] = IF i + 1 < rest THEN r - rest + 1 + (i + 1) ELSE Current BY <3>1, <1>9
    <3> QED BY <3>1, <3>2, <1>8
  <2>9. rest - 1 > 0 /\ rest - 1 <= n + 1 BY <1>3, <1>5, <1>15
  <2>10. Len(listing'[l]) = rest - 1 BY <1>8
  <2>11. /\ rotations'[l] = r /\ archives'[l] = archives[l] /\ listing'[l] = Tail(listing[l]) BY <1>6 DEF log_
  <2> DEFINE left == rest - 1
  <2>12. /\ left > 0 /\ left <= n + 1 /\ Len(listing'[l]) = left
         /\ \A i \in 1..left : listing'[l][i] = IF i < left THEN rotations'[l] - left + 1 + i ELSE Current
         /\ read'[l] = First(l)'..((rotations'[l] - left + 1) * SegmentLines)
    BY <2>6, <2>7, <2>8, <2>9, <2>10, <2>11, <1>7
  <2> HIDE DEF left
  <2> QED BY <2>11, <2>12, <1>5 DEF InOrder
<1> HIDE DEF rest
<1> QED BY <1>5, <1>14, <1>15

LEMMA ReadNextKeepsInv ==
  ASSUME IInv, NEW l \in Logs, ReadNext(l)
  PROVE  IInv'
<1>1. Typed /\ Logs' = Logs /\ FilesOK(l) /\ WrittenOK(l) /\ ReadingOK(l) /\ exitCode = 0
  BY DEF IInv, Decided, Logs, ReadNext, Listed, inputs
<1>2. stored[l] \in Nat \ {0} /\ rotations[l] \in Nat /\ listing[l] \in Seq(Int) /\ read[l] \in SUBSET Nat
  BY <1>1, LogTypes
<1>3. /\ listing' = [listing EXCEPT ![l] = Tail(listing[l])]
      /\ listing[l] # NotListed /\ listing[l] # <<>> /\ phase = "fetch"
      /\ UNCHANGED <<inputs, log_, alive, phase, listed, exitCode, warned>>
  BY DEF ReadNext, Listed
<1>4. PICK more \in SUBSET Nat :
        more \subseteq 1..stored[l] /\ read' = [read EXCEPT ![l] = read[l] \cup more]
  <2>1. CASE read' = [read EXCEPT ![l] = read[l] \cup CurrentFrom(l)..stored[l]]
    <3> DEFINE low == rotations[l] * SegmentLines
    <3>1. low \in Nat /\ CurrentFrom(l) = low + 1 BY <1>2, NextFile DEF CurrentFrom
    <3> HIDE DEF low
    <3>2. CurrentFrom(l)..stored[l] \subseteq 1..stored[l] BY <3>1, <1>2
    <3>3. CurrentFrom(l)..stored[l] \in SUBSET Nat BY <3>2, <1>2
    <3> HIDE DEF CurrentFrom
    <3> WITNESS CurrentFrom(l)..stored[l] \in SUBSET Nat
    <3> QED BY <2>1, <3>2
  <2>2. CASE \E f \in Range(archives[l]) : read' = [read EXCEPT ![l] = read[l] \cup f.from..f.to]
    <3>1. PICK f \in Range(archives[l]) : read' = [read EXCEPT ![l] = read[l] \cup f.from..f.to] BY <2>2
    <3>2. f.from..f.to \subseteq 1..stored[l] BY <1>1, ArchivedFile
    <3>3. f.from..f.to \in SUBSET Nat BY <3>2, <1>2
    <3> WITNESS f.from..f.to \in SUBSET Nat
    <3> QED BY <3>1, <3>2
  <2> QED BY <2>1, <2>2 DEF ReadNext
<1>5. /\ Tail(listing[l]) \in Seq(Int) /\ Len(Tail(listing[l])) = Len(listing[l]) - 1
      /\ \A i \in 1..Len(Tail(listing[l])) : Tail(listing[l])[i] = listing[l][i + 1]
  BY <1>2, <1>3, HeadTailProperties
<1>6. /\ listing' \in [Logs -> Seq(Int)] /\ listing'[l] = Tail(listing[l])
      /\ read' \in [Logs -> SUBSET Nat] /\ read'[l] = read[l] \cup more
      /\ \A k \in Logs \ {l} : listing'[k] = listing[k] /\ read'[k] = read[k]
  BY <1>1, <1>3, <1>4, <1>5 DEF Typed
<1>7. Typed' BY <1>1, <1>3, <1>6 DEF Typed, inputs, log_
<1>8. \A i \in 1..Len(listing'[l]) : listing'[l][i] \in Nat
  <2>1. Len(listing[l]) \in Nat BY <1>2
  <2>2. \A i \in 1..Len(listing[l]) : listing[l][i] \in Nat BY <1>1, <1>3 DEF ReadingOK
  <2> TAKE i \in 1..Len(listing'[l])
  <2>3. i + 1 \in 1..Len(listing[l]) BY <2>1, <1>5, <1>6
  <2> QED BY <2>2, <2>3, <1>5, <1>6
<1>9. listing'[l] # NotListed BY <1>8 DEF NotListed
<1>10. ReadingOK(l)'
  <2>1. UNCHANGED <<log_, listed>> BY <1>3
  <2>2. RotatedWhileRead(l)' = RotatedWhileRead(l) BY <2>1 DEF RotatedWhileRead, log_
  <2>3. read'[l] \subseteq 1..stored'[l] BY <1>1, <1>4, <1>6, <2>1 DEF ReadingOK, log_
  <2>4. listed[l][1] \in 1..stored[l] /\ listed[l][2] <= rotations[l] BY <1>1, <1>3 DEF ReadingOK
  <2>5. ~RotatedWhileRead(l) => InOrder(l)'
    <3>1. ~RotatedWhileRead(l) => InOrder(l) BY <1>1, <1>3 DEF ReadingOK
    <3>2. read'[l] \in SUBSET Nat BY <1>6
    <3> HIDE DEF InOrder, RotatedWhileRead
    <3> QED BY <3>1, <3>2, <1>3, <1>6, NextInOrder
  <2> HIDE DEF InOrder, RotatedWhileRead
  <2> QED BY <1>8, <1>9, <2>1, <2>2, <2>3, <2>4, <2>5 DEF ReadingOK, log_
<1>11. ASSUME NEW k \in Logs PROVE WrittenOK(k)' /\ FilesOK(k)' /\ ReadingOK(k)'
  <2>1. WrittenOK(k) /\ FilesOK(k) /\ ReadingOK(k) BY DEF IInv
  <2>2. CASE k # l BY <2>1, <2>2, <1>3, <1>6, LogStays DEF log_
  <2>3. CASE k = l
    <3>1. WrittenOK(l)' BY <1>1, <1>3 DEF WrittenOK, log_
    <3>2. FilesOK(l)' BY <1>1, <1>3 DEF FilesOK, log_
    <3> QED BY <2>3, <3>1, <3>2, <1>10
  <2> QED BY <2>2, <2>3
<1>12. AllRead' BY <1>3 DEF AllRead
<1>13. Decided' BY <1>1, <1>3, NotDecided
<1> QED BY <1>1, <1>7, <1>11, <1>12, <1>13 DEF IInv

-----------------------------------------------------------------------------
(* The verdict.                                                            *)

\* The lines of a log are of its kinds.
LEMMA KindsOfLines ==
  ASSUME IInv, NEW l \in Logs, NEW i \in read[l]
  PROVE  LET line == written[l][i] IN
         /\ line \in LinesOf(l) /\ l \in AllLogs
         /\ line.kind = "cut" => l = "haproxy"
         /\ line.kind = "event" => l = "haproxy" /\ line.event.protocol # "dns"
         /\ line.kind = "lookup" => l = "coredns" /\ line \in Lines["coredns"] /\ engine = "inspect"
<1>1. Typed /\ WrittenOK(l) BY DEF IInv
<1>2. l \in AllLogs /\ (l = "coredns" => engine = "inspect") BY <1>1, LogTypes
<1>3. written[l][i] \in LinesOf(l) BY <1>1, LinesThere DEF WrittenOK
<1> DEFINE line == written[l][i]
<1> HIDE DEF line
<1>4. line \in LinesOf(l) BY <1>3 DEF line
<1>5. line \in Lines[l] \/ line.kind = "marker" BY <1>4 DEF LinesOf, Marker
<1>6. CASE l = "haproxy" BY <1>2, <1>4, <1>5, <1>6, ReportLogAssumption DEF line
<1>7. CASE l = "coredns" BY <1>2, <1>4, <1>5, <1>7, ReportLogAssumption DEF line
<1> QED BY <1>2, <1>6, <1>7 DEF AllLogs

\* A refusal that is read is a blocked row, if only that of the connection
\* that makes its lookup redundant, or makes the record one that was cut.
LEMMA RefusalIsARow ==
  ASSUME IInv, ~audit, NEW l \in Logs, NEW i \in read[l], Refusal(written[l][i]), Plausible
  PROVE  \E row \in Rows.blocked : row.host \notin Known
<1> DEFINE line == written[l][i]
           events == Events \cup DnsEvents(Lookups, audit)
<1>1. /\ line.kind = "cut" => l = "haproxy"
      /\ line.kind = "event" => l = "haproxy" /\ line.event.protocol # "dns"
      /\ line.kind = "lookup" => l = "coredns" /\ line \in Lines["coredns"] /\ engine = "inspect"
  BY KindsOfLines
<1>2. line \in ReadLines(l) BY DEF ReadLines
<1>3. ASSUME NEW e \in events, e.action = "block", e.protocol # "dns", e.host \notin Known
      PROVE  \E row \in Rows.blocked : row.host \notin Known
  <2>1. e \in Rows.blocked BY <1>3 DEF Rows, Tables, Redundant
  <2> QED BY <2>1, <1>3
<1>4. ASSUME NEW e \in events, e.action = "block", e.host \notin Known
      PROVE  \E row \in Rows.blocked : row.host \notin Known
  <2>1. CASE Redundant(e, events)
    <3>1. PICK f \in events : f.protocol # "dns" /\ f.host = e.host /\ f.action = "block"
      BY <2>1, <1>4 DEF Redundant
    <3> QED BY <3>1, <1>3, <1>4
  <2>2. CASE ~Redundant(e, events)
    <3>1. e \in Rows.blocked BY <2>2, <1>4 DEF Rows, Tables
    <3> QED BY <3>1, <1>4
  <2> QED BY <2>1, <2>2
<1>5. CASE line.kind = "cut" BY <1>1, <1>2, <1>5 DEF Plausible
<1>6. CASE line.kind = "event" /\ line.event.action = "block" /\ line.event.host \notin Known
  <2>1. line.event \in Events BY <1>1, <1>2, <1>6 DEF Events
  <2> QED BY <2>1, <1>3, <1>1, <1>6
<1>7. CASE line.kind = "lookup" /\ line.verb \in {"denied", "service-denied"} /\ line.name \notin Known
  <2> DEFINE name == line.name
  <2>1. line \in Lookups BY <1>1, <1>2, <1>7 DEF Lookups
  <2>2. \A other \in Lookups : line.verb = "denied" /\ other.name = name => other.verb # "allowed"
    <3> TAKE other \in Lookups
    <3>1. engine = "inspect" /\ other \in ReadLines("coredns") /\ other.kind = "lookup"
      BY <1>1, <1>7 DEF Lookups
    <3>2. "coredns" \in Logs BY <3>1 DEF Logs, LogsOf
    <3>3. other \in Lines["coredns"] BY <3>1, <3>2, KindsOfLines DEF ReadLines
    <3> QED BY <3>1, <3>3, <1>1, <1>7, ReportLogAssumption
  <2>3. "dns-not-allowed" # Dash /\ "dns-service-not-allowed" # Dash BY InspectLogAssumption
  <2>4. ActionFor("dns-not-allowed", audit) = "block" /\ ActionFor("dns-service-not-allowed", audit) = "block"
    BY <2>3 DEF ActionFor, FailureReasons
  <2> DEFINE e == IF line.verb = "denied" THEN DnsEvent("block", name, "dns-not-allowed")
                                          ELSE DnsEvent("block", name, "dns-service-not-allowed")
  <2>5. e.action = "block" /\ e.host = name BY DEF DnsEvent
  <2>6. e \in DnsEvents(Lookups, audit)
    <3>1. CASE line.verb = "denied"
      <4>1. name \in {d.name : d \in {d \in Lookups : d.verb = "denied"}} BY <2>1, <3>1
      <4>2. name \notin {d.name : d \in {d \in Lookups : d.verb = "allowed"}} BY <2>2, <3>1
      <4> HIDE DEF name
      <4> QED BY <3>1, <4>1, <4>2, <2>4 DEF DnsEvents
    <3>2. CASE line.verb # "denied"
      <4>1. name \in {d.name : d \in {d \in Lookups : d.verb = "service-denied"}} BY <2>1, <3>2, <1>7
      <4> HIDE DEF name
      <4> QED BY <3>2, <4>1, <2>4 DEF DnsEvents
    <3> QED BY <3>1, <3>2
  <2> QED BY <2>5, <2>6, <1>4, <1>7
<1> QED BY <1>5, <1>6, <1>7 DEF Refusal

\* A blocked row comes from a refusal that was read.
LEMMA RowIsARefusal ==
  ASSUME IInv, NEW row \in Rows.blocked, row.host \notin Known
  PROVE  \E l \in Logs : \E i \in read[l] : Refusal(written[l][i])
<1>1. row \in Events \cup DnsEvents(Lookups, audit) /\ row.action = "block" BY DEF Rows, Tables
<1>2. CASE row \in Events
  <2>1. PICK line \in ReadLines("haproxy") : line.kind = "event" /\ line.event = row BY <1>2 DEF Events
  <2>2. PICK i \in read["haproxy"] : line = written["haproxy"][i] BY <2>1 DEF ReadLines
  <2>3. "haproxy" \in Logs BY DEF Logs, LogsOf
  <2>4. Refusal(line) BY <1>1, <2>1 DEF Refusal
  <2> QED BY <2>2, <2>3, <2>4
<1>3. CASE row \in DnsEvents(Lookups, audit)
  <2>1. \E line \in Lookups : line.verb \in {"denied", "service-denied"} /\ line.name = row.host
    BY <1>1, <1>3 DEF DnsEvents, DnsEvent, ActionFor
  <2>2. PICK line \in Lookups : line.verb \in {"denied", "service-denied"} /\ line.name = row.host BY <2>1
  <2>3. engine = "inspect" /\ line \in ReadLines("coredns") /\ line.kind = "lookup" BY <2>2 DEF Lookups
  <2>4. PICK i \in read["coredns"] : line = written["coredns"][i] BY <2>3 DEF ReadLines
  <2>5. "coredns" \in Logs BY <2>3 DEF Logs, LogsOf
  <2>6. Refusal(line) BY <2>2, <2>3 DEF Refusal
  <2> QED BY <2>4, <2>5, <2>6
<1> QED BY <1>1, <1>2, <1>3

\* A record whose beginning is missing, and shows it, has lost a line.
LEMMA HeadIsMissed ==
  ASSUME IInv, NEW l \in Logs, listing[l] = <<>>, ~HeadIntact(l)
  PROVE  Missed(l) # {}
<1>1. Typed /\ WrittenOK(l) /\ ReadingOK(l) BY DEF IInv
<1>2. stored[l] \in Nat \ {0} /\ listed[l] \in Nat \X Nat /\ read[l] \in SUBSET Nat BY <1>1, LogTypes
<1>3. 1 \in Stored(l) BY <1>1, <1>2, EmptyLists DEF ReadingOK, Stored
<1>4. 1 \notin read[l]
  <2> SUFFICES ASSUME 1 \in read[l] PROVE FALSE OBVIOUS
  <2>1. \A b \in read[l] : 1 <= b BY <1>1, <1>2 DEF ReadingOK
  <2>2. Min(read[l]) = 1 BY <2>1, <1>2, LeastLine
  <2> QED BY <2>2, <1>1 DEF HeadIntact, WrittenOK
<1> QED BY <1>3, <1>4 DEF Missed

LEMMA AnnotateKeepsInv == IInv /\ Annotate => IInv'
<1> SUFFICES ASSUME IInv, Annotate PROVE IInv' OBVIOUS
<1>1. Typed /\ Logs' = Logs /\ AllRead /\ exitCode = 0 BY DEF IInv, Decided, Logs, Annotate, inputs
<1>2. /\ UNCHANGED <<inputs, log_, alive, listing, listed, read, warned>>
      /\ phase = "annotate" /\ phase' = "upload"
      /\ exitCode' = IF Outcome = "fail" THEN 1 ELSE exitCode
  BY DEF Annotate
<1>3. Typed' BY <1>1, <1>2 DEF Typed, inputs, log_
<1>4. ASSUME NEW k \in Logs PROVE WrittenOK(k)' /\ FilesOK(k)' /\ ReadingOK(k)'
  BY <1>2, LogStays DEF IInv, log_
<1>5. \A l \in Logs : listing[l] = <<>> BY <1>1, <1>2 DEF AllRead
<1>6. AllRead' BY <1>1, <1>2, <1>5 DEF AllRead
<1>7. /\ audit' = audit /\ failOnBlocked' = failOnBlocked
      /\ \A l \in Logs : /\ Stored(l)' = Stored(l) /\ Missed(l)' = Missed(l) /\ written'[l] = written[l]
                         /\ RotatedWhileRead(l)' = RotatedWhileRead(l) /\ RestartHeads(l)' = RestartHeads(l)
  BY <1>2 DEF inputs, log_, Missed, Stored, RotatedWhileRead, RestartHeads
<1>8. ASSUME ~audit, failOnBlocked, exitCode' # 1 PROVE RefusalsCount'
  <2>1. Plausible /\ \A row \in Rows.blocked : row.host \in Known BY <1>8, <1>2 DEF Outcome
  <2> SUFFICES ASSUME NEW l \in Logs, NEW i \in Stored(l), Refusal(written[l][i]), ~RotatedWhileRead(l),
                      ~RestartHeads(l)
               PROVE  FALSE
    BY <1>1, <1>7 DEF RefusalsCount
  <2>2. read[l] # {} /\ written[l][Min(read[l])] = Marker BY <2>1 DEF Plausible, HeadIntact
  <2>3. Min(read[l]) = First(l) /\ First(l) \in Nat \ {0} BY <1>5, <2>2, HeadOfRead
  <2>4. First(l) = 1 BY <2>2, <2>3 DEF RestartHeads
  <2>5. i \in read[l] BY <1>5, <2>4, HeadOfRead DEF Missed
  <2> QED BY <2>1, <2>5, <1>8, RefusalIsARow
<1>9. ASSUME exitCode' = 1
      PROVE  /\ ~audit /\ failOnBlocked
             /\ \E l \in Logs : Missed(l) # {} \/ \E i \in read[l] : Refusal(written[l][i])
  <2>1. /\ ~audit /\ failOnBlocked
        /\ ~(Plausible /\ \A row \in Rows.blocked : row.host \in Known)
    BY <1>1, <1>2, <1>9 DEF Outcome
  <2>2. CASE \E l \in Logs : ~HeadIntact(l) BY <2>1, <2>2, <1>5, HeadIsMissed
  <2>3. CASE \E line \in ReadLines("haproxy") : line.kind = "cut"
    <3>1. "haproxy" \in Logs BY DEF Logs, LogsOf
    <3> QED BY <2>1, <2>3, <3>1 DEF ReadLines, Refusal
  <2>4. CASE \E row \in Rows.blocked : row.host \notin Known BY <2>1, <2>4, RowIsARefusal
  <2> QED BY <2>1, <2>2, <2>3, <2>4 DEF Plausible
<1>10. Decided'
  <2>1. (phase' = "upload" \/ (phase' = "done" /\ ~warned')) /\ ~audit' /\ failOnBlocked' => RefusalsCount'
    <3>1. exitCode' = 1 => RefusalsCount' BY DEF RefusalsCount
    <3> QED BY <3>1, <1>7, <1>8
  <2>2. exitCode' = 1 =>
          /\ ~audit' /\ failOnBlocked'
          /\ \E l \in Logs' : Missed(l)' # {} \/ \E i \in read'[l] : Refusal(written'[l][i])
    BY <1>1, <1>2, <1>7, <1>9
  <2> QED BY <2>1, <2>2, <1>2 DEF Decided
<1> QED BY <1>1, <1>3, <1>4, <1>6, <1>10 DEF IInv

-----------------------------------------------------------------------------
(* The theorems.                                                           *)

LEMMA InitGivesInv == Init => IInv
<1> SUFFICES ASSUME Init PROVE IInv OBVIOUS
<1>1. Typed
  <2> DEFINE AllLines == UNION {LinesOf(k) : k \in AllLogs}
  <2>1. Marker \in AllLines BY DEF LinesOf, AllLogs
  <2> HIDE DEF AllLines
  <2>2. <<Marker>> \in Seq(AllLines) BY <2>1
  <2>3. written \in [Logs -> Seq(AllLines)] BY <2>2 DEF Init
  <2>4. listing \in [Logs -> Seq(Int)] BY DEF Init, NotListed
  <2>5. archives \in [Logs -> Seq(File)] BY DEF Init
  <2>6. /\ stored \in [Logs -> Nat \ {0}] /\ rotations \in [Logs -> Nat]
        /\ listed \in [Logs -> Nat \X Nat] /\ read \in [Logs -> SUBSET Nat]
    BY DEF Init
  <2> QED BY <2>3, <2>4, <2>5, <2>6 DEF Init, Typed, AllLines
<1>2. ASSUME NEW l \in Logs PROVE WrittenOK(l) /\ FilesOK(l) /\ ReadingOK(l)
  <2>1. /\ written[l] = <<Marker>> /\ stored[l] = 1 /\ archives[l] = <<>> /\ rotations[l] = 0
        /\ listing[l] = NotListed /\ read[l] = {}
    BY DEF Init
  <2>2. WrittenOK(l) BY <2>1 DEF WrittenOK, LinesOf
  <2>3. FilesOK(l)
    <3>1. /\ stored[l] <= Len(written[l]) /\ rotations[l] * SegmentLines <= stored[l]
          /\ stored[l] < (rotations[l] + 1) * SegmentLines
      BY <2>1, ReportLogAssumption
    <3>2. Len(archives[l]) = 0 /\ 1..Len(archives[l]) = {} BY <2>1
    <3> QED BY <3>1, <3>2, <2>1 DEF FilesOK
  <2>4. ReadingOK(l) BY <2>1 DEF ReadingOK
  <2> QED BY <2>2, <2>3, <2>4
<1>3. AllRead /\ Decided BY DEF Init, AllRead, Decided
<1> QED BY <1>1, <1>2, <1>3 DEF IInv

LEMMA NextKeepsInv == IInv /\ [Next]_vars => IInv'
<1> SUFFICES ASSUME IInv, [Next]_vars PROVE IInv' OBVIOUS
<1>1. ASSUME NEW l \in Logs, LogLine(l) PROVE IInv'
  <2>1. PICK line \in Lines[l] : Write(l, line) BY <1>1 DEF LogLine
  <2>2. line \in LinesOf(l) BY DEF LinesOf
  <2> QED BY <2>1, <2>2, WriteKeepsInv
<1>2. ASSUME NEW l \in Logs, Restart(l) PROVE IInv'
  <2>1. Marker \in LinesOf(l) BY DEF LinesOf
  <2> QED BY <1>2, <2>1, WriteKeepsInv DEF Restart
<1>3. ASSUME NEW l \in Logs, Store(l) PROVE IInv' BY <1>3, StoreKeepsInv
<1>4. CASE ContainerDies BY <1>4, ContainerDiesKeepsInv
<1>5. CASE CommandEnds BY <1>5, CommandEndsKeepsInv
<1>6. ASSUME NEW l \in Logs, List(l) PROVE IInv' BY <1>6, ListKeepsInv
<1>7. ASSUME NEW l \in Logs, ReadNext(l) PROVE IInv' BY <1>7, ReadNextKeepsInv
<1>8. CASE FetchFails BY <1>8, WarnKeepsInv DEF FetchFails
<1>9. CASE Fetch BY <1>9, FetchKeepsInv
<1>10. CASE WriteSummary BY <1>10, WriteSummaryKeepsInv
<1>11. CASE SummaryFails BY <1>11, WarnKeepsInv DEF SummaryFails
<1>12. CASE Annotate BY <1>12, AnnotateKeepsInv
<1>13. CASE Upload BY <1>13, UploadKeepsInv
<1>14. CASE UNCHANGED vars
  <2>1. Typed' /\ Logs' = Logs BY <1>14 DEF IInv, Typed, Logs, vars
  <2>2. ASSUME NEW k \in Logs PROVE WrittenOK(k)' /\ FilesOK(k)' /\ ReadingOK(k)'
    BY <1>14, LogStays DEF IInv, vars
  <2>3. AllRead' BY <1>14, <2>1 DEF IInv, AllRead, vars
  <2>4. Decided'
    <3>1. \A k \in Logs : rotations'[k] \in Nat /\ rotations'[k] >= rotations[k]
      BY <1>14 DEF IInv, Typed, vars
    <3> QED BY <1>14, <3>1, DecidedStays DEF vars, inputs
  <2> QED BY <2>1, <2>2, <2>3, <2>4 DEF IInv
<1> QED BY <1>1, <1>2, <1>3, <1>4, <1>5, <1>6, <1>7, <1>8, <1>9, <1>10, <1>11, <1>12, <1>13, <1>14
        DEF Next, Report

LEMMA Inductive == Spec => []IInv
BY InitGivesInv, NextKeepsInv, PTL DEF Spec

\* A report that takes its logs to be complete has every line that was in their
\* files when it listed them, unless a file changed its name in between or the
\* marker of a restart is the oldest line left (docker/rotated-log.ts,
\* log/inspect.ts), for any lines, lengths of files and numbers of archives.
THEOREM RecordsAreComplete == Spec => []CompleteRecordsAreComplete
<1>1. IInv => CompleteRecordsAreComplete
  <2> SUFFICES ASSUME IInv, phase \in {"summary", "annotate", "upload"}, Plausible,
                      NEW l \in Logs, ~RotatedWhileRead(l), ~RestartHeads(l)
               PROVE  Missed(l) = {}
    BY DEF CompleteRecordsAreComplete
  <2>1. listing[l] = <<>> BY DEF IInv, AllRead
  <2>2. read[l] # {} /\ written[l][Min(read[l])] = Marker BY DEF Plausible, HeadIntact
  <2>3. Min(read[l]) = First(l) /\ First(l) \in Nat \ {0} BY <2>1, <2>2, HeadOfRead
  <2>4. First(l) = 1 BY <2>2, <2>3 DEF RestartHeads
  <2> QED BY <2>1, <2>4, HeadOfRead
<1> QED BY <1>1, Inductive, PTL

\* Under fail_on_blocked a refusal that no known_blocked_rules cover fails the
\* step, whether its line is read or lost, but for those two ways and a report
\* that failed itself; and only such a refusal, or a line lost or cut, does
\* (determineBlockedOutcome, applyOutcomeAnnotations).
THEOREM RefusalsDecide == Spec => []RefusalsDecideTheStep
<1>1. IInv => RefusalsDecideTheStep
  <2> SUFFICES ASSUME IInv PROVE RefusalsDecideTheStep OBVIOUS
  <2>1. Decided BY DEF IInv
  <2> QED BY <2>1 DEF Decided, RefusalsCount, RefusalsDecideTheStep
<1> QED BY <1>1, Inductive, PTL

=============================================================================
