------------------------------ MODULE ReportLog ------------------------------
(***************************************************************************)
(* From the proxy's log files to the exit code of the step: s6-log writes  *)
(* and rotates the files of a log while the services run and restart; when *)
(* the command has ended, the report lists the files, reads them one by    *)
(* one, judges whether they are a full record, and decides the step.       *)
(*                                                                         *)
(* A log is the sequence of the lines its service wrote, and a file is an  *)
(* interval of it. A proxy line is the event it parses to, a resolver line *)
(* what InspectLog reads; start markers, lines a length limit cut, and     *)
(* lines that are no decision are kinds of their own.                      *)
(***************************************************************************)
EXTENDS InspectLog, Integers, FiniteSetsExt, SequencesExt

CONSTANTS
  Lines,        \* by log, the lines its service can write besides markers
  Known,        \* hosts that known_blocked_rules match
  SegmentLines, \* lines in a file when s6-log rotates it (s1000000)
  MaxArchives,  \* rotated files s6-log keeps (n100)
  MaxLines,     \* bound: lines in all logs
  MaxRestarts   \* bound: restarts of services

\* A name's verb depends on the rules alone, so no name is both refused and allowed.
ASSUME ReportLogAssumption ==
  /\ \A line \in Lines["haproxy"] :
       line.kind \in {"event", "cut", "other"} /\ (line.kind = "event" => line.event.protocol # "dns")
  /\ \A line \in Lines["coredns"] : line.kind \in {"lookup", "other"}
  /\ \A line, other \in {l \in Lines["coredns"] : l.kind = "lookup"} :
       line.verb = "denied" /\ line.name = other.name => other.verb # "allowed"
  /\ SegmentLines \in Nat \ {0, 1} /\ MaxArchives \in Nat
  /\ MaxLines \in Nat /\ MaxRestarts \in Nat

VARIABLES
  engine,
  audit, failOnBlocked, \* the step's inputs, from where the report uses them
  written,   \* by log, every line its service wrote
  stored,    \* by log, how many of them s6-log has put into its files
  archives,  \* by log, the rotated files, oldest first
  rotations, \* by log, how often it was rotated
  alive,     \* the container runs
  phase,     \* of the step, from its command to the end of its report
  listing,   \* by log, the files still to be read, or NotListed
  listed,    \* by log, what stored and rotations were when it was listed
  read,      \* by log, the lines the report has
  exitCode,  \* what the report makes of the step
  warned     \* the report failed before it had decided the step

vars == <<engine, audit, failOnBlocked, written, stored, archives, rotations, alive, phase,
          listing, listed, read, exitCode, warned>>
log_ == <<written, stored, archives, rotations>>
inputs == <<engine, audit, failOnBlocked>>

Marker == [kind |-> "marker"]
NotListed == <<-1>>
LogsOf(e) == IF e = "inspect" THEN {"haproxy", "coredns"} ELSE {"haproxy"}
Logs == LogsOf(engine)

\* The container is healthy, so each service has written its first line.
Init ==
  /\ engine \in {"universal", "inspect"} /\ audit = FALSE /\ failOnBlocked = FALSE
  /\ written = [l \in Logs |-> <<Marker>>] /\ stored = [l \in Logs |-> 1]
  /\ archives = [l \in Logs |-> <<>>] /\ rotations = [l \in Logs |-> 0]
  /\ alive = TRUE /\ phase = "command"
  /\ listing = [l \in Logs |-> NotListed] /\ listed = [l \in Logs |-> <<0, 0>>]
  /\ read = [l \in Logs |-> {}] /\ exitCode = 0 /\ warned = FALSE

-----------------------------------------------------------------------------
(* The services and s6-log, which go on until the container stops.         *)

SumLines == FoldSet(LAMBDA l, n : n + Len(written[l]), 0, Logs)

Write(l, line) ==
  /\ alive /\ phase # "done" /\ SumLines < MaxLines
  /\ written' = [written EXCEPT ![l] = Append(@, line)]
  /\ UNCHANGED <<inputs, stored, archives, rotations, alive, phase, listing, listed, read, exitCode, warned>>

LogLine(l) == \E line \in Lines[l] : Write(l, line)

\* s6 restarts a service that ended, and its run script prints the marker again.
Restart(l) ==
  /\ Cardinality({i \in DOMAIN written[l] : written[l][i] = Marker}) <= MaxRestarts
  /\ Write(l, Marker)

\* The first line in `current`; an archive is named by its rotation.
CurrentFrom(l) == rotations[l] * SegmentLines + 1
Current == 0

Kept(files) == IF Len(files) <= MaxArchives THEN files ELSE Tail(files)

\* s6-log takes the next line from the pipe; a full `current` becomes the
\* newest archive, and one over the limit is removed.
Store(l) ==
  /\ alive /\ stored[l] < Len(written[l]) /\ phase # "done"
  /\ stored' = [stored EXCEPT ![l] = @ + 1]
  /\ IF stored[l] + 1 - CurrentFrom(l) + 1 < SegmentLines
     THEN UNCHANGED <<archives, rotations>>
     ELSE /\ rotations' = [rotations EXCEPT ![l] = @ + 1]
          /\ archives' = [archives EXCEPT ![l] =
               Kept(Append(@, [name |-> rotations[l] + 1, from |-> CurrentFrom(l), to |-> stored[l] + 1]))]
  /\ UNCHANGED <<inputs, written, alive, phase, listing, listed, read, exitCode, warned>>

ContainerDies ==
  /\ alive /\ phase # "done" /\ alive' = FALSE
  /\ UNCHANGED <<inputs, log_, phase, listing, listed, read, exitCode, warned>>

CommandEnds ==
  /\ phase = "command" /\ phase' = "fetch"
  /\ UNCHANGED <<inputs, log_, alive, listing, listed, read, exitCode, warned>>

-----------------------------------------------------------------------------
(* The report. A failure of it anywhere is a warning and nothing more.     *)

Warn ==
  /\ phase' = "done" /\ warned' = TRUE
  /\ UNCHANGED <<inputs, log_, alive, listing, listed, read, exitCode>>

\* parseLogSegments: the archives in the order of their names, then `current`.
Segments(l) == Append([i \in DOMAIN archives[l] |-> archives[l][i].name], Current)

List(l) ==
  /\ phase = "fetch" /\ alive /\ listing[l] = NotListed
  /\ listing' = [listing EXCEPT ![l] = Segments(l)]
  /\ listed' = [listed EXCEPT ![l] = <<stored[l], rotations[l]>>]
  /\ UNCHANGED <<inputs, log_, alive, phase, read, exitCode, warned>>

Listed(l) == phase = "fetch" /\ listing[l] # NotListed /\ listing[l] # <<>>

\* cat: the file that has the name by now, as far as it is written.
ReadNext(l) ==
  /\ Listed(l) /\ alive
  /\ LET name == Head(listing[l])
     IN  \/ /\ name = Current
            /\ read' = [read EXCEPT ![l] = @ \cup CurrentFrom(l)..stored[l]]
         \/ \E f \in Range(archives[l]) :
              f.name = name /\ read' = [read EXCEPT ![l] = @ \cup f.from..f.to]
  /\ listing' = [listing EXCEPT ![l] = Tail(@)]
  /\ UNCHANGED <<inputs, log_, alive, phase, listed, exitCode, warned>>

\* docker exec fails: the container is gone, or the file it is to read.
FetchFails ==
  /\ phase = "fetch"
  /\ \E l \in Logs :
       \/ ~alive /\ listing[l] # <<>>
       \/ Listed(l) /\ Head(listing[l]) # Current
          /\ \A f \in Range(archives[l]) : f.name # Head(listing[l])
  /\ Warn

Fetched == phase = "fetch" /\ \A l \in Logs : listing[l] = <<>>

Fetch ==
  /\ Fetched /\ phase' = "summary" /\ audit' \in BOOLEAN /\ failOnBlocked' \in BOOLEAN
  /\ UNCHANGED <<engine, log_, alive, listing, listed, read, exitCode, warned>>

ReadLines(l) == {written[l][i] : i \in read[l]}

\* Bug: a marker anywhere vouches for the beginning.
BugHeadIntact(l) == Marker \in ReadLines(l)

\* headIntact of scanInspectLog, scanInspectDnsLog and scanHaproxyLog.
HeadIntact(l) == read[l] # {} /\ written[l][Min(read[l])] = Marker

\* logLooksPlausible.
Plausible ==
  (\A l \in Logs : HeadIntact(l)) /\ ~ \E line \in ReadLines("haproxy") : line.kind = "cut"

Events == {line.event : line \in {r \in ReadLines("haproxy") : r.kind = "event"}}
Lookups == IF engine = "inspect" THEN {r \in ReadLines("coredns") : r.kind = "lookup"} ELSE {}

\* The rows of the report's tables.
Rows == Tables(Events \cup DnsEvents(Lookups, audit))

\* Bug: the rules clear a step whatever its log looks like.
BugOutcome ==
  IF audit \/ ~failOnBlocked \/ \A row \in Rows.blocked : row.host \in Known THEN "pass" ELSE "fail"

\* determineBlockedOutcome.
Outcome ==
  IF audit \/ ~failOnBlocked \/ (Plausible /\ \A row \in Rows.blocked : row.host \in Known)
  THEN "pass" ELSE "fail"

\* The Job Summary is written before anything is decided.
WriteSummary ==
  /\ phase = "summary" /\ phase' = "annotate"
  /\ UNCHANGED <<inputs, log_, alive, listing, listed, read, exitCode, warned>>

SummaryFails == phase = "summary" /\ Warn

\* applyOutcomeAnnotations: it sets the exit code and never clears it.
Annotate ==
  /\ phase = "annotate" /\ phase' = "upload"
  /\ exitCode' = IF Outcome = "fail" THEN 1 ELSE exitCode
  /\ UNCHANGED <<inputs, log_, alive, listing, listed, read, warned>>

\* The traffic artifact: whatever becomes of it, the outcome stands.
Upload ==
  /\ phase = "upload" /\ phase' = "done"
  /\ UNCHANGED <<inputs, log_, alive, listing, listed, read, exitCode, warned>>

Report ==
  \/ \E l \in Logs : List(l) \/ ReadNext(l)
  \/ FetchFails \/ Fetch \/ WriteSummary \/ SummaryFails \/ Annotate \/ Upload

Next ==
  \/ \E l \in Logs : LogLine(l) \/ Restart(l) \/ Store(l)
  \/ ContainerDies \/ CommandEnds \/ Report

Spec == Init /\ [][Next]_vars

-----------------------------------------------------------------------------
\* Lines that were in the files when they were listed.
Stored(l) == 1..listed[l][1]
Missed(l) == Stored(l) \ read[l]

\* Two ways a full-looking record is not full: a file changed its name after
\* the listing, or the marker of a restart is the oldest line that is left.
RotatedWhileRead(l) == rotations[l] # listed[l][2]
RestartHeads(l) == read[l] # {} /\ Min(read[l]) > 1 /\ written[l][Min(read[l])] = Marker

\* A report that calls its logs complete has every line that was there when it
\* listed them, but for those two (docker/rotated-log.ts, log/inspect.ts).
CompleteRecordsAreComplete ==
  (phase \in {"summary", "annotate", "upload"} /\ Plausible) =>
    \A l \in Logs : Missed(l) = {} \/ RotatedWhileRead(l) \/ RestartHeads(l)

\* A refusal no known_blocked_rules cover, as a line of either log, or what may
\* have been one.
Refusal(line) ==
  \/ line.kind = "cut"
  \/ line.kind = "event" /\ line.event.action = "block" /\ line.event.host \notin Known
  \/ line.kind = "lookup" /\ line.verb \in {"denied", "service-denied"} /\ line.name \notin Known

\* Under fail_on_blocked a refusal that is in the files fails the step, whether
\* its line is read or lost, unless the report itself failed (README.md, "In
\* `restrict` mode a blocked connection fails the step"); and nothing fails the
\* step but that: a refusal the rules do not expect, or a line lost or cut.
RefusalsDecideTheStep ==
  /\ (phase = "done" /\ ~warned /\ ~audit /\ failOnBlocked) =>
       \A l \in Logs : (\E i \in Stored(l) : Refusal(written[l][i])) =>
         exitCode = 1 \/ RotatedWhileRead(l) \/ RestartHeads(l)
  /\ exitCode = 1 =>
       /\ ~audit /\ failOnBlocked
       /\ \E l \in Logs : Missed(l) # {} \/ \E i \in read[l] : Refusal(written[l][i])

=============================================================================
