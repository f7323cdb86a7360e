--------------------------- MODULE CoworkMonitor ---------------------------
(* The Cowork transcript monitor of Claude Desktop on Windows:              *)
(* agentmonitor/monitor_windows.go keeps the patched installations,         *)
(* agentmonitor/transcript_windows.go tails the audit logs of the profiles  *)
(* they belong to.                                                          *)
(*                                                                          *)
(* Unlike the other monitors it saves the installations only, never how far *)
(* it has read: each life of it begins at the end of the logs.  A poll and  *)
(* SetTargets exclude one another, so that an Enable or Disable that comes  *)
(* during a poll is one step after it; Claude goes on writing.              *)
(* Offsets count half lines: 2k is the end of line k, 2k - 1 its middle.    *)
EXTENDS Integers, Sequences, FiniteSets, SequencesExt

CONSTANTS
  CoworkLogs,       \* audit.jsonl files
  Installs,         \* installations of Claude Desktop
  Profiles,         \* Windows profiles
  ProfileOf,        \* the profile of each log and each installation
  CoworkEntries,    \* what a line of each log can say
  NoLog,
  MaxCoworkLines,   \* bound: lines of a log
  MaxCoworkSwaps,   \* bound: logs truncated or replaced
  MaxLives,         \* bound: transcript monitors started
  MaxCoworkFaults   \* bound: crashes, failed saves and unreadable logs

ASSUME CoworkAssumption ==
  /\ ProfileOf \in [CoworkLogs \cup Installs -> Profiles]
  /\ NoLog \notin CoworkLogs
  /\ \A f \in CoworkLogs : \A e \in CoworkEntries[f] : e.kind \in {"text", "tool_use", "tool_result"}
  /\ {MaxCoworkLines, MaxCoworkSwaps, MaxLives, MaxCoworkFaults} \subseteq Nat

VARIABLES
  coworkLog,        \* the lines of each log
  coworkHalf,       \* its last line has no newline yet
  coworkGen,        \* how often it was replaced
  aiguard,          \* the process runs
  targets,          \* desktopMonitor.targets
  targetsDisk,      \* the state file
  watching,         \* there is a transcript monitor
  roots,            \* its roots: at most one target for each profile
  offsets,          \* its offsets
  calls,            \* its pending calls: at most one for each id
  coworkScan,       \* the poll under way
  told,             \* the records handed to AddRecord, in order
  watchedAt,        \* history: the first line begun since its profile is watched
  life,             \* history: how many transcript monitors there were
  coworkFaults

claudeVars == <<coworkLog, coworkHalf, coworkGen, watchedAt>>
transcriptVars == <<watching, roots, offsets, calls, life>>
coworkVars == <<coworkLog, coworkHalf, coworkGen, aiguard, targets, targetsDisk, watching,
                roots, offsets, calls, coworkScan, told, watchedAt, life, coworkFaults>>

NoCoworkScan == [todo |-> {}, at |-> NoLog, on |-> FALSE]
TornTargets == [targets |-> {}, torn |-> TRUE]
NoRoots == [p \in Profiles |-> {}]

CoworkSize(f) == 2 * Len(coworkLog[f]) - (IF coworkHalf[f] THEN 1 ELSE 0)
CoworkLineAt(offset) == (offset + 2) \div 2
WholeCoworkLine(f, offset) ==
  \/ CoworkLineAt(offset) < Len(coworkLog[f])
  \/ CoworkLineAt(offset) = Len(coworkLog[f]) /\ ~coworkHalf[f]

\* auditFiles: a log exists once something was written to it.
CoworkLogsIn(ps) ==
  {f \in CoworkLogs : ProfileOf[f] \in ps /\ (coworkLog[f] # <<>> \/ coworkGen[f] > 0)}

\* Mutant: a log is watched from its top.
FromTheTop(at, f) == [at |-> 0, gen |-> coworkGen[f], seed |-> 0]

\* gen and seed are history: which contents the offset counts, and from where.
CoworkOffset(at, f) == [at |-> at, gen |-> coworkGen[f], seed |-> at]
NoOffsets == [f \in CoworkLogs |-> [at |-> 0, gen |-> 0, seed |-> 0]]

CoworkFault == coworkFaults < MaxCoworkFaults /\ coworkFaults' = coworkFaults + 1

-----------------------------------------------------------------------------
(* Enable, Disable and the life of the process.                             *)

\* One of the installations of a profile is the target of its root; which one
\* is up to the order of a Go map.
RootsOf(ts) ==
  {r \in [Profiles -> SUBSET ts] :
     \A p \in Profiles :
       LET here == {t \in ts : ProfileOf[t] = p}
       IN IF here = {} THEN r[p] = {} ELSE \E t \in here : r[p] = {t}}

\* SetTargets: the logs of a profile that was not watched are seeded at their
\* end - unless they cannot be listed, when they are watched all the same.
SetTargets(ts, before, offs) ==
  \E next \in RootsOf(ts) :
    LET fresh == {p \in Profiles : before[p] = {} /\ next[p] # {}}
    IN \E blind \in SUBSET CoworkLogsIn(fresh) :
         /\ IF blind = {} THEN UNCHANGED coworkFaults ELSE CoworkFault
         /\ roots' = next
         /\ offsets' = [f \in CoworkLogs |->
              IF f \in CoworkLogsIn(fresh) \ blind THEN CoworkOffset(CoworkSize(f), f) ELSE offs[f]]
         /\ watchedAt' = [f \in CoworkLogs |->
              IF f \in blind THEN 1
              ELSE IF ProfileOf[f] \in fresh THEN Len(coworkLog[f]) + 1
              ELSE watchedAt[f]]

NewTranscriptMonitor(ts) ==
  /\ watching' = TRUE /\ calls' = {} /\ life' = life + 1
  /\ SetTargets(ts, NoRoots, NoOffsets)

Retarget(ts) ==
  IF watching
  THEN SetTargets(ts, roots, offsets) /\ UNCHANGED <<watching, calls, life>>
  ELSE NewTranscriptMonitor(ts)

StopTranscript ==
  /\ life < MaxLives
  /\ watching' = FALSE
  /\ roots' = NoRoots /\ offsets' = NoOffsets /\ calls' = {}
  /\ UNCHANGED <<watchedAt, life>>

SaveTargets(ts) == targetsDisk' = [targets |-> ts, torn |-> FALSE]

\* The map is put back; the file may be torn.
SaveTargetsFails ==
  /\ CoworkFault
  /\ targetsDisk' \in {targetsDisk, TornTargets}
  /\ UNCHANGED <<targets, transcriptVars, watchedAt>>

CoworkQuiet == aiguard /\ ~coworkScan.on

EnableCowork(i) ==
  /\ CoworkQuiet
  /\ \/ /\ targets' = targets \cup {i}
        /\ SaveTargets(targets')
        /\ Retarget(targets')
     \/ SaveTargetsFails
  /\ UNCHANGED <<coworkLog, coworkHalf, coworkGen, aiguard, coworkScan, told>>

\* The last one out stops the transcript monitor, once its poll is over.
DisableCowork(i) ==
  /\ CoworkQuiet /\ i \in targets
  /\ \/ /\ targets' = targets \ {i}
        /\ SaveTargets(targets')
        /\ IF ~watching THEN UNCHANGED <<transcriptVars, watchedAt, coworkFaults>>
           ELSE IF targets' = {} THEN StopTranscript /\ UNCHANGED coworkFaults
           ELSE Retarget(targets')
     \/ SaveTargetsFails
  /\ UNCHANGED <<coworkLog, coworkHalf, coworkGen, aiguard, coworkScan, told>>

\* startCoworkMonitor: a state file that does not parse starts nothing.
StartCowork ==
  /\ ~aiguard /\ aiguard' = TRUE
  /\ targets' = targetsDisk.targets
  /\ IF targets' = {} THEN UNCHANGED <<transcriptVars, watchedAt, coworkFaults>>
     ELSE NewTranscriptMonitor(targets')
  /\ UNCHANGED <<coworkLog, coworkHalf, coworkGen, targetsDisk, coworkScan, told>>

StopCowork ==
  /\ aiguard /\ aiguard' = FALSE
  /\ CoworkFault
  /\ targets' = {} /\ targetsDisk' \in {targetsDisk, TornTargets}
  /\ coworkScan' = NoCoworkScan
  /\ StopTranscript
  /\ UNCHANGED <<coworkLog, coworkHalf, coworkGen, told>>

-----------------------------------------------------------------------------
(* A poll.                                                                  *)

BeginCoworkPoll ==
  /\ watching /\ ~coworkScan.on
  /\ LET logs == CoworkLogsIn({p \in Profiles : roots[p] # {}})
     IN \E todo \in SUBSET logs :
          /\ IF todo = logs THEN UNCHANGED coworkFaults ELSE CoworkFault
          /\ coworkScan' = [todo |-> todo, at |-> NoLog, on |-> TRUE]
  /\ UNCHANGED <<claudeVars, aiguard, targets, targetsDisk, transcriptVars, told>>

\* consumeFile: a log shorter than its offset is read from the top.
OpenTranscript(f) ==
  /\ coworkScan.on /\ coworkScan.at = NoLog /\ f \in coworkScan.todo
  /\ coworkScan' = [coworkScan EXCEPT !.todo = @ \ {f}, !.at = f]
  /\ offsets' = [offsets EXCEPT ![f] = IF CoworkSize(f) < @.at THEN CoworkOffset(0, f) ELSE @]
  /\ UNCHANGED <<claudeVars, aiguard, targets, targetsDisk, watching, roots, calls, life,
                 told, coworkFaults>>

\* Mutant: a result is looked for among the calls of the present target only.
RecordsOfTarget(f, line, e) ==
  LET record(i, call) == [file |-> f, gen |-> coworkGen[f], line |-> line, install |-> i,
                          call |-> call, life |-> life]
      here == CHOOSE t \in roots[ProfileOf[f]] : TRUE
      mine == {c \in calls : c.id = e.id /\ c.install = here}
  IN IF e.kind = "text" THEN [records |-> {record(here, 0)}, calls |-> calls]
     ELSE IF e.kind = "tool_use"
     THEN [records |-> {record(here, 0)},
           calls   |-> {c \in calls : c.id # e.id} \cup {[id |-> e.id, install |-> here, line |-> line]}]
     ELSE [records |-> {record(c.install, c.line) : c \in mine}, calls |-> calls \ mine]

\* consumeLine: a line from its middle is not JSON; a result without the call
\* it answers is dropped; the result is a record of its call.
TranscriptRecords(f, line, e) ==
  LET record(i, call) == [file |-> f, gen |-> coworkGen[f], line |-> line, install |-> i,
                          call |-> call, life |-> life]
      here == CHOOSE t \in roots[ProfileOf[f]] : TRUE
      mine == {c \in calls : c.id = e.id}
  IN IF e.kind = "text" THEN [records |-> {record(here, 0)}, calls |-> calls]
     ELSE IF e.kind = "tool_use"
     THEN [records |-> {record(here, 0)},
           calls   |-> (calls \ mine) \cup {[id |-> e.id, install |-> here, line |-> line]}]
     ELSE [records |-> {record(c.install, c.line) : c \in mine}, calls |-> calls \ mine]

ConsumeTranscriptLine ==
  /\ coworkScan.at # NoLog
  /\ LET f    == coworkScan.at
         line == CoworkLineAt(offsets[f].at)
         read == IF offsets[f].at % 2 = 1 THEN [records |-> {}, calls |-> calls]
                 ELSE TranscriptRecords(f, line, coworkLog[f][line])
     IN /\ WholeCoworkLine(f, offsets[f].at)
        /\ offsets' = [offsets EXCEPT ![f].at = 2 * line]
        /\ told' = told \o SetToSeq(read.records)
        /\ calls' = read.calls
  /\ UNCHANGED <<claudeVars, aiguard, targets, targetsDisk, watching, roots, life,
                 coworkScan, coworkFaults>>

\* The end of the log, or it cannot be read further.
CloseTranscript ==
  /\ coworkScan.at # NoLog
  /\ IF WholeCoworkLine(coworkScan.at, offsets[coworkScan.at].at)
     THEN CoworkFault ELSE UNCHANGED coworkFaults
  /\ coworkScan' = [coworkScan EXCEPT !.at = NoLog]
  /\ UNCHANGED <<claudeVars, aiguard, targets, targetsDisk, transcriptVars, told>>

EndCoworkPoll ==
  /\ coworkScan.on /\ coworkScan.at = NoLog /\ coworkScan.todo = {}
  /\ coworkScan' = NoCoworkScan
  /\ UNCHANGED <<claudeVars, aiguard, targets, targetsDisk, transcriptVars, told, coworkFaults>>

-----------------------------------------------------------------------------
(* Claude.                                                                  *)

BeginCoworkLine(f, e) ==
  /\ ~coworkHalf[f] /\ Len(coworkLog[f]) < MaxCoworkLines
  /\ coworkLog' = [coworkLog EXCEPT ![f] = Append(@, e)]
  /\ coworkHalf' = [coworkHalf EXCEPT ![f] = TRUE]
  /\ UNCHANGED <<coworkGen, watchedAt, aiguard, targets, targetsDisk, transcriptVars,
                 coworkScan, told, coworkFaults>>

EndCoworkLine(f) ==
  /\ coworkHalf[f]
  /\ coworkHalf' = [coworkHalf EXCEPT ![f] = FALSE]
  /\ UNCHANGED <<coworkLog, coworkGen, watchedAt, aiguard, targets, targetsDisk,
                 transcriptVars, coworkScan, told, coworkFaults>>

SwapCoworkLog(f) ==
  /\ coworkGen[f] < MaxCoworkSwaps /\ coworkLog[f] # <<>>
  /\ coworkLog' = [coworkLog EXCEPT ![f] = <<>>]
  /\ coworkHalf' = [coworkHalf EXCEPT ![f] = FALSE]
  /\ coworkGen' = [coworkGen EXCEPT ![f] = @ + 1]
  /\ watchedAt' = [watchedAt EXCEPT ![f] = 1]
  /\ UNCHANGED <<aiguard, targets, targetsDisk, transcriptVars, coworkScan, told, coworkFaults>>

CoworkInit ==
  /\ coworkLog = [f \in CoworkLogs |-> <<>>]
  /\ coworkHalf = [f \in CoworkLogs |-> FALSE]
  /\ coworkGen = [f \in CoworkLogs |-> 0]
  /\ watchedAt = [f \in CoworkLogs |-> 1]
  /\ aiguard = TRUE /\ targets = {} /\ targetsDisk = [TornTargets EXCEPT !.torn = FALSE]
  /\ watching = FALSE /\ roots = NoRoots /\ offsets = NoOffsets /\ calls = {}
  /\ coworkScan = NoCoworkScan /\ told = <<>> /\ life = 0 /\ coworkFaults = 0

CoworkNext ==
  \/ \E i \in Installs : EnableCowork(i) \/ DisableCowork(i)
  \/ StartCowork \/ StopCowork
  \/ BeginCoworkPoll \/ ConsumeTranscriptLine \/ CloseTranscript \/ EndCoworkPoll
  \/ \E f \in CoworkLogs : OpenTranscript(f) \/ EndCoworkLine(f) \/ SwapCoworkLog(f)
  \/ \E f \in CoworkLogs : \E e \in CoworkEntries[f] : BeginCoworkLine(f, e)

CoworkSpec == CoworkInit /\ [][CoworkNext]_coworkVars

-----------------------------------------------------------------------------
(* Properties.                                                              *)

\* The types of the variables; what is watched is patched.
CoworkTypeOK ==
  /\ aiguard \in BOOLEAN /\ watching \in BOOLEAN
  /\ targets \subseteq Installs /\ UNION {roots[p] : p \in Profiles} \subseteq targets
  /\ coworkScan.todo \cup ({coworkScan.at} \ {NoLog}) \subseteq CoworkLogs
  /\ \A f \in CoworkLogs : offsets[f].at \in 0 .. 2 * MaxCoworkLines
  /\ \A c, d \in calls : c.id = d.id => c = d
  /\ coworkFaults \in 0..MaxCoworkFaults

\* A record is of a line begun since its profile is watched, and names an
\* installation that is patched or, for a result, the one its call named:
\* Patch never imports earlier sessions (transcript_windows.go:123-125) - but
\* for logs that could not be looked at when their profile was enabled.
OnlyWatchedLines ==
  [][ \A k \in Len(told) + 1 .. Len(told') :
        LET r == told'[k]
        IN /\ r.line >= watchedAt[r.file]
           /\ \/ r.install \in targets
              \/ \E j \in DOMAIN told : /\ told[j].install = r.install
                                        /\ told[j].line = r.call
                                        /\ told[j].life = r.life ]_coworkVars

\* What a log says from where it was seeded to its offset has been told, once
\* in each life of the monitor; a result is told if its call was read in the
\* same life, whichever polls, Enables and Disables came between.
SawCall(f, first, i) ==
  \E j \in first .. i - 1 :
    /\ coworkLog[f][j].kind = "tool_use" /\ coworkLog[f][j].id = coworkLog[f][i].id
    /\ \A k \in j + 1 .. i - 1 : coworkLog[f][k].id # coworkLog[f][i].id
TranscriptIsTold ==
  /\ \A f \in CoworkLogs :
       LET o     == offsets[f]
           first == (o.seed + 3) \div 2
       IN watching /\ roots[ProfileOf[f]] # {} /\ o.gen = coworkGen[f] =>
            \A i \in first .. o.at \div 2 :
              (coworkLog[f][i].kind = "tool_result" => SawCall(f, first, i)) =>
                \E k \in DOMAIN told : /\ told[k].file = f /\ told[k].gen = coworkGen[f]
                                       /\ told[k].line = i /\ told[k].life = life
  /\ \A j, k \in DOMAIN told :
       /\ told[j].file = told[k].file /\ told[j].gen = told[k].gen
       /\ told[j].line = told[k].line /\ told[j].life = told[k].life
       => j = k
=============================================================================
