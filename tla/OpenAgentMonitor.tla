-------------------------- MODULE OpenAgentMonitor --------------------------
(* The OpenAgent audit monitor: agentmonitor/openagent.go tails the audit   *)
(* logs of claimed installations, agentmonitor/openagent_audit.go turns     *)
(* their lines into records.                                                *)
(*                                                                          *)
(* One mutex makes enable, disable and a poll exclude one another; the      *)
(* agent goes on writing, and a crash can come between any two steps.       *)
(* Offsets count half lines: 2k is the end of line k, 2k - 1 its middle.    *)
EXTENDS Integers, Sequences, FiniteSets, SequencesExt

CONSTANTS
  AuditFiles,       \* audit logs
  AuditDirs,        \* the directories they are in
  AuditClaims,      \* claims (agent path and owner)
  AuditDirOf,       \* the directory of each log and of each claim
  AuditEntries,     \* what a line can say
  Unnamed,          \* no session in a line; the session named after the file
  NoAudit,
  MaxAuditLines,    \* bound: lines of a log
  MaxAuditSwaps,    \* bound: logs truncated or replaced
  MaxAuditFaults    \* bound: crashes, failed saves and unreadable logs

ASSUME AuditAssumption ==
  /\ AuditDirOf \in [AuditFiles \cup AuditClaims -> AuditDirs]
  /\ NoAudit \notin AuditFiles
  /\ {MaxAuditLines, MaxAuditSwaps, MaxAuditFaults} \subseteq Nat

VARIABLES
  auditLog,         \* the lines of each log
  auditHalf,        \* its last line has no newline yet
  auditGen,         \* how often it was replaced
  auditUp,          \* "down", "deaf" (its state could not be loaded) or "up"
  auditScan,        \* the poll under way
  auditClaims,      \* m.claims
  auditCursors,     \* m.cursors: at most one for each log
  auditDirty,       \* m.dirty
  auditDisk,        \* the state file
  reported,         \* the records handed to AddRecord, in order
  claimedAt,        \* history: the first line begun since the directory is claimed
  auditRun,         \* history: how often the process was started
  auditFaults

auditAgentVars == <<auditLog, auditHalf, auditGen, claimedAt>>
auditMonitorVars == <<auditClaims, auditCursors, auditDirty>>
auditVars == <<auditLog, auditHalf, auditGen, auditUp, auditScan, auditClaims,
               auditCursors, auditDirty, auditDisk, reported, claimedAt, auditRun, auditFaults>>

NoAuditScan == [todo |-> {}, at |-> NoAudit, claim |-> NoAudit, on |-> FALSE]
AuditTorn == [claims |-> {}, cursors |-> [f \in AuditFiles |-> {}], torn |-> TRUE]
AuditBlank == [AuditTorn EXCEPT !.torn = FALSE]

AuditSize(f) == 2 * Len(auditLog[f]) - (IF auditHalf[f] THEN 1 ELSE 0)
AuditLineAt(offset) == (offset + 2) \div 2
WholeAuditLine(f, offset) ==
  AuditLineAt(offset) < Len(auditLog[f]) \/ (AuditLineAt(offset) = Len(auditLog[f]) /\ ~auditHalf[f])

\* openAgentAuditFiles: a log exists once something was written to it.
AuditLogsIn(dir) == {f \in AuditFiles : AuditDirOf[f] = dir /\ (auditLog[f] # <<>> \/ auditGen[f] > 0)}
AuditClaimsOn(dir) == {c \in auditClaims : AuditDirOf[c] = dir}

AuditFault == auditFaults < MaxAuditFaults /\ auditFaults' = auditFaults + 1

-----------------------------------------------------------------------------
(* Lines and cursors.                                                       *)

\* A tool call needs its tool, a session event that it is a start or an end.
YieldsRecord(e) ==
  \/ e.type \in {"tool_call", "session"} /\ e.named
  \/ e.type = "llm_call"

\* A denied operation is denied whatever outcome was written with it.
AuditOutcome(e) ==
  IF e.type = "session" THEN "" ELSE IF e.denied THEN "denied" ELSE "reported"

AuditCursor(f) == CHOOSE c \in auditCursors[f] : TRUE
NewAuditCursor(f) == [offset |-> 0, session |-> Unnamed, gen |-> auditGen[f], seed |-> 0]

\* Mutant: a claimed directory is not seeded at the end of its logs.
UnseededCursor(f, seedEOF) ==
  IF auditCursors[f] = {} THEN NewAuditCursor(f) ELSE AuditCursor(f)

\* Mutant: a log that has not grown is read again.
RewoundAtEnd(f, seedEOF) ==
  LET c == IF auditCursors[f] = {} THEN NewAuditCursor(f) ELSE AuditCursor(f)
  IN IF seedEOF THEN [c EXCEPT !.offset = AuditSize(f), !.gen = auditGen[f], !.seed = AuditSize(f)]
     ELSE IF AuditSize(f) <= c.offset THEN [c EXCEPT !.offset = 0, !.gen = auditGen[f], !.seed = 0]
     ELSE c

\* cursorForFileLocked; gen and seed are history: which contents the offset
\* counts, and where it was seeded.
AuditCursorFor(f, seedEOF) ==
  LET c == IF auditCursors[f] = {} THEN NewAuditCursor(f) ELSE AuditCursor(f)
  IN IF seedEOF THEN [c EXCEPT !.offset = AuditSize(f), !.gen = auditGen[f], !.seed = AuditSize(f)]
     ELSE IF AuditSize(f) < c.offset THEN [c EXCEPT !.offset = 0, !.gen = auditGen[f], !.seed = 0]
     ELSE c

\* parseOpenAgentAuditLine: a line read from its middle is not JSON.
AuditEntryAt(f, offset) ==
  IF offset % 2 = 1 THEN {} ELSE {auditLog[f][AuditLineAt(offset)]}
\* Mutant: a line without a session is not of the one named before it.
SessionOfLine(c, es) ==
  IF es = {} THEN c.session ELSE (CHOOSE e \in es : TRUE).session

SessionAfter(c, es) ==
  IF \E e \in es : e.session # Unnamed THEN (CHOOSE e \in es : TRUE).session ELSE c.session

-----------------------------------------------------------------------------
(* Saving.                                                                  *)

AuditSaved(claims, cursors) ==
  /\ auditDisk' = [claims |-> claims, cursors |-> cursors, torn |-> FALSE]
  /\ auditDirty' = FALSE
  /\ UNCHANGED auditFaults

\* An error before or inside os.WriteFile.
AuditSaveFailed ==
  /\ AuditFault
  /\ auditDisk' \in {auditDisk, AuditTorn}
  /\ auditDirty' = TRUE

-----------------------------------------------------------------------------
(* Patch and Unpatch; the poller; the life of the process.                  *)

AuditSeeded(logs) ==
  [f \in AuditFiles |-> IF f \in logs THEN {AuditCursorFor(f, TRUE)} ELSE auditCursors[f]]

AuditQuiet == auditUp # "down" /\ ~auditScan.on

EnableAudit(c) ==
  /\ AuditQuiet /\ c \notin auditClaims
  /\ LET dir     == AuditDirOf[c]
         first   == AuditClaimsOn(dir) = {}
         cursors == IF first THEN AuditSeeded(AuditLogsIn(dir)) ELSE auditCursors
     IN /\ auditCursors' = cursors
        /\ \/ /\ AuditSaved(auditClaims \cup {c}, cursors)
              /\ auditClaims' = auditClaims \cup {c}
              /\ claimedAt' = [f \in AuditFiles |->
                   IF first /\ AuditDirOf[f] = dir THEN Len(auditLog[f]) + 1 ELSE claimedAt[f]]
           \/ AuditSaveFailed /\ UNCHANGED <<auditClaims, claimedAt>>
  /\ UNCHANGED <<auditLog, auditHalf, auditGen, auditUp, auditScan, reported, auditRun>>

\* A log cannot be looked at: those before it are seeded already.
EnableAuditFails(c) ==
  /\ AuditQuiet /\ c \notin auditClaims /\ AuditClaimsOn(AuditDirOf[c]) = {}
  /\ AuditFault
  /\ \E logs \in SUBSET AuditLogsIn(AuditDirOf[c]) :
       /\ auditCursors' = AuditSeeded(logs)
       /\ auditDirty' = (auditDirty \/ logs # {})
  /\ UNCHANGED <<auditAgentVars, auditUp, auditScan, auditClaims, auditDisk, reported, auditRun>>

DisableAudit(c) ==
  /\ AuditQuiet /\ c \in auditClaims
  /\ \/ /\ AuditSaved(auditClaims \ {c}, auditCursors)
        /\ auditClaims' = auditClaims \ {c}
     \/ AuditSaveFailed /\ UNCHANGED auditClaims
  /\ UNCHANGED <<auditAgentVars, auditUp, auditScan, auditCursors, reported, auditRun>>

\* poll: the logs of the claimed directories; what cannot be listed is left out.
BeginAuditPoll ==
  /\ auditUp = "up" /\ ~auditScan.on
  /\ LET logs == UNION {AuditLogsIn(AuditDirOf[c]) : c \in auditClaims}
     IN \E todo \in SUBSET logs :
          /\ IF todo = logs THEN UNCHANGED auditFaults ELSE AuditFault
          /\ auditScan' = [todo |-> todo, at |-> NoAudit, claim |-> NoAudit, on |-> TRUE]
  /\ UNCHANGED <<auditAgentVars, auditUp, auditMonitorVars, auditDisk, reported, auditRun>>

\* Its cursor, and any claim on its directory.
OpenAuditLog(f) ==
  /\ auditScan.on /\ auditScan.at = NoAudit /\ f \in auditScan.todo
  /\ \E c \in AuditClaimsOn(AuditDirOf[f]) :
       auditScan' = [auditScan EXCEPT !.todo = @ \ {f}, !.at = f, !.claim = c]
  /\ auditCursors' = [auditCursors EXCEPT ![f] = {AuditCursorFor(f, FALSE)}]
  /\ auditDirty' = (auditDirty \/ auditCursors' # auditCursors)
  /\ UNCHANGED <<auditAgentVars, auditUp, auditClaims, auditDisk, reported, auditRun, auditFaults>>

\* consumeFileLocked: one whole line.
ConsumeAuditLine ==
  /\ auditScan.at # NoAudit
  /\ LET f       == auditScan.at
         c       == AuditCursor(f)
         line    == AuditLineAt(c.offset)
         said    == AuditEntryAt(f, c.offset)
         session == SessionAfter(c, said)
     IN /\ WholeAuditLine(f, c.offset)
        /\ auditCursors' = [auditCursors EXCEPT
             ![f] = {[c EXCEPT !.offset = 2 * line, !.session = session]}]
        /\ reported' = reported \o SetToSeq(
             {[file |-> f, gen |-> auditGen[f], line |-> line, claim |-> auditScan.claim,
               session |-> session, outcome |-> AuditOutcome(e), run |-> auditRun]
                : e \in {e \in said : YieldsRecord(e)}})
  /\ auditDirty' = TRUE
  /\ UNCHANGED <<auditAgentVars, auditUp, auditScan, auditClaims, auditDisk, auditRun, auditFaults>>

\* The end of the log, or it cannot be read further.
CloseAuditLog ==
  /\ auditScan.at # NoAudit
  /\ IF WholeAuditLine(auditScan.at, AuditCursor(auditScan.at).offset)
     THEN AuditFault ELSE UNCHANGED auditFaults
  /\ auditScan' = [auditScan EXCEPT !.at = NoAudit, !.claim = NoAudit]
  /\ UNCHANGED <<auditAgentVars, auditUp, auditMonitorVars, auditDisk, reported, auditRun>>

EndAuditPoll ==
  /\ auditScan.on /\ auditScan.at = NoAudit /\ auditScan.todo = {}
  /\ auditScan' = NoAuditScan
  /\ IF auditDirty THEN AuditSaved(auditClaims, auditCursors) \/ AuditSaveFailed
     ELSE UNCHANGED <<auditDisk, auditDirty, auditFaults>>
  /\ UNCHANGED <<auditAgentVars, auditUp, auditClaims, auditCursors, reported, auditRun>>

\* The process stops, at worst in the middle of a save.
StopAudit ==
  /\ auditUp # "down" /\ AuditFault
  /\ auditUp' = "down" /\ auditScan' = NoAuditScan
  /\ auditClaims' = {} /\ auditCursors' = AuditBlank.cursors /\ auditDirty' = FALSE
  /\ auditDisk' \in {auditDisk, AuditTorn}
  /\ UNCHANGED <<auditAgentVars, reported, auditRun>>

\* start: a state file that does not parse stops it before the poller starts.
StartAudit ==
  /\ auditUp = "down"
  /\ auditRun' = auditRun + 1
  /\ auditUp' = IF auditDisk.torn THEN "deaf" ELSE "up"
  /\ auditClaims' = auditDisk.claims /\ auditCursors' = auditDisk.cursors
  /\ UNCHANGED <<auditAgentVars, auditScan, auditDirty, auditDisk, reported, auditFaults>>

-----------------------------------------------------------------------------
(* The agent.                                                               *)

BeginAuditLine(f, e) ==
  /\ ~auditHalf[f] /\ Len(auditLog[f]) < MaxAuditLines
  /\ auditLog' = [auditLog EXCEPT ![f] = Append(@, e)]
  /\ auditHalf' = [auditHalf EXCEPT ![f] = TRUE]
  /\ UNCHANGED <<auditGen, claimedAt, auditUp, auditScan, auditMonitorVars, auditDisk,
                 reported, auditRun, auditFaults>>

EndAuditLine(f) ==
  /\ auditHalf[f]
  /\ auditHalf' = [auditHalf EXCEPT ![f] = FALSE]
  /\ UNCHANGED <<auditLog, auditGen, claimedAt, auditUp, auditScan, auditMonitorVars,
                 auditDisk, reported, auditRun, auditFaults>>

SwapAuditLog(f) ==
  /\ auditGen[f] < MaxAuditSwaps /\ auditLog[f] # <<>>
  /\ auditLog' = [auditLog EXCEPT ![f] = <<>>]
  /\ auditHalf' = [auditHalf EXCEPT ![f] = FALSE]
  /\ auditGen' = [auditGen EXCEPT ![f] = @ + 1]
  /\ claimedAt' = [claimedAt EXCEPT ![f] = 1]
  /\ UNCHANGED <<auditUp, auditScan, auditMonitorVars, auditDisk, reported, auditRun, auditFaults>>

AuditInit ==
  /\ auditLog = [f \in AuditFiles |-> <<>>]
  /\ auditHalf = [f \in AuditFiles |-> FALSE]
  /\ auditGen = [f \in AuditFiles |-> 0]
  /\ claimedAt = [f \in AuditFiles |-> 1]
  /\ auditUp = "up" /\ auditScan = NoAuditScan
  /\ auditClaims = {} /\ auditCursors = AuditBlank.cursors /\ auditDirty = FALSE
  /\ auditDisk = AuditBlank
  /\ reported = <<>>
  /\ auditRun = 0 /\ auditFaults = 0

AuditNext ==
  \/ \E c \in AuditClaims : EnableAudit(c) \/ EnableAuditFails(c) \/ DisableAudit(c)
  \/ BeginAuditPoll \/ ConsumeAuditLine \/ CloseAuditLog \/ EndAuditPoll
  \/ \E f \in AuditFiles : OpenAuditLog(f) \/ EndAuditLine(f) \/ SwapAuditLog(f)
  \/ \E f \in AuditFiles, e \in AuditEntries : BeginAuditLine(f, e)
  \/ StopAudit \/ StartAudit

AuditSpec == AuditInit /\ [][AuditNext]_auditVars

-----------------------------------------------------------------------------
(* Properties.                                                              *)

\* The types of the variables; a poll visits logs of claimed directories.
AuditTypeOK ==
  /\ auditUp \in {"down", "deaf", "up"}
  /\ auditClaims \subseteq AuditClaims /\ auditDirty \in BOOLEAN
  /\ auditScan.todo \cup ({auditScan.at} \ {NoAudit})
       \subseteq {f \in AuditFiles : AuditClaimsOn(AuditDirOf[f]) # {}}
  /\ \A f \in AuditFiles : Cardinality(auditCursors[f]) <= 1
  /\ auditRun \in Nat /\ auditFaults \in 0..MaxAuditFaults

\* Patching never replays what the agent logged before: a record is of a line
\* begun after its directory was last claimed, through unpatching and patching
\* again, failed saves, crashes and replaced logs (openagent.go:297-299).
NoHistory ==
  [][ \A i \in Len(reported) + 1 .. Len(reported') :
        reported'[i].line >= claimedAt[reported'[i].file] ]_auditVars

\* What a log says from where it was seeded to its cursor has been reported,
\* in the session it names last and, if denied, as denied; and no run of the
\* process reports a line twice.
NamedIn(f, first, last) == {i \in first..last : auditLog[f][i].session # Unnamed}
ReportedAs(f, i, first) ==
  \E k \in DOMAIN reported :
    LET r     == reported[k]
        named == NamedIn(f, first, i)
    IN /\ r.file = f /\ r.gen = auditGen[f] /\ r.line = i
       /\ r.outcome = AuditOutcome(auditLog[f][i])
       /\ named # {} => r.session = auditLog[f][Max(named)].session
EventsAreReported ==
  /\ \A f \in AuditFiles : \A c \in auditCursors[f] :
       LET first == (c.seed + 3) \div 2
       IN c.gen = auditGen[f] =>
            \A i \in first .. c.offset \div 2 :
              YieldsRecord(auditLog[f][i]) => ReportedAs(f, i, first)
  /\ \A j, k \in DOMAIN reported :
       /\ reported[j].file = reported[k].file /\ reported[j].gen = reported[k].gen
       /\ reported[j].line = reported[k].line /\ reported[j].run = reported[k].run
       => j = k

\* The monitor is a log tail over the logs, as the rollout monitor is: between
\* its claims, its cursors and the state file it never jumps over text of a
\* log in a claimed directory, goes back only to the start of one that shrank,
\* and resumes where it last saved (openagent.go:292-334).
AuditPositions(cs) == [f \in AuditFiles |-> IF cs[f] = {} THEN 0 ELSE (CHOOSE c \in cs[f] : TRUE).offset]
AuditFollowed(cl) == {f \in AuditFiles : \E c \in cl : AuditDirOf[c] = AuditDirOf[f]}

AT == INSTANCE LogTail WITH
  Files <- AuditFiles,
  size <- [f \in AuditFiles |-> AuditSize(f)],
  pos <- AuditPositions(auditCursors),
  followed <- AuditFollowed(auditClaims),
  saved <- [pos |-> AuditPositions(auditDisk.cursors), followed |-> AuditFollowed(auditDisk.claims)],
  running <- auditUp # "down"

AuditImplementsTail == AT!Spec
=============================================================================
