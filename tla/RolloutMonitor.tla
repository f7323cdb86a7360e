--------------------------- MODULE RolloutMonitor ---------------------------
(***************************************************************************)
(* The Codex rollout monitor of agentmonitor/codex.go: it tails the JSONL  *)
(* files a Codex agent appends to and hands a record to AddRecord for each *)
(* line that belongs to a claimed agent.                                   *)
(*                                                                         *)
(* One mutex protects the monitor, so enable, disable and a whole poll do  *)
(* not interleave with one another.  They do interleave with the agent,    *)
(* which goes on writing (half a line at a time), and with a crash of the  *)
(* process, which may fall between any two steps of a poll or in the       *)
(* middle of the write of the state file.                                  *)
(*                                                                         *)
(* Offsets count half lines: 2k is the end of line k, 2k-1 its middle.     *)
(***************************************************************************)
EXTENDS Integers, Sequences, FiniteSets

CONSTANTS
  Files,        \* rollout files
  Claims,       \* claims an operator can make (agent | path | owner)
  Roots,        \* sessions directories
  Agents,       \* agent identifiers ("codex", "codex-cli")
  CallIds,      \* tool call identifiers
  Kinds,        \* kinds of lines written after the session_meta line
  FileRoot,     \* the directory a file is in
  FileAgent,    \* the agent its session_meta line names, or NoAgent
  ClaimRoot,
  ClaimAgent,
  NoAgent,      \* an originator the monitor does not know, or no header yet
  NoFile,
  MaxLines,     \* bound: lines per file
  MaxCrashes,   \* bound: crashes and stops of the process
  MaxFails,     \* bound: failed saves and unreadable files
  MaxReplaces   \* bound: files truncated or replaced

ASSUME ConstantsAssumption ==
  /\ FileRoot \in [Files -> Roots]
  /\ FileAgent \in [Files -> Agents \union {NoAgent}]
  /\ ClaimRoot \in [Claims -> Roots]
  /\ ClaimAgent \in [Claims -> Agents]
  /\ Kinds \subseteq {"turn", "end", "call", "output", "message"}
  /\ NoAgent \notin Agents
  /\ NoFile \notin Files
  /\ {MaxLines, MaxCrashes, MaxFails, MaxReplaces} \subseteq Nat

VARIABLES
  log,       \* log[f]: the lines of file f, the last one possibly unfinished
  unfinished,\* unfinished[f]: the last line of f has no newline yet
  gen,       \* gen[f]: how often f was replaced
  up,        \* the process runs
  poller,    \* "none", "idle", "scan" or "save": what the polling goroutine does
  todo,      \* files the current poll has still to visit
  open,      \* the file being consumed, or NoFile
  claims,    \* m.claims
  cursors,   \* m.cursors: a set of at most one cursor for each file
  dirty,     \* m.dirty
  disk,      \* the state file
  handed,    \* handed[f]: what was handed to AddRecord for f, in order
  since,     \* history: first line of f begun after its agent was last claimed
  crashes, fails, replaces   \* how much of each bound is used up

env == <<log, unfinished, gen, replaces>>
mem == <<claims, cursors, dirty>>
run == <<up, poller, todo, open>>
vars == <<log, unfinished, gen, up, poller, todo, open, claims, cursors, dirty,
          disk, handed, since, crashes, fails, replaces>>

-----------------------------------------------------------------------------
(* Data *)

Line == [kind : {"meta"} \union Kinds, call : CallIds]

\* pending[k] is the line of the open call k, 0 when there is none.
\* start and gen are history: the offset from which the cursor has known its
\* file's agent (0 if it never read on without), and the file's incarnation.
Cursor == [off : Nat, agent : Agents \union {NoAgent}, turn : BOOLEAN,
           pending : [CallIds -> Nat], start : Nat, gen : Nat]

HandedEntry == [gen : Nat, line : Nat, claim : Claims, call : Nat]

NoPending == [k \in CallIds |-> 0]
NoCursors == [f \in Files |-> {}]
Forever == MaxLines + 1

\* A cursor table holds {} or the singleton of a cursor for each file.
HasCursor(cs, f) == cs[f] # {}
CursorOf(cs, f) == CHOOSE c \in cs[f] : TRUE

SizeOf(f) == 2 * Len(log[f]) - (IF unfinished[f] THEN 1 ELSE 0)
Exists(f) == log[f] # <<>> \/ gen[f] > 0
KnownFilesIn(root) == {f \in Files : FileRoot[f] = root /\ HasCursor(cursors, f)}
FilesIn(root) == {f \in Files : FileRoot[f] = root /\ Exists(f)}

\* codexFileHeader: the agent of a file is known once its first line is whole.
HeaderAgent(f) == IF SizeOf(f) >= 2 THEN FileAgent[f] ELSE NoAgent

\* The line a reader positioned at an offset is in, or about to begin.
LineAt(off) == (off + 2) \div 2
LineReady(f, off) ==
  /\ LineAt(off) <= Len(log[f])
  /\ ~ (LineAt(off) = Len(log[f]) /\ unfinished[f])

-----------------------------------------------------------------------------
(* Cursors *)

ResetTurn(c) == [c EXCEPT !.turn = FALSE, !.pending = NoPending]

FreshCursor(f) ==
  [off |-> 0, agent |-> HeaderAgent(f), turn |-> FALSE, pending |-> NoPending,
   start |-> 0, gen |-> gen[f]]

ReadHeader(f, c) ==
  IF c.agent = NoAgent /\ c.off = 0 /\ SizeOf(f) > 0
  THEN [c EXCEPT !.agent = HeaderAgent(f)] ELSE c

CurrentCursor(f) ==
  IF HasCursor(cursors, f) THEN CursorOf(cursors, f) ELSE FreshCursor(f)

\* cursorForFileLocked(root, path, true)
SeedCursor(f, c) ==
  ReadHeader(f, [ResetTurn(c) EXCEPT !.off = SizeOf(f), !.start = 0, !.gen = gen[f]])

\* cursorForFileLocked(root, path, false)
RewindAtEnd(f, c) ==
  ReadHeader(f, IF SizeOf(f) <= c.off
                THEN [ResetTurn(c) EXCEPT !.off = 0, !.agent = NoAgent,
                                          !.start = 0, !.gen = gen[f]]
                ELSE c)
RewindCursor(f, c) ==
  ReadHeader(f, IF SizeOf(f) < c.off
                THEN [ResetTurn(c) EXCEPT !.off = 0, !.agent = NoAgent,
                                          !.start = 0, !.gen = gen[f]]
                ELSE c)

NeverClaimed(root) == FALSE
RootClaimed(root) == \E c \in claims : ClaimRoot[c] = root

\* claimForCursorLocked: any claim of the cursor's agent on the cursor's root.
RootClaims(f, c) == {k \in claims : ClaimRoot[k] = FileRoot[f]}
MatchingClaims(f, c) ==
  {k \in claims : ClaimAgent[k] = c.agent /\ ClaimRoot[k] = FileRoot[f]}

-----------------------------------------------------------------------------
(* parseCodexRolloutLine: what one whole line does to the cursor, and       *)
(* whether it yields a record.                                              *)

ParseKeepsPending(f, c, line, n) ==
  CASE line.kind = "meta"   -> [c EXCEPT !.agent = FileAgent[f]]
    [] line.kind = "turn"   -> [c EXCEPT !.turn = TRUE]
    [] line.kind = "end"    -> ResetTurn(c)
    [] line.kind = "call"   -> [c EXCEPT !.pending[line.call] = n]
    [] OTHER                -> c
Parse(f, c, line, n) ==
  CASE line.kind = "meta"   -> [c EXCEPT !.agent = FileAgent[f]]
    [] line.kind = "turn"   -> [c EXCEPT !.turn = TRUE]
    [] line.kind = "end"    -> ResetTurn(c)
    [] line.kind = "call"   -> [c EXCEPT !.pending[line.call] = n]
    [] line.kind = "output" -> [c EXCEPT !.pending[line.call] = 0]
    [] OTHER                -> c

Yields(c, line) ==
  \/ line.kind = "message" /\ c.turn
  \/ line.kind = "output" /\ c.pending[line.call] # 0

\* A tool result carries the call it completes.
CallOf(c, line) == IF line.kind = "output" THEN c.pending[line.call] ELSE 0

-----------------------------------------------------------------------------
(* The state file.  saveLocked removes it when there is nothing to save and *)
(* otherwise writes it with os.WriteFile, which truncates first: a failure  *)
(* or a crash leaves the old file or a torn one.                            *)

NoDisk == [state |-> "absent", claims |-> {}, cursors |-> NoCursors]
TornDisk == [state |-> "torn", claims |-> {}, cursors |-> NoCursors]

Saved(cl, cs) ==
  IF cl = {} /\ cs = NoCursors THEN NoDisk
  ELSE [state |-> "ok", claims |-> cl, cursors |-> cs]

\* Saving failed; the disk is as it was or torn.
SaveFailed ==
  /\ fails < MaxFails
  /\ fails' = fails + 1
  /\ disk' \in {disk, TornDisk}

-----------------------------------------------------------------------------
(* The operator: enable and disable *)

\* Handlers need the mutex, which a poll holds from start to end.
MutexFree == up /\ poller \in {"none", "idle"}

Seeded(fs) ==
  [f \in Files |-> IF f \in fs THEN {SeedCursor(f, CurrentCursor(f))} ELSE cursors[f]]

\* The history of a claim starts at the first line begun after it.
ClaimedFiles(c) ==
  {f \in Files : FileRoot[f] = ClaimRoot[c] /\ FileAgent[f] = ClaimAgent[c]}
SinceEnable(c) ==
  [f \in Files |-> IF f \in ClaimedFiles(c) /\ since[f] = Forever
                   THEN Len(log[f]) + 1 ELSE since[f]]
SinceHeld(cl) ==
  [f \in Files |-> IF \E c \in cl : f \in ClaimedFiles(c)
                   THEN since[f] ELSE Forever]

Enable(c) ==
  /\ MutexFree
  /\ c \notin claims
  /\ cursors' = IF RootClaimed(ClaimRoot[c]) THEN cursors
                ELSE Seeded(FilesIn(ClaimRoot[c]))
  /\ \/ /\ claims' = claims \union {c}
        /\ disk' = Saved(claims', cursors')
        /\ dirty' = FALSE
        /\ since' = SinceEnable(c)
        /\ UNCHANGED fails
     \/ /\ SaveFailed
        /\ dirty' = TRUE
        /\ UNCHANGED <<claims, since>>
  /\ UNCHANGED <<env, run, handed, crashes>>

\* A file cannot be read while the root is seeded: enable gives up, and the
\* cursors it has placed stay.
SeedFails(c) ==
  /\ MutexFree
  /\ c \notin claims /\ ~ RootClaimed(ClaimRoot[c])
  /\ fails < MaxFails
  /\ fails' = fails + 1
  /\ \E fs \in SUBSET FilesIn(ClaimRoot[c]) :
       /\ cursors' = Seeded(fs)
       /\ dirty' = (dirty \/ fs # {})
  /\ UNCHANGED <<env, run, claims, disk, handed, since, crashes>>

Disable(c) ==
  /\ MutexFree
  /\ c \in claims
  /\ \/ /\ claims' = claims \ {c}
        /\ disk' = Saved(claims', cursors)
        /\ dirty' = FALSE
        /\ since' = SinceHeld(claims')
        /\ UNCHANGED fails
     \/ /\ SaveFailed
        /\ dirty' = TRUE
        /\ UNCHANGED <<claims, since>>
  /\ UNCHANGED <<env, run, cursors, handed, crashes>>

-----------------------------------------------------------------------------
(* The poller *)

BeginPoll ==
  /\ poller = "idle"
  /\ poller' = "scan"
  /\ todo' = UNION {FilesIn(ClaimRoot[c]) : c \in claims}
  /\ UNCHANGED <<env, up, open, mem, disk, handed, since, crashes, fails>>

\* cursorForFileLocked and the open and seek of consumeFileLocked.
OpenFile(f) ==
  /\ poller = "scan" /\ open = NoFile /\ f \in todo
  /\ open' = f
  /\ LET c == RewindCursor(f, CurrentCursor(f)) IN
       /\ cursors' = [cursors EXCEPT ![f] = {c}]
       /\ dirty' = (dirty \/ ~ HasCursor(cursors, f) \/ c.off # CursorOf(cursors, f).off)
  /\ UNCHANGED <<env, up, poller, todo, claims, disk, handed, since, crashes, fails>>

\* The file cannot be read: it is left for the next poll.
SkipFile(f) ==
  /\ poller = "scan" /\ open = NoFile /\ f \in todo
  /\ fails < MaxFails
  /\ fails' = fails + 1
  /\ todo' = todo \ {f}
  /\ UNCHANGED <<env, up, poller, open, mem, disk, handed, since, crashes>>

\* One iteration of the loop of consumeFileLocked.  The rest of a line whose
\* beginning was skipped is not valid JSON and only moves the offset.
ConsumeLine(f) ==
  LET c    == CursorOf(cursors, f)
      n    == LineAt(c.off)
      line == log[f][n]
      moved == [c EXCEPT !.off = 2 * n]
      whole == c.off % 2 = 0
  IN
  /\ poller = "scan" /\ open = f
  /\ LineReady(f, c.off)
  /\ dirty' = TRUE
  /\ cursors' = [cursors EXCEPT ![f] = {IF whole THEN Parse(f, moved, line, n) ELSE moved}]
  /\ IF whole /\ Yields(c, line) /\ MatchingClaims(f, c) # {}
     THEN \E k \in MatchingClaims(f, c) :
            handed' = [handed EXCEPT ![f] =
                         Append(@, [gen |-> c.gen, line |-> n, claim |-> k,
                                    call |-> CallOf(c, line)])]
     ELSE UNCHANGED handed
  /\ UNCHANGED <<env, run, claims, disk, since, crashes, fails>>

CloseFile(f) ==
  /\ poller = "scan" /\ open = f
  /\ ~ LineReady(f, CursorOf(cursors, f).off)
  /\ open' = NoFile
  /\ todo' = todo \ {f}
  /\ UNCHANGED <<env, up, poller, mem, disk, handed, since, crashes, fails>>

EndScan ==
  /\ poller = "scan" /\ open = NoFile /\ todo = {}
  /\ poller' = IF dirty THEN "save" ELSE "idle"
  /\ UNCHANGED <<env, up, todo, open, mem, disk, handed, since, crashes, fails>>

SavePoll ==
  /\ poller = "save"
  /\ poller' = "idle"
  /\ \/ /\ disk' = Saved(claims, cursors)
        /\ dirty' = FALSE
        /\ UNCHANGED fails
     \/ SaveFailed /\ UNCHANGED dirty
  /\ UNCHANGED <<env, up, todo, open, claims, cursors, handed, since, crashes>>

-----------------------------------------------------------------------------
(* The process: crash (or stop: the monitor saves nothing on the way out)   *)
(* and start                                                                *)

Crash ==
  /\ up
  /\ crashes < MaxCrashes
  /\ crashes' = crashes + 1
  /\ up' = FALSE
  /\ poller' = "none" /\ todo' = {} /\ open' = NoFile
  /\ claims' = {} /\ cursors' = NoCursors /\ dirty' = FALSE
  /\ disk' \in IF poller = "save" THEN {disk, TornDisk} ELSE {disk}
  /\ since' = SinceHeld(disk'.claims)
  /\ UNCHANGED <<env, handed, fails>>

\* loadLocked: a cursor that never learnt its file's agent reads the header now.
LoadedAtEnd(c, f) == [c EXCEPT !.off = SizeOf(f)]
Loaded(c, f) ==
  IF c.agent = NoAgent /\ HeaderAgent(f) # NoAgent
  THEN [c EXCEPT !.agent = HeaderAgent(f), !.start = c.off] ELSE c
LoadedCursors == [f \in Files |-> {Loaded(c, f) : c \in disk.cursors[f]}]

\* start: a state file that does not parse is an error, and nothing polls.
Start ==
  /\ ~ up
  /\ up' = TRUE
  /\ poller' = IF disk.state = "torn" THEN "none" ELSE "idle"
  /\ claims' = disk.claims
  /\ cursors' = LoadedCursors
  /\ dirty' = (LoadedCursors # disk.cursors)
  /\ UNCHANGED <<env, todo, open, disk, handed, since, crashes, fails>>

-----------------------------------------------------------------------------
(* The agent (external): it writes its session_meta line first, and flushes *)
(* a line in two parts                                                      *)

BeginLine(f) ==
  /\ ~ unfinished[f]
  /\ Len(log[f]) < MaxLines
  /\ \E k \in (IF log[f] = <<>> THEN {"meta"} ELSE Kinds), i \in CallIds :
       log' = [log EXCEPT ![f] = Append(@, [kind |-> k, call |-> i])]
  /\ unfinished' = [unfinished EXCEPT ![f] = TRUE]
  /\ UNCHANGED <<gen, replaces, run, mem, disk, handed, since, crashes, fails>>

EndLine(f) ==
  /\ unfinished[f]
  /\ unfinished' = [unfinished EXCEPT ![f] = FALSE]
  /\ UNCHANGED <<log, gen, replaces, run, mem, disk, handed, since, crashes, fails>>

\* The file is truncated, or replaced by a new one of the same name.
Replace(f) ==
  /\ replaces < MaxReplaces
  /\ log[f] # <<>>
  /\ replaces' = replaces + 1
  /\ gen' = [gen EXCEPT ![f] = @ + 1]
  /\ log' = [log EXCEPT ![f] = <<>>]
  /\ unfinished' = [unfinished EXCEPT ![f] = FALSE]
  /\ since' = [since EXCEPT ![f] = IF @ = Forever THEN @ ELSE 1]
  /\ UNCHANGED <<run, mem, disk, handed, crashes, fails>>

-----------------------------------------------------------------------------

Init ==
  /\ log = [f \in Files |-> <<>>]
  /\ unfinished = [f \in Files |-> FALSE]
  /\ gen = [f \in Files |-> 0]
  /\ up = FALSE /\ poller = "none" /\ todo = {} /\ open = NoFile
  /\ claims = {} /\ cursors = NoCursors /\ dirty = FALSE
  /\ disk = NoDisk
  /\ handed = [f \in Files |-> <<>>]
  /\ since = [f \in Files |-> Forever]
  /\ crashes = 0 /\ fails = 0 /\ replaces = 0

Operator == \E c \in Claims : Enable(c) \/ SeedFails(c) \/ Disable(c)
PollStep ==
  \/ BeginPoll \/ EndScan \/ SavePoll
  \/ \E f \in Files : OpenFile(f) \/ ConsumeLine(f) \/ CloseFile(f)
Agent == \E f \in Files : BeginLine(f) \/ EndLine(f) \/ Replace(f)

Next ==
  \/ Operator
  \/ PollStep
  \/ \E f \in Files : SkipFile(f)
  \/ Agent
  \/ Crash
  \/ Start

Spec == Init /\ [][Next]_vars

\* The ticker fires and a started poll runs on; the process is started again.
Fairness == WF_vars(PollStep) /\ WF_vars(Start)
FairSpec == Spec /\ Fairness
-----------------------------------------------------------------------------
(* Properties *)

TypeOK ==
  /\ log \in [Files -> Seq(Line)]
  /\ unfinished \in [Files -> BOOLEAN]
  /\ gen \in [Files -> Nat]
  /\ up \in BOOLEAN
  /\ poller \in {"none", "idle", "scan", "save"}
  /\ todo \subseteq Files
  /\ open \in Files \union {NoFile}
  /\ claims \subseteq Claims
  /\ cursors \in [Files -> SUBSET Cursor]
  /\ dirty \in BOOLEAN
  /\ disk \in [state : {"absent", "ok", "torn"}, claims : SUBSET Claims,
               cursors : [Files -> SUBSET Cursor]]
  /\ handed \in [Files -> Seq(HandedEntry)]
  /\ since \in [Files -> Nat]
  /\ crashes \in Nat /\ fails \in Nat /\ replaces \in Nat

Entries(f) == {handed[f][i] : i \in DOMAIN handed[f]}

\* No "end" line closes the turn between lines i and j.
SameTurn(f, i, j) == \A k \in i+1..j-1 : log[f][k].kind # "end"

\* Line i is the call that output line j completes.
Completes(f, i, j) ==
  /\ log[f][i].kind = "call" /\ log[f][i].call = log[f][j].call
  /\ SameTurn(f, i, j)
  /\ \A k \in i+1..j-1 : ~ (log[f][k].kind \in {"call", "output"}
                            /\ log[f][k].call = log[f][j].call)

\* What a reader that never stopped, from line first on, records of line j.
Recordable(f, first, j) ==
  \E i \in first .. j-1 :
    \/ /\ log[f][j].kind = "message" /\ log[f][i].kind = "turn"
       /\ SameTurn(f, i, j)
    \/ log[f][j].kind = "output" /\ Completes(f, i, j)

\* The first line begun after the claim and after cursor c knew whose it is.
FirstDue(f, c) == LET known == (c.start + 1) \div 2 + 1
                  IN IF known > since[f] THEN known ELSE since[f]

(* A record goes to a claim of the agent that wrote the file, on the         *)
(* directory the file is in, whatever was restored from the state file.     *)
OnlyTheFilesAgent ==
  \A f \in Files : \A e \in Entries(f) :
    ClaimAgent[e.claim] = FileAgent[f] /\ ClaimRoot[e.claim] = FileRoot[f]

(* The call a tool result is paired with is the one it answers: the pending  *)
(* calls saved with an offset are the ones open at that offset, so a replay  *)
(* after a crash, or a cleared turn, never pairs it with another call.       *)
ResultsAnswerTheirCall ==
  \A f \in Files : \A e \in Entries(f) :
    e.gen = gen[f] /\ log[f][e.line].kind = "output" => Completes(f, e.call, e.line)

(* Nothing is skipped: every line begun after its agent was claimed and now  *)
(* behind the cursor has been handed over, if an uninterrupted reader would  *)
(* record it - through crashes, failed saves and reloads, and whatever other *)
(* claims come and go on the directory.  The exceptions are a file regrown   *)
(* past the old offset between two polls, which nothing detects, and lines   *)
(* read by a cursor that did not know its file's agent.                      *)
NothingSkipped ==
  \A f \in Files : \A c \in cursors[f] :
    c.gen = gen[f] /\ c.agent # NoAgent =>
      \A j \in since[f] .. c.off \div 2 :
        Recordable(f, FirstDue(f, c), j) => \E e \in Entries(f) : e.gen = gen[f] /\ e.line = j

(* A line is handed over twice only because the process died before it      *)
(* saved the offset: never more than once per crash.                         *)
OncePerRun ==
  \A f \in Files : \A n \in 1..MaxLines :
    Cardinality({i \in DOMAIN handed[f] :
                   handed[f][i].gen = gen[f] /\ handed[f][i].line = n}) <= 1 + crashes

\* A whole line of a claimed agent waits to be read.
Behind(f) ==
  /\ since[f] # Forever
  /\ LET off == IF HasCursor(cursors, f) THEN CursorOf(cursors, f).off ELSE 0
     IN LineReady(f, off) /\ LineAt(off) >= since[f]

(* Activity of a claimed agent is read in the end, unless it is unclaimed    *)
(* first - or the monitor could not start on a torn state file, after which  *)
(* nothing polls until the next start.                                       *)
NeverStarted == up /\ poller = "none"
ActivityIsRead == \A f \in Files : Behind(f) ~> (~ Behind(f) \/ NeverStarted)

(* The monitor is a log tail over the files: its offsets are positions, the  *)
(* files below a claimed directory are followed, the state file is what      *)
(* survives.                                                                 *)
Positions(cs) == [f \in Files |-> IF HasCursor(cs, f) THEN CursorOf(cs, f).off ELSE 0]
FollowedBy(cl) == {f \in Files : \E c \in cl : ClaimRoot[c] = FileRoot[f]}

LT == INSTANCE LogTail WITH
  size <- [f \in Files |-> SizeOf(f)],
  pos <- Positions(cursors),
  followed <- FollowedBy(claims),
  saved <- [pos |-> Positions(disk.cursors), followed |-> FollowedBy(disk.claims)],
  running <- up

ImplementsTail == LT!Spec
=============================================================================
