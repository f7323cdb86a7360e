------------------------ MODULE RolloutMonitorProofs ------------------------
(***************************************************************************)
(* Proofs about the rollout monitor, for any files, claims and bounds: its *)
(* variables are well typed, no record goes to a claim of another agent or *)
(* directory, it implements LogTail, and no line is skipped, told twice in *)
(* one run or given another call's arguments, whatever crashes, failed     *)
(* saves and reloads happen.                                               *)
(***************************************************************************)
EXTENDS RolloutMonitor, FiniteSetTheorems, TLAPS

\* A cursor never holds an agent other than the one its file names.
AgentsKnown(cs) ==
  \A f \in Files : \A c \in cs[f] : c.agent \in {NoAgent, FileAgent[f]}

\* A file being consumed has a cursor, and only a running process polls.
OpenHasCursor ==
  /\ open # NoFile => HasCursor(cursors, open)
  /\ open # NoFile \/ poller # "none" => up

\* An unfinished line is a line.
UnfinishedIsLine == \A f \in Files : unfinished[f] => log[f] # <<>>

IInv ==
  /\ TypeOK
  /\ OpenHasCursor
  /\ UnfinishedIsLine
  /\ AgentsKnown(cursors)
  /\ AgentsKnown(disk.cursors)
  /\ OnlyTheFilesAgent

GoodCursor(f, c) == c \in Cursor /\ c.agent \in {NoAgent, FileAgent[f]}

-----------------------------------------------------------------------------
(* Lemmas about the operators *)

LEMMA HeaderType ==
  ASSUME NEW f \in Files
  PROVE  HeaderAgent(f) \in {NoAgent, FileAgent[f]}
BY DEF HeaderAgent

LEMMA SizeType ==
  ASSUME TypeOK, UnfinishedIsLine, NEW f \in Files
  PROVE  SizeOf(f) \in Nat
<1>1. log[f] \in Seq(Line) /\ unfinished[f] \in BOOLEAN
  BY DEF TypeOK
<1>2. Len(log[f]) \in Nat
  BY <1>1
<1>3. CASE unfinished[f]
  <2>1. Len(log[f]) # 0
    BY <1>1, <1>3 DEF UnfinishedIsLine
  <2> QED
    BY <1>2, <1>3, <2>1 DEF SizeOf
<1>4. CASE ~ unfinished[f]
  BY <1>2, <1>4 DEF SizeOf
<1> QED
  BY <1>1, <1>3, <1>4

LEMMA CursorOfGood ==
  ASSUME TypeOK, AgentsKnown(cursors), NEW f \in Files, HasCursor(cursors, f)
  PROVE  GoodCursor(f, CursorOf(cursors, f))
<1>1. CursorOf(cursors, f) \in cursors[f]
  BY DEF HasCursor, CursorOf
<1> QED
  BY <1>1 DEF TypeOK, AgentsKnown, GoodCursor

LEMMA NoPendingType == NoPending \in [CallIds -> Nat]
BY DEF NoPending

LEMMA FreshGood ==
  ASSUME TypeOK, NEW f \in Files
  PROVE  GoodCursor(f, FreshCursor(f))
<1>1. HeaderAgent(f) \in Agents \union {NoAgent}
  BY HeaderType, ConstantsAssumption
<1>2. gen[f] \in Nat
  BY DEF TypeOK
<1>3. FreshCursor(f) \in Cursor
  BY <1>1, <1>2, NoPendingType DEF FreshCursor, Cursor
<1> QED
  BY <1>3, HeaderType DEF FreshCursor, GoodCursor

LEMMA CurrentGood ==
  ASSUME TypeOK, AgentsKnown(cursors), NEW f \in Files
  PROVE  GoodCursor(f, CurrentCursor(f))
BY FreshGood, CursorOfGood DEF CurrentCursor

LEMMA ResetGood ==
  ASSUME NEW f \in Files, NEW c, GoodCursor(f, c)
  PROVE  GoodCursor(f, ResetTurn(c))
BY NoPendingType DEF ResetTurn, GoodCursor, Cursor

LEMMA HeaderGood ==
  ASSUME NEW f \in Files, NEW c, GoodCursor(f, c)
  PROVE  GoodCursor(f, ReadHeader(f, c))
<1>1. HeaderAgent(f) \in Agents \union {NoAgent}
  BY HeaderType, ConstantsAssumption
<1> QED
  BY <1>1, HeaderType DEF ReadHeader, GoodCursor, Cursor

LEMMA SeedGood ==
  ASSUME TypeOK, UnfinishedIsLine, NEW f \in Files, NEW c, GoodCursor(f, c)
  PROVE  GoodCursor(f, SeedCursor(f, c))
<1> DEFINE d == [ResetTurn(c) EXCEPT !.off = SizeOf(f), !.start = 0,
                                     !.gen = gen[f]]
<1>1. GoodCursor(f, ResetTurn(c))
  BY ResetGood
<1>2. SizeOf(f) \in Nat /\ gen[f] \in Nat
  BY SizeType DEF TypeOK
<1>3. GoodCursor(f, d)
  BY <1>1, <1>2 DEF GoodCursor, Cursor
<1> QED
  BY <1>3, HeaderGood DEF SeedCursor

LEMMA RewindGood ==
  ASSUME TypeOK, NEW f \in Files, NEW c, GoodCursor(f, c)
  PROVE  GoodCursor(f, RewindCursor(f, c))
<1> DEFINE d == [ResetTurn(c) EXCEPT !.off = 0, !.agent = NoAgent,
                                     !.start = 0, !.gen = gen[f]]
<1>1. GoodCursor(f, ResetTurn(c))
  BY ResetGood
<1>2. gen[f] \in Nat
  BY DEF TypeOK
<1>3. GoodCursor(f, d)
  BY <1>1, <1>2 DEF GoodCursor, Cursor
<1> QED
  BY <1>3, HeaderGood DEF RewindCursor

LEMMA ParseGood ==
  ASSUME NEW f \in Files, NEW c, GoodCursor(f, c), NEW line \in Line, NEW n \in Nat
  PROVE  GoodCursor(f, Parse(f, c, line, n))
<1>1. FileAgent[f] \in Agents \union {NoAgent}
  BY ConstantsAssumption
<1>2. line.call \in CallIds /\ line.kind \in {"meta"} \union Kinds
  BY DEF Line
<1>3. CASE line.kind = "meta"
  BY <1>1, <1>3 DEF Parse, GoodCursor, Cursor
<1>4. CASE line.kind = "turn"
  BY <1>4 DEF Parse, GoodCursor, Cursor
<1>5. CASE line.kind = "end"
  BY <1>5, ResetGood DEF Parse
<1>6. CASE line.kind = "call"
  BY <1>2, <1>6 DEF Parse, GoodCursor, Cursor
<1>7. CASE line.kind = "output"
  BY <1>2, <1>7 DEF Parse, GoodCursor, Cursor
<1>8. CASE line.kind \notin {"meta", "turn", "end", "call", "output"}
  BY <1>8 DEF Parse
<1> QED
  BY <1>3, <1>4, <1>5, <1>6, <1>7, <1>8

LEMMA LoadedGood ==
  ASSUME NEW f \in Files, NEW c, GoodCursor(f, c)
  PROVE  GoodCursor(f, Loaded(c, f))
<1>1. HeaderAgent(f) \in Agents \union {NoAgent}
  BY HeaderType, ConstantsAssumption
<1> QED
  BY <1>1, HeaderType DEF Loaded, GoodCursor, Cursor

\* What an action that leaves the cursors and the claims alone has to show.
GoodTable(cs) == cs \in [Files -> SUBSET Cursor] /\ AgentsKnown(cs)

LEMMA EmptyTableGood == GoodTable(NoCursors)
BY DEF GoodTable, NoCursors, AgentsKnown

LEMMA TableUpdate ==
  ASSUME NEW cs, GoodTable(cs), NEW f \in Files, NEW c, GoodCursor(f, c)
  PROVE  GoodTable([cs EXCEPT ![f] = {c}])
BY DEF GoodTable, GoodCursor, AgentsKnown

LEMMA SeededGood ==
  ASSUME TypeOK, UnfinishedIsLine, AgentsKnown(cursors), NEW fs
  PROVE  GoodTable(Seeded(fs))
<1>1. \A f \in Files : GoodCursor(f, SeedCursor(f, CurrentCursor(f)))
  BY CurrentGood, SeedGood
<1>2. \A f \in Files : cursors[f] \subseteq Cursor
  BY DEF TypeOK
<1> QED
  BY <1>1, <1>2 DEF Seeded, GoodTable, GoodCursor, AgentsKnown

LEMMA LoadedTableGood ==
  ASSUME GoodTable(disk.cursors)
  PROVE  GoodTable(LoadedCursors)
<1>1. \A f \in Files : \A c \in disk.cursors[f] : GoodCursor(f, c)
  BY DEF GoodTable, GoodCursor, AgentsKnown
<1>2. \A f \in Files : \A c \in disk.cursors[f] : GoodCursor(f, Loaded(c, f))
  BY <1>1, LoadedGood
<1> QED
  BY <1>2 DEF LoadedCursors, GoodTable, GoodCursor, AgentsKnown

Disks == [state : {"absent", "ok", "torn"}, claims : SUBSET Claims,
          cursors : [Files -> SUBSET Cursor]]

LEMMA SavedGood ==
  ASSUME NEW cl \in SUBSET Claims, NEW cs, GoodTable(cs)
  PROVE  Saved(cl, cs) \in Disks /\ AgentsKnown(Saved(cl, cs).cursors)
BY EmptyTableGood DEF Saved, NoDisk, Disks, GoodTable

LEMMA TornGood == TornDisk \in Disks /\ AgentsKnown(TornDisk.cursors)
BY EmptyTableGood DEF TornDisk, Disks, GoodTable

LEMMA SaveFailedGood ==
  ASSUME TypeOK, AgentsKnown(disk.cursors), SaveFailed
  PROVE  disk' \in Disks /\ AgentsKnown(disk'.cursors) /\ fails' \in Nat
BY TornGood DEF SaveFailed, TypeOK, Disks

-----------------------------------------------------------------------------
(* The invariant *)

LEMMA InitIInv == Init => IInv
<1> SUFFICES ASSUME Init PROVE IInv
  OBVIOUS
<1>1. NoDisk \in Disks /\ AgentsKnown(NoDisk.cursors)
  BY EmptyTableGood DEF NoDisk, Disks, GoodTable
<1>2. GoodTable(cursors)
  BY EmptyTableGood DEF Init
<1>3. MaxLines + 1 \in Nat
  BY ConstantsAssumption
<1>4. /\ log \in [Files -> Seq(Line)]
      /\ handed \in [Files -> Seq(HandedEntry)]
  BY DEF Init
<1>5. since \in [Files -> Nat] /\ gen \in [Files -> Nat]
      /\ unfinished \in [Files -> BOOLEAN]
  BY <1>3 DEF Init, Forever
<1>6. TypeOK
  BY <1>1, <1>2, <1>4, <1>5 DEF Init, TypeOK, GoodTable, Disks
<1> QED
  BY <1>1, <1>2, <1>6 DEF Init, IInv, OpenHasCursor, UnfinishedIsLine, GoodTable,
     OnlyTheFilesAgent, Entries

LEMMA EnableIInv ==
  ASSUME IInv, NEW k \in Claims, Enable(k)
  PROVE  IInv'
<1> USE DEF IInv
<1>1. GoodTable(cursors')
  BY SeededGood DEF Enable, GoodTable, TypeOK
<1>2. claims' \in SUBSET Claims
  BY DEF Enable, TypeOK
<1>3. disk' \in Disks /\ AgentsKnown(disk'.cursors) /\ fails' \in Nat
  <2>1. CASE disk' = Saved(claims', cursors') /\ UNCHANGED fails
    BY <1>1, <1>2, <2>1, SavedGood DEF TypeOK
  <2>2. CASE SaveFailed
    BY <2>2, SaveFailedGood
  <2> QED
    BY <2>1, <2>2 DEF Enable
<1>4. since' \in [Files -> Nat]
  <2>1. \A f \in Files : Len(log[f]) + 1 \in Nat
    BY DEF TypeOK
  <2>2. SinceEnable(k) \in [Files -> Nat]
    BY <2>1 DEF SinceEnable, TypeOK
  <2> QED
    BY <2>2 DEF Enable, TypeOK
<1>5. TypeOK'
  BY <1>1, <1>2, <1>3, <1>4 DEF Enable, TypeOK, env, run, GoodTable, Disks
<1>6. OpenHasCursor'
  <2>1. open' = open
    BY DEF Enable, run
  <2>2. SUFFICES ASSUME open \in Files, HasCursor(cursors, open)
                 PROVE  HasCursor(cursors', open)
    BY <2>1 DEF OpenHasCursor, TypeOK, Enable, run
  <2>3. HasCursor(Seeded(FilesIn(ClaimRoot[k])), open)
    BY <2>2 DEF Seeded, HasCursor
  <2> QED
    BY <2>2, <2>3 DEF Enable
<1>7. OnlyTheFilesAgent'
  BY DEF Enable, OnlyTheFilesAgent, Entries
<1> QED
  BY <1>1, <1>3, <1>5, <1>6, <1>7 DEF Enable, env, UnfinishedIsLine, GoodTable

LEMMA SeedFailsIInv ==
  ASSUME IInv, NEW k \in Claims, SeedFails(k)
  PROVE  IInv'
<1> USE DEF IInv
<1>1. PICK fs \in SUBSET FilesIn(ClaimRoot[k]) : cursors' = Seeded(fs)
  BY DEF SeedFails
<1>2. GoodTable(cursors')
  BY <1>1, SeededGood
<1>3. fails' \in Nat /\ dirty' \in BOOLEAN
  BY DEF SeedFails, TypeOK
<1>4. TypeOK'
  BY <1>2, <1>3 DEF SeedFails, TypeOK, env, run, GoodTable
<1>5. OpenHasCursor'
  <2>1. open' = open
    BY DEF SeedFails, run
  <2>2. SUFFICES ASSUME open \in Files, HasCursor(cursors, open)
                 PROVE  HasCursor(cursors', open)
    BY <2>1 DEF OpenHasCursor, TypeOK, SeedFails, run
  <2> QED
    BY <1>1, <2>2 DEF Seeded, HasCursor
<1> QED
  BY <1>2, <1>4, <1>5 DEF SeedFails, env, UnfinishedIsLine, GoodTable, AgentsKnown,
     OnlyTheFilesAgent, Entries

LEMMA DisableIInv ==
  ASSUME IInv, NEW k \in Claims, Disable(k)
  PROVE  IInv'
<1> USE DEF IInv
<1>1. GoodTable(cursors)
  BY DEF GoodTable, TypeOK
<1>2. claims' \in SUBSET Claims
  BY DEF Disable, TypeOK
<1>3. disk' \in Disks /\ AgentsKnown(disk'.cursors) /\ fails' \in Nat
  <2>1. CASE disk' = Saved(claims', cursors) /\ UNCHANGED fails
    BY <1>1, <1>2, <2>1, SavedGood DEF TypeOK
  <2>2. CASE SaveFailed
    BY <2>2, SaveFailedGood
  <2> QED
    BY <2>1, <2>2 DEF Disable
<1>4. since' \in [Files -> Nat]
  <2>1. MaxLines + 1 \in Nat
    BY ConstantsAssumption
  <2>2. SinceHeld(claims') \in [Files -> Nat]
    BY <2>1 DEF SinceHeld, Forever, TypeOK
  <2> QED
    BY <2>2 DEF Disable, TypeOK
<1>5. TypeOK'
  BY <1>2, <1>3, <1>4 DEF Disable, TypeOK, env, run, Disks
<1> QED
  BY <1>3, <1>5 DEF Disable, env, run, UnfinishedIsLine, OpenHasCursor, AgentsKnown,
     OnlyTheFilesAgent, Entries

LEMMA OpenFileIInv ==
  ASSUME IInv, NEW f \in Files, OpenFile(f)
  PROVE  IInv'
<1> USE DEF IInv
<1> DEFINE c == RewindCursor(f, CurrentCursor(f))
<1>1. GoodCursor(f, c)
  BY CurrentGood, RewindGood
<1>2. GoodTable(cursors')
  BY <1>1, TableUpdate DEF OpenFile, GoodTable, TypeOK
<1>3. dirty' \in BOOLEAN
  BY DEF OpenFile, TypeOK
<1>4. TypeOK'
  BY <1>2, <1>3 DEF OpenFile, TypeOK, env, GoodTable
<1>5. OpenHasCursor'
  BY ConstantsAssumption DEF OpenFile, OpenHasCursor, HasCursor, TypeOK
<1> QED
  BY <1>2, <1>4, <1>5 DEF OpenFile, env, UnfinishedIsLine, GoodTable, OnlyTheFilesAgent,
     Entries, AgentsKnown

LEMMA ConsumeLineIInv ==
  ASSUME IInv, NEW f \in Files, ConsumeLine(f)
  PROVE  IInv'
<1> USE DEF IInv
<1> DEFINE c == CursorOf(cursors, f)
           n == LineAt(c.off)
           line == log[f][n]
           moved == [c EXCEPT !.off = 2 * n]
           next == IF c.off % 2 = 0 THEN Parse(f, moved, line, n) ELSE moved
<1>1. GoodCursor(f, c)
  BY CursorOfGood, ConstantsAssumption DEF ConsumeLine, OpenHasCursor
<1>2. c.off \in Nat /\ n \in Nat \ {0} /\ 2 * n \in Nat
  BY <1>1 DEF GoodCursor, Cursor, LineAt
<1>3. line \in Line
  <2>1. n <= Len(log[f])
    BY DEF ConsumeLine, LineReady
  <2> QED
    BY <1>2, <2>1 DEF TypeOK
<1>4. GoodCursor(f, moved)
  <2> HIDE DEF n
  <2> QED
    BY <1>1, <1>2 DEF GoodCursor, Cursor
<1>5. GoodCursor(f, next)
  <2>1. GoodCursor(f, Parse(f, moved, line, n))
    <3> HIDE DEF n, line, moved
    <3> QED
      BY <1>2, <1>3, <1>4, ParseGood
  <2> QED
    BY <1>4, <2>1
<1>6. cursors' = [cursors EXCEPT ![f] = {next}]
  BY DEF ConsumeLine
<1>7. GoodTable(cursors')
  <2> HIDE DEF next
  <2> QED
    BY <1>5, <1>6, TableUpdate DEF GoodTable, TypeOK
<1>8. \/ handed' = handed
      \/ \E k \in MatchingClaims(f, c) :
           handed' = [handed EXCEPT ![f] =
                        Append(@, [gen |-> c.gen, line |-> n, claim |-> k,
                                   call |-> CallOf(c, line)])]
  BY DEF ConsumeLine
<1>9. \A k \in MatchingClaims(f, c) :
        k \in Claims /\ ClaimAgent[k] = FileAgent[f] /\ ClaimRoot[k] = FileRoot[f]
  BY <1>1, ConstantsAssumption DEF MatchingClaims, GoodCursor, TypeOK
<1>10. c.gen \in Nat /\ CallOf(c, line) \in Nat
  <2> HIDE DEF line
  <2> QED
    BY <1>1, <1>3 DEF GoodCursor, Cursor, CallOf, Line
<1>11. handed' \in [Files -> Seq(HandedEntry)]
       /\ OnlyTheFilesAgent'
  <2>1. CASE handed' = handed
    <3>1. OnlyTheFilesAgent'
      BY <2>1 DEF OnlyTheFilesAgent, Entries
    <3> QED
      BY <2>1, <3>1 DEF TypeOK
  <2>2. ASSUME NEW k \in MatchingClaims(f, c), NEW e,
               e = [gen |-> c.gen, line |-> n, claim |-> k, call |-> CallOf(c, line)],
               handed' = [handed EXCEPT ![f] = Append(@, e)]
        PROVE  handed' \in [Files -> Seq(HandedEntry)]
               /\ OnlyTheFilesAgent'
    <3>1. e \in HandedEntry
      <4> HIDE DEF c, n, line
      <4> QED
        BY <1>2, <1>9, <1>10, <2>2 DEF HandedEntry
    <3>2. e.claim = k
      BY <2>2
    <3>3. handed[f] \in Seq(HandedEntry)
      BY DEF TypeOK
    <3>4. handed'[f] = Append(handed[f], e)
      BY <2>2 DEF TypeOK
    <3>5. \A g \in Files : g # f => handed'[g] = handed[g]
      BY <2>2 DEF TypeOK
    <3>6. \A i \in DOMAIN handed'[f] :
             \/ i \in DOMAIN handed[f] /\ handed'[f][i] = handed[f][i]
             \/ handed'[f][i] = e
      BY <3>3, <3>4, <3>1
    <3>7. OnlyTheFilesAgent'
      <4> SUFFICES ASSUME NEW g \in Files, NEW i \in DOMAIN handed'[g]
                   PROVE  /\ ClaimAgent[handed'[g][i].claim] = FileAgent[g]
                          /\ ClaimRoot[handed'[g][i].claim] = FileRoot[g]
        BY DEF OnlyTheFilesAgent, Entries
      <4>1. CASE g = f /\ handed'[f][i] = e
        BY <4>1, <3>2, <1>9
      <4>2. CASE i \in DOMAIN handed[g] /\ handed'[g][i] = handed[g][i]
        BY <4>2 DEF OnlyTheFilesAgent, Entries
      <4> QED
        BY <4>1, <4>2, <3>5, <3>6
    <3>8. handed' \in [Files -> Seq(HandedEntry)]
      <4>1. Append(handed[f], e) \in Seq(HandedEntry)
        BY <3>1, <3>3
      <4>2. handed \in [Files -> Seq(HandedEntry)]
        BY DEF TypeOK
      <4> QED
        BY <2>2, <4>1, <4>2
    <3> QED
      BY <3>7, <3>8
  <2> QED
    BY <1>8, <2>1, <2>2
<1>12. TypeOK'
  BY <1>7, <1>11 DEF ConsumeLine, TypeOK, env, run, GoodTable
<1>13. OpenHasCursor'
  <2> HIDE DEF next
  <2> QED
    BY <1>6 DEF ConsumeLine, run, OpenHasCursor, HasCursor, TypeOK
<1> QED
  BY <1>7, <1>11, <1>12, <1>13 DEF ConsumeLine, env, UnfinishedIsLine, GoodTable, AgentsKnown

\* The other steps of a poll move no cursor.
LEMMA PollIInv ==
  ASSUME IInv,
         \/ BeginPoll \/ EndScan \/ SavePoll
         \/ \E f \in Files : CloseFile(f) \/ SkipFile(f)
  PROVE  IInv'
<1> USE DEF IInv
<1>1. cursors' = cursors /\ claims' = claims /\ handed' = handed
      /\ log' = log /\ unfinished' = unfinished
  BY DEF BeginPoll, EndScan, SavePoll, CloseFile, SkipFile, env, mem
<1>2. GoodTable(cursors)
  BY DEF GoodTable, TypeOK
<1>3. disk' \in Disks /\ AgentsKnown(disk'.cursors) /\ fails' \in Nat
  <2>1. CASE disk' = disk /\ fails' \in Nat
    BY <2>1 DEF TypeOK, Disks
  <2>2. CASE disk' = Saved(claims, cursors) /\ UNCHANGED fails
    BY <1>2, <2>2, SavedGood DEF TypeOK
  <2>3. CASE SaveFailed
    BY <2>3, SaveFailedGood
  <2> QED
    BY <2>1, <2>2, <2>3 DEF BeginPoll, EndScan, SavePoll, CloseFile, SkipFile, mem, TypeOK
<1>4. open' \in {open, NoFile}
  BY DEF BeginPoll, EndScan, SavePoll, CloseFile, SkipFile
<1>5. todo' \subseteq Files
  BY DEF BeginPoll, EndScan, SavePoll, CloseFile, SkipFile, TypeOK, FilesIn
<1>6. TypeOK'
  <2>1. dirty' \in BOOLEAN /\ poller' \in {"none", "idle", "scan", "save"}
    BY DEF BeginPoll, EndScan, SavePoll, CloseFile, SkipFile, TypeOK, mem
  <2>2. UNCHANGED <<gen, up, since, crashes, replaces>>
    BY DEF BeginPoll, EndScan, SavePoll, CloseFile, SkipFile, env
  <2> QED
    BY <1>1, <1>3, <1>4, <1>5, <2>1, <2>2 DEF TypeOK, Disks
<1> QED
  <2>1. OpenHasCursor'
    BY <1>1, <1>4 DEF OpenHasCursor, HasCursor, BeginPoll, EndScan, SavePoll, CloseFile,
       SkipFile
  <2> QED
    BY <1>1, <1>3, <1>6, <2>1 DEF UnfinishedIsLine, AgentsKnown, OnlyTheFilesAgent, Entries

LEMMA ProcessIInv ==
  ASSUME IInv, Crash \/ Start
  PROVE  IInv'
<1> USE DEF IInv
<1>1. GoodTable(disk.cursors)
  BY DEF GoodTable, TypeOK
<1>2. GoodTable(cursors')
  BY <1>1, EmptyTableGood, LoadedTableGood DEF Crash, Start
<1>3. disk' \in Disks /\ AgentsKnown(disk'.cursors)
  BY TornGood DEF Crash, Start, TypeOK, Disks
<1>4. claims' \in SUBSET Claims
  BY DEF Crash, Start, TypeOK
<1>5. since' \in [Files -> Nat]
  <2>1. MaxLines + 1 \in Nat
    BY ConstantsAssumption
  <2>2. SinceHeld(disk'.claims) \in [Files -> Nat]
    BY <2>1 DEF SinceHeld, Forever, TypeOK
  <2> QED
    BY <2>2 DEF Crash, Start, TypeOK
<1>6. TypeOK'
  <2>1. CASE Crash
    <3>1. crashes' \in Nat
      BY <2>1 DEF Crash, TypeOK
    <3> QED
      BY <1>2, <1>3, <1>4, <1>5, <2>1, <3>1 DEF Crash, TypeOK, env, GoodTable, Disks
  <2>2. CASE Start
    BY <1>2, <1>3, <1>4, <1>5, <2>2 DEF Start, TypeOK, env, GoodTable, Disks
  <2> QED
    BY <2>1, <2>2
<1>7. OpenHasCursor'
  <2>1. CASE Crash
    BY <2>1 DEF Crash, OpenHasCursor
  <2>2. CASE Start
    BY <2>2 DEF Start, OpenHasCursor
  <2> QED
    BY <2>1, <2>2
<1> QED
  BY <1>2, <1>3, <1>6, <1>7 DEF Crash, Start, env, UnfinishedIsLine, GoodTable,
     OnlyTheFilesAgent, Entries

LEMMA AgentIInv ==
  ASSUME IInv, NEW f \in Files, BeginLine(f) \/ EndLine(f) \/ Replace(f)
  PROVE  IInv'
<1> USE DEF IInv
<1>1. /\ UNCHANGED <<up, poller, todo, open, claims, cursors, dirty, disk, handed>>
      /\ UNCHANGED <<crashes, fails>>
  BY DEF BeginLine, EndLine, Replace, run, mem
<1>2. log' \in [Files -> Seq(Line)]
  <2>1. CASE BeginLine(f)
    <3>1. PICK k \in (IF log[f] = <<>> THEN {"meta"} ELSE Kinds), i \in CallIds :
            log' = [log EXCEPT ![f] = Append(@, [kind |-> k, call |-> i])]
      BY <2>1 DEF BeginLine
    <3>2. [kind |-> k, call |-> i] \in Line
      BY <3>1 DEF Line
    <3>3. Append(log[f], [kind |-> k, call |-> i]) \in Seq(Line)
      BY <3>2 DEF TypeOK
    <3> QED
      BY <3>1, <3>3 DEF TypeOK
  <2>2. CASE EndLine(f)
    BY <2>2 DEF EndLine, TypeOK
  <2>3. CASE Replace(f)
    <3>1. <<>> \in Seq(Line)
      OBVIOUS
    <3> QED
      BY <2>3, <3>1 DEF Replace, TypeOK
  <2> QED
    BY <2>1, <2>2, <2>3
<1>3. UnfinishedIsLine'
  <2>1. CASE BeginLine(f)
    <3>1. log'[f] # <<>>
      BY <2>1 DEF BeginLine, TypeOK
    <3> QED
      BY <2>1, <3>1 DEF BeginLine, TypeOK, UnfinishedIsLine
  <2>2. CASE EndLine(f)
    BY <2>2 DEF EndLine, TypeOK, UnfinishedIsLine
  <2>3. CASE Replace(f)
    BY <2>3 DEF Replace, TypeOK, UnfinishedIsLine
  <2> QED
    BY <2>1, <2>2, <2>3
<1>4. /\ unfinished' \in [Files -> BOOLEAN] /\ gen' \in [Files -> Nat]
      /\ since' \in [Files -> Nat] /\ replaces' \in Nat
  <2>1. CASE BeginLine(f) \/ EndLine(f)
    BY <2>1 DEF BeginLine, EndLine, TypeOK
  <2>2. CASE Replace(f)
    BY <2>2 DEF Replace, TypeOK
  <2> QED
    BY <2>1, <2>2
<1>5. TypeOK'
  BY <1>1, <1>2, <1>4 DEF TypeOK
<1>6. UNCHANGED <<OpenHasCursor, AgentsKnown(cursors), AgentsKnown(disk.cursors)>>
  BY <1>1 DEF OpenHasCursor, HasCursor, AgentsKnown
<1> QED
  BY <1>1, <1>3, <1>5, <1>6 DEF OnlyTheFilesAgent, Entries

LEMMA NextIInv == IInv /\ [Next]_vars => IInv'
<1> SUFFICES ASSUME IInv, [Next]_vars PROVE IInv'
  OBVIOUS
<1>1. CASE Operator
  BY <1>1, EnableIInv, SeedFailsIInv, DisableIInv DEF Operator
<1>2. CASE PollStep
  BY <1>2, PollIInv, OpenFileIInv, ConsumeLineIInv DEF PollStep
<1>3. CASE \E f \in Files : SkipFile(f)
  BY <1>3, PollIInv
<1>4. CASE Agent
  BY <1>4, AgentIInv DEF Agent
<1>5. CASE Crash \/ Start
  BY <1>5, ProcessIInv
<1>6. CASE UNCHANGED vars
  BY <1>6 DEF vars, IInv, TypeOK, OpenHasCursor, HasCursor, UnfinishedIsLine, AgentsKnown,
     OnlyTheFilesAgent, Entries
<1> QED
  BY <1>1, <1>2, <1>3, <1>4, <1>5, <1>6 DEF Next

THEOREM InvariantHolds == Spec => []IInv
BY InitIInv, NextIInv, PTL DEF Spec

(* The variables keep their types. *)
THEOREM TypeCorrect == Spec => []TypeOK
<1>1. IInv => TypeOK
  BY DEF IInv
<1> QED
  BY <1>1, InvariantHolds, PTL

(* Records go only to claims of the agent and the directory of the file,    *)
(* although cursors are restored from the state file, rewound on truncation *)
(* and re-read their agent from the header.                                 *)
THEOREM RecordsGoToTheFilesAgent == Spec => []OnlyTheFilesAgent
<1>1. IInv => OnlyTheFilesAgent
  BY DEF IInv
<1> QED
  BY <1>1, InvariantHolds, PTL

-----------------------------------------------------------------------------
(* The refinement of LogTail.  Beyond the invariant it needs that a position *)
(* is one number, and that a poll visits followed files only.                *)

OneCursor(cs) == \A f \in Files : \A c, d \in cs[f] : c = d

PollFollows ==
  /\ todo \subseteq FollowedBy(claims)
  /\ open # NoFile => open \in todo
  /\ poller # "scan" => todo = {}

TailInv == IInv /\ OneCursor(cursors) /\ OneCursor(disk.cursors) /\ PollFollows

LEMMA CursorOfSingle ==
  ASSUME NEW cs, NEW f, NEW c, cs[f] = {c}
  PROVE  HasCursor(cs, f) /\ CursorOf(cs, f) = c
BY DEF HasCursor, CursorOf

LEMMA SeededOne ==
  ASSUME OneCursor(cursors), NEW fs
  PROVE  OneCursor(Seeded(fs))
BY DEF OneCursor, Seeded

LEMMA SavedOne ==
  ASSUME NEW cl, NEW cs, OneCursor(cs)
  PROVE  OneCursor(Saved(cl, cs).cursors)
BY DEF OneCursor, Saved, NoDisk, NoCursors

LEMMA SaveFailedOne ==
  ASSUME OneCursor(disk.cursors), SaveFailed
  PROVE  OneCursor(disk'.cursors)
BY DEF OneCursor, SaveFailed, TornDisk, NoCursors

LEMMA InitTailInv == Init => TailInv
BY InitIInv DEF Init, TailInv, OneCursor, PollFollows, NoDisk, NoCursors

LEMMA NextTailInv == TailInv /\ [Next]_vars => TailInv'
<1> SUFFICES ASSUME TailInv, [Next]_vars PROVE TailInv'
  OBVIOUS
<1> USE DEF TailInv
<1>0. IInv'
  BY NextIInv
<1>1. ASSUME NEW k \in Claims, Enable(k) \/ SeedFails(k) \/ Disable(k) PROVE TailInv'
  <2>1. OneCursor(cursors')
    BY <1>1, SeededOne DEF Enable, SeedFails, Disable
  <2>2. OneCursor(disk'.cursors)
    BY <1>1, <2>1, SavedOne, SaveFailedOne DEF Enable, SeedFails, Disable
  <2>3. PollFollows'
    BY <1>1 DEF PollFollows, MutexFree, Enable, SeedFails, Disable, run, IInv, TypeOK
  <2> QED
    BY <1>0, <2>1, <2>2, <2>3
<1>2. ASSUME NEW f \in Files, OpenFile(f) PROVE TailInv'
  <2>1. OneCursor(cursors')
    BY <1>2 DEF OneCursor, OpenFile, IInv, TypeOK
  <2>2. PollFollows'
    BY <1>2 DEF PollFollows, OpenFile, FollowedBy
  <2> QED
    BY <1>0, <1>2, <2>1, <2>2 DEF OpenFile
<1>3. ASSUME NEW f \in Files, ConsumeLine(f) PROVE TailInv'
  <2>1. OneCursor(cursors')
    <3>1. PICK c : cursors' = [cursors EXCEPT ![f] = {c}]
      BY <1>3 DEF ConsumeLine
    <3> QED
      BY <3>1 DEF OneCursor, IInv, TypeOK
  <2>2. PollFollows'
    BY <1>3 DEF PollFollows, ConsumeLine, FollowedBy, run
  <2> QED
    BY <1>0, <1>3, <2>1, <2>2 DEF ConsumeLine
<1>4. ASSUME BeginPoll \/ EndScan \/ SavePoll \/ \E f \in Files : CloseFile(f) \/ SkipFile(f)
      PROVE  TailInv'
  <2>1. OneCursor(cursors') /\ claims' = claims
    BY <1>4 DEF BeginPoll, EndScan, SavePoll, CloseFile, SkipFile, mem
  <2>2. OneCursor(disk'.cursors)
    BY <1>4, SavedOne, SaveFailedOne DEF BeginPoll, EndScan, SavePoll, CloseFile, SkipFile
  <2>3. PollFollows'
    <3>1. CASE BeginPoll
      <4>1. todo' \subseteq FollowedBy(claims)
        BY <3>1 DEF BeginPoll, FilesIn, FollowedBy
      <4> QED
        BY <2>1, <3>1, <4>1 DEF BeginPoll, PollFollows, FollowedBy
    <3>2. CASE EndScan \/ SavePoll
      BY <2>1, <3>2 DEF EndScan, SavePoll, PollFollows, FollowedBy
    <3>3. CASE \E f \in Files : CloseFile(f) \/ SkipFile(f)
      BY <2>1, <3>3 DEF CloseFile, SkipFile, PollFollows, FollowedBy
    <3> QED
      BY <1>4, <3>1, <3>2, <3>3
  <2> QED
    BY <1>0, <2>1, <2>2, <2>3
<1>5. ASSUME Crash \/ Start PROVE TailInv'
  <2>1. OneCursor(disk'.cursors) /\ OneCursor(cursors')
    BY <1>5 DEF Crash, Start, OneCursor, TornDisk, NoCursors, LoadedCursors
  <2>2. PollFollows'
    BY <1>5 DEF Crash, Start, PollFollows, IInv, OpenHasCursor
  <2> QED
    BY <1>0, <2>1, <2>2
<1>6. CASE UNCHANGED vars \/ Agent
  <2>1. UNCHANGED <<cursors, disk, todo, open, poller, claims>>
    BY <1>6 DEF vars, Agent, BeginLine, EndLine, Replace, run, mem
  <2> QED
    BY <1>0, <2>1 DEF OneCursor, PollFollows, FollowedBy
<1> QED
  BY <1>1, <1>2, <1>3, <1>4, <1>5, <1>6 DEF Next, Operator, PollStep

LEMMA InitTail == Init => LT!Init
<1> SUFFICES ASSUME Init PROVE LT!Init
  OBVIOUS
<1>1. \A f \in Files : SizeOf(f) = 0
  BY DEF Init, SizeOf
<1>2. Positions(NoCursors) = LT!Nowhere
  BY DEF Positions, NoCursors, HasCursor, LT!Nowhere
<1>3. FollowedBy({}) = {}
  BY DEF FollowedBy
<1> QED
  BY <1>1, <1>2, <1>3 DEF Init, NoDisk, LT!Init, LT!Nowhere, LT!NothingSaved

\* What is saved, and what a destroyed state file counts as.
LEMMA EmptyTail == Positions(NoCursors) = LT!Nowhere /\ FollowedBy({}) = {}
BY DEF Positions, NoCursors, HasCursor, LT!Nowhere, FollowedBy

TailOf(d) == [pos |-> Positions(d.cursors), followed |-> FollowedBy(d.claims)]

LEMMA SavedTail ==
  ASSUME NEW cl, NEW cs
  PROVE  TailOf(Saved(cl, cs)) = [pos |-> Positions(cs), followed |-> FollowedBy(cl)]
BY EmptyTail DEF Saved, NoDisk, TailOf

LEMMA TornTail == TailOf(TornDisk) = LT!NothingSaved
BY EmptyTail DEF TornDisk, TailOf, LT!NothingSaved

LEMMA FailedTail ==
  ASSUME SaveFailed
  PROVE  TailOf(disk') \in {TailOf(disk), LT!NothingSaved}
BY TornTail DEF SaveFailed

\* Every step of the monitor is one of the tail's, or none.
LEMMA SizesKept ==
  ASSUME UNCHANGED <<log, unfinished>>
  PROVE  [f \in Files |-> SizeOf(f)]' = [f \in Files |-> SizeOf(f)]
BY DEF SizeOf

\* A step that gives file f the cursor d moves that file's position only.
LEMMA OneMoved ==
  ASSUME cursors \in [Files -> SUBSET Cursor], NEW f \in Files, NEW d,
         cursors' = [cursors EXCEPT ![f] = {d}]
  PROVE  Positions(cursors') = [Positions(cursors) EXCEPT ![f] = d.off]
<1>1. cursors'[f] = {d} /\ \A g \in Files : g # f => cursors'[g] = cursors[g]
  OBVIOUS
<1>2. HasCursor(cursors', f) /\ CursorOf(cursors', f) = d
  BY <1>1, CursorOfSingle
<1>3. Positions(cursors')[f] = d.off
  BY <1>2 DEF Positions
<1>4. ASSUME NEW g \in Files, g # f PROVE Positions(cursors')[g] = Positions(cursors)[g]
  <2>1. cursors'[g] = cursors[g]
    BY <1>1, <1>4
  <2>2. HasCursor(cursors', g) = HasCursor(cursors, g) /\ CursorOf(cursors', g) = CursorOf(cursors, g)
    BY <2>1 DEF HasCursor, CursorOf
  <2> QED
    BY <2>2 DEF Positions
<1>5. /\ Positions(cursors') = [g \in Files |-> Positions(cursors')[g]]
      /\ Positions(cursors) = [g \in Files |-> Positions(cursors)[g]]
  BY DEF Positions
<1> HIDE DEF Positions
<1> QED
  BY <1>3, <1>4, <1>5

Sizes == [f \in Files |-> SizeOf(f)]

LEMMA SeededPositions ==
  ASSUME NEW fs \in SUBSET Files
  PROVE  Positions(Seeded(fs))
           = [f \in Files |-> IF f \in fs THEN Sizes[f] ELSE Positions(cursors)[f]]
<1>1. \A f \in Files : Seeded(fs)[f] = IF f \in fs THEN {SeedCursor(f, CurrentCursor(f))}
                                                    ELSE cursors[f]
  BY DEF Seeded
<1>2. \A f \in Files : SeedCursor(f, CurrentCursor(f)).off = SizeOf(f)
  <2> SUFFICES ASSUME NEW f \in Files, NEW c
               PROVE  SeedCursor(f, c).off = SizeOf(f)
    OBVIOUS
  <2> DEFINE d == [ResetTurn(c) EXCEPT !.off = SizeOf(f), !.start = 0, !.gen = gen[f]]
  <2>1. d.off = SizeOf(f)
    BY DEF ResetTurn
  <2> QED
    BY <2>1 DEF SeedCursor, ReadHeader
<1>3. ASSUME NEW f \in Files
      PROVE  Positions(Seeded(fs))[f] = IF f \in fs THEN SizeOf(f) ELSE Positions(cursors)[f]
  <2>1. CASE f \in fs
    <3> DEFINE c == SeedCursor(f, CurrentCursor(f))
    <3>1. Seeded(fs)[f] = {c} /\ c.off = SizeOf(f)
      BY <1>1, <1>2, <2>1
    <3> HIDE DEF c
    <3>2. HasCursor(Seeded(fs), f) /\ CursorOf(Seeded(fs), f) = c
      BY <3>1, CursorOfSingle
    <3> QED
      BY <2>1, <3>1, <3>2 DEF Positions
  <2>2. CASE f \notin fs
    <3>1. Seeded(fs)[f] = cursors[f]
      BY <1>1, <2>2
    <3>2. /\ HasCursor(Seeded(fs), f) = HasCursor(cursors, f)
          /\ CursorOf(Seeded(fs), f) = CursorOf(cursors, f)
      BY <3>1 DEF HasCursor, CursorOf
    <3> QED
      BY <2>2, <3>2 DEF Positions
  <2> QED
    BY <2>1, <2>2
<1> QED
  BY <1>3 DEF Positions, Sizes

LEMMA OperatorTail ==
  ASSUME TailInv, NEW k \in Claims, Enable(k) \/ SeedFails(k) \/ Disable(k)
  PROVE  LT!Follow \/ LT!Unfollow
<1>1. UNCHANGED <<Sizes, up>> /\ up
  BY SizesKept DEF Sizes, Enable, SeedFails, Disable, env, run, MutexFree
<1>2. claims \subseteq claims' => FollowedBy(claims) \subseteq FollowedBy(claims')
  BY DEF FollowedBy
<1>3. claims' \subseteq claims => FollowedBy(claims') \subseteq FollowedBy(claims)
  BY DEF FollowedBy
<1>4. FollowedBy(claims') \subseteq Files /\ (claims' = claims => FollowedBy(claims') = FollowedBy(claims))
  BY DEF FollowedBy
<1>5. CASE Enable(k) \/ SeedFails(k)
  <2> DEFINE Skip(fs) == [f \in Files |-> IF f \in fs THEN Sizes[f] ELSE Positions(cursors)[f]]
  <2>1. \E fs \in SUBSET (Files \ FollowedBy(claims)) : Positions(cursors') = Skip(fs)
    <3>1. CASE cursors' = cursors
      <4>1. Positions(cursors) = Skip({})
        BY DEF Positions
      <4>2. {} \in SUBSET (Files \ FollowedBy(claims))
        OBVIOUS
      <4> HIDE DEF Skip
      <4> QED
        BY <3>1, <4>1, <4>2
    <3>2. ASSUME NEW fs \in SUBSET FilesIn(ClaimRoot[k]), ~ RootClaimed(ClaimRoot[k]),
                 cursors' = Seeded(fs)
          PROVE  \E fx \in SUBSET (Files \ FollowedBy(claims)) : Positions(cursors') = Skip(fx)
      <4>1. fs \in SUBSET (Files \ FollowedBy(claims))
        BY <3>2 DEF FilesIn, FollowedBy, RootClaimed
      <4>2. Positions(Seeded(fs)) = Skip(fs)
        BY <4>1, SeededPositions
      <4> QED
        BY <3>2, <4>1, <4>2
    <3>3. FilesIn(ClaimRoot[k]) \in SUBSET FilesIn(ClaimRoot[k])
      OBVIOUS
    <3> HIDE DEF Skip
    <3> QED
      BY <1>5, <3>1, <3>2, <3>3 DEF Enable, SeedFails
  <2>2. \/ /\ claims \subseteq claims'
           /\ TailOf(disk') = [pos |-> Positions(cursors'), followed |-> FollowedBy(claims')]
        \/ claims' = claims /\ TailOf(disk') \in {TailOf(disk), LT!NothingSaved}
    BY <1>5, SavedTail, FailedTail DEF Enable, SeedFails
  <2> QED
    BY <1>1, <1>2, <1>4, <2>1, <2>2 DEF LT!Follow, Sizes, TailOf
<1>6. CASE Disable(k)
  <2>1. \/ /\ claims' \subseteq claims
           /\ TailOf(disk') = [pos |-> Positions(cursors), followed |-> FollowedBy(claims')]
        \/ claims' = claims /\ TailOf(disk') \in {TailOf(disk), LT!NothingSaved}
    BY <1>6, SavedTail, FailedTail DEF Disable
  <2>2. cursors' = cursors
    BY <1>6 DEF Disable
  <2> QED
    BY <1>1, <1>3, <1>4, <2>1, <2>2 DEF LT!Unfollow, Sizes, TailOf, Positions
<1> QED
  BY <1>5, <1>6

LEMMA OpenFileTail ==
  ASSUME TailInv, NEW f \in Files, OpenFile(f)
  PROVE  LT!Rewind(f) \/ UNCHANGED LT!tail
<1> DEFINE c == CurrentCursor(f)
           d == RewindCursor(f, c)
<1>1. /\ UNCHANGED <<Sizes, up, claims, disk>> /\ up
      /\ cursors' = [cursors EXCEPT ![f] = {d}]
  BY SizesKept DEF Sizes, OpenFile, env, TailInv, IInv, OpenHasCursor
<1>2. f \in FollowedBy(claims)
  BY DEF OpenFile, TailInv, PollFollows
<1>3. Positions(cursors)[f] = c.off
  BY DEF Positions, CurrentCursor, FreshCursor
<1>4. Positions(cursors') = [Positions(cursors) EXCEPT ![f] = d.off]
  <2> HIDE DEF d
  <2> QED
    BY <1>1, OneMoved DEF TailInv, IInv, TypeOK
<1>5. d.off = IF SizeOf(f) < c.off THEN 0 ELSE c.off
  <2> DEFINE e == [ResetTurn(c) EXCEPT !.off = 0, !.agent = NoAgent, !.start = 0, !.gen = gen[f]]
  <2>1. c \in Cursor
    BY CurrentGood DEF TailInv, IInv, GoodCursor
  <2>2. e.off = 0
    BY <2>1 DEF ResetTurn, Cursor
  <2> QED
    BY <2>1, <2>2 DEF RewindCursor, ReadHeader, Cursor
<1>6. CASE SizeOf(f) < c.off
  <2>1. Sizes[f] = SizeOf(f)
    BY DEF Sizes
  <2> QED
    BY <1>1, <1>2, <1>3, <1>4, <1>5, <1>6, <2>1 DEF LT!Rewind, Sizes
<1>7. CASE ~ (SizeOf(f) < c.off)
  <2>1. Positions(cursors') = Positions(cursors)
    BY <1>3, <1>4, <1>5, <1>7 DEF Positions
  <2> QED
    BY <1>1, <2>1 DEF LT!tail, Sizes
<1> QED
  BY <1>6, <1>7

LEMMA ConsumeLineTail ==
  ASSUME TailInv, NEW f \in Files, ConsumeLine(f)
  PROVE  LT!Read(f)
<1> DEFINE c == CursorOf(cursors, f)
           n == LineAt(c.off)
           moved == [c EXCEPT !.off = 2 * n]
           d == IF c.off % 2 = 0 THEN Parse(f, moved, log[f][n], n) ELSE moved
<1>1. /\ UNCHANGED <<Sizes, up, claims, disk>> /\ up
      /\ cursors' = [cursors EXCEPT ![f] = {d}]
  BY SizesKept DEF Sizes, ConsumeLine, env, run, TailInv, IInv, OpenHasCursor
<1>2. f \in FollowedBy(claims)
  BY ConstantsAssumption DEF ConsumeLine, TailInv, PollFollows
<1>3. HasCursor(cursors, f) /\ GoodCursor(f, c)
  BY CursorOfGood, ConstantsAssumption DEF ConsumeLine, TailInv, IInv, OpenHasCursor
<1>4. Positions(cursors)[f] = c.off
  BY <1>3 DEF Positions
<1>5. c.off \in Nat /\ n \in Nat /\ c.off + 1 <= 2 * n
  BY <1>3 DEF GoodCursor, Cursor, LineAt
<1>6. 2 * n <= SizeOf(f)
  <2>1. /\ n <= Len(log[f]) /\ Len(log[f]) \in Nat
        /\ ~ (n = Len(log[f]) /\ unfinished[f])
    BY DEF ConsumeLine, LineReady, TailInv, IInv, TypeOK
  <2> HIDE DEF n
  <2> QED
    BY <1>5, <2>1 DEF SizeOf
<1>7. d.off = 2 * n
  <2>1. moved.off = 2 * n
    BY <1>3 DEF GoodCursor, Cursor
  <2> HIDE DEF n, moved
  <2> QED
    BY <2>1 DEF Parse, ResetTurn
<1>8. Positions(cursors') = [Positions(cursors) EXCEPT ![f] = 2 * n]
  <2>1. Positions(cursors') = [Positions(cursors) EXCEPT ![f] = d.off]
    <3> HIDE DEF d
    <3> QED
      BY <1>1, OneMoved DEF TailInv, IInv, TypeOK
  <2> QED
    BY <1>7, <2>1
<1>9. SizeOf(f) \in Nat /\ Sizes[f] = SizeOf(f)
  BY SizeType DEF TailInv, IInv, Sizes
<1>10. 2 * n \in Positions(cursors)[f] + 1 .. Sizes[f]
  BY <1>4, <1>5, <1>6, <1>9
<1> QED
  BY <1>1, <1>2, <1>8, <1>10 DEF LT!Read, Sizes

\* The other steps of a poll move nothing; its save is a save.
LEMMA PollTail ==
  ASSUME TailInv,
         \/ BeginPoll \/ EndScan \/ SavePoll
         \/ \E f \in Files : CloseFile(f) \/ SkipFile(f)
  PROVE  LT!Save \/ UNCHANGED LT!tail
<1>1. UNCHANGED <<Sizes, up, claims, cursors>>
  BY SizesKept DEF Sizes, BeginPoll, EndScan, SavePoll, CloseFile, SkipFile, env, mem
<1>2. UNCHANGED <<Positions(cursors), FollowedBy(claims)>>
  BY <1>1 DEF Positions, FollowedBy
<1>3. CASE SavePoll
  <2>1. up
    BY <1>3 DEF SavePoll, TailInv, IInv, OpenHasCursor
  <2>2. TailOf(disk') \in {[pos |-> Positions(cursors), followed |-> FollowedBy(claims)],
                          TailOf(disk), LT!NothingSaved}
    BY <1>3, SavedTail, FailedTail DEF SavePoll
  <2> QED
    BY <1>1, <1>2, <2>1, <2>2 DEF LT!Save, LT!SaveOutcomes, Sizes, TailOf
<1>4. CASE disk' = disk
  BY <1>1, <1>2, <1>4 DEF LT!tail, Sizes
<1> QED
  BY <1>3, <1>4 DEF BeginPoll, EndScan, CloseFile, SkipFile

LEMMA CrashTail ==
  ASSUME Crash
  PROVE  LT!Stop
<1>1. UNCHANGED Sizes
  BY SizesKept DEF Sizes, Crash, env
<1>2. Positions(cursors') = LT!Nowhere /\ FollowedBy(claims') = {}
  BY EmptyTail DEF Crash
<1>3. TailOf(disk') \in {TailOf(disk), LT!NothingSaved}
  BY TornTail DEF Crash
<1> QED
  BY <1>1, <1>2, <1>3 DEF LT!Stop, Sizes, TailOf, Crash

LEMMA StartTail ==
  ASSUME TailInv, Start
  PROVE  LT!Restart
<1>1. UNCHANGED <<Sizes, disk>>
  BY SizesKept DEF Sizes, Start, env
<1>2. ASSUME NEW f \in Files
      PROVE  Positions(LoadedCursors)[f] = Positions(disk.cursors)[f]
  <2> DEFINE c == CursorOf(disk.cursors, f)
  <2>1. CASE HasCursor(disk.cursors, f)
    <3>1. c \in disk.cursors[f]
      BY <2>1 DEF CursorOf, HasCursor
    <3>2. disk.cursors[f] = {c} /\ c \in Cursor
      BY <3>1 DEF TailInv, OneCursor, IInv, TypeOK
    <3>3. LoadedCursors[f] = {Loaded(c, f)}
      BY <3>2 DEF LoadedCursors
    <3>4. Loaded(c, f).off = c.off
      BY <3>2 DEF Loaded, Cursor
    <3>5. HasCursor(LoadedCursors, f) /\ CursorOf(LoadedCursors, f) = Loaded(c, f)
      BY <3>3, CursorOfSingle
    <3> QED
      BY <2>1, <3>4, <3>5 DEF Positions
  <2>2. CASE ~ HasCursor(disk.cursors, f)
    <3>1. ~ HasCursor(LoadedCursors, f)
      BY <2>2 DEF HasCursor, LoadedCursors
    <3> QED
      BY <2>2, <3>1 DEF Positions
  <2> QED
    BY <2>1, <2>2
<1>3. Positions(LoadedCursors) = Positions(disk.cursors)
  <2>1. /\ Positions(LoadedCursors) = [f \in Files |-> Positions(LoadedCursors)[f]]
        /\ Positions(disk.cursors) = [f \in Files |-> Positions(disk.cursors)[f]]
    BY DEF Positions
  <2> HIDE DEF Positions
  <2> QED
    BY <1>2, <2>1
<1> QED
  BY <1>1, <1>3 DEF LT!Restart, Sizes, Start

LEMMA AgentTail ==
  ASSUME TailInv, NEW f \in Files, BeginLine(f) \/ EndLine(f) \/ Replace(f)
  PROVE  LT!Write(f) \/ LT!Truncate(f)
<1>1. UNCHANGED <<up, claims, cursors, disk>>
  BY DEF BeginLine, EndLine, Replace, run, mem
<1>2. UNCHANGED <<Positions(cursors), FollowedBy(claims), TailOf(disk)>>
  BY <1>1 DEF Positions, FollowedBy, TailOf
<1>3. ASSUME NEW g \in Files, g # f PROVE SizeOf(g)' = SizeOf(g)
  <2>1. log'[g] = log[g] /\ unfinished'[g] = unfinished[g]
    BY <1>3 DEF BeginLine, EndLine, Replace, TailInv, IInv, TypeOK
  <2> QED
    BY <2>1 DEF SizeOf
<1>4. log[f] \in Seq(Line) /\ unfinished[f] \in BOOLEAN /\ Len(log[f]) \in Nat
  BY DEF TailInv, IInv, TypeOK
<1>5. CASE BeginLine(f) \/ EndLine(f)
  <2>1. SizeOf(f)' = SizeOf(f) + 1
    <3>1. CASE BeginLine(f)
      <4>1. Len(log'[f]) = Len(log[f]) + 1 /\ unfinished'[f] /\ ~ unfinished[f]
        BY <1>4, <3>1 DEF BeginLine, TailInv, IInv, TypeOK
      <4> QED
        BY <1>4, <4>1 DEF SizeOf
    <3>2. CASE EndLine(f)
      <4>1. log'[f] = log[f] /\ ~ unfinished'[f] /\ unfinished[f]
        BY <3>2 DEF EndLine, TailInv, IInv, TypeOK
      <4> QED
        BY <1>4, <4>1 DEF SizeOf
    <3> QED
      BY <1>5, <3>1, <3>2
  <2>2. Sizes' = [Sizes EXCEPT ![f] = @ + 1]
    BY <1>3, <2>1 DEF Sizes
  <2> QED
    BY <1>1, <1>2, <2>2 DEF LT!Write, Sizes, TailOf
<1>6. CASE Replace(f)
  <2>1. log'[f] = <<>> /\ ~ unfinished'[f]
    BY <1>6 DEF Replace, TailInv, IInv, TypeOK
  <2>2. SizeOf(f)' = 0
    BY <2>1 DEF SizeOf
  <2>3. Sizes' = [Sizes EXCEPT ![f] = 0]
    BY <1>3, <2>2 DEF Sizes
  <2> QED
    BY <1>1, <1>2, <2>3 DEF LT!Truncate, Sizes, TailOf
<1> QED
  BY <1>5, <1>6

LEMMA StepTail == TailInv /\ [Next]_vars => [LT!Next]_(LT!tail)
<1> SUFFICES ASSUME TailInv, [Next]_vars PROVE [LT!Next]_(LT!tail)
  OBVIOUS
<1>1. CASE Operator
  BY <1>1, OperatorTail DEF Operator, LT!Next
<1>2. CASE PollStep
  BY <1>2, PollTail, OpenFileTail, ConsumeLineTail DEF PollStep, LT!Next
<1>3. CASE \E f \in Files : SkipFile(f)
  BY <1>3, PollTail DEF LT!Next
<1>4. CASE Agent
  BY <1>4, AgentTail DEF Agent, LT!Next
<1>5. CASE Crash
  BY <1>5, CrashTail DEF LT!Next
<1>6. CASE Start
  BY <1>6, StartTail DEF LT!Next
<1>7. CASE UNCHANGED vars
  <2>1. UNCHANGED <<Sizes, up, claims, cursors, disk>>
    BY <1>7, SizesKept DEF Sizes, vars
  <2>2. UNCHANGED <<Positions(cursors), FollowedBy(claims), TailOf(disk)>>
    BY <2>1 DEF Positions, FollowedBy, TailOf
  <2> QED
    BY <2>1, <2>2 DEF LT!tail, Sizes, TailOf
<1> QED
  BY <1>1, <1>2, <1>3, <1>4, <1>5, <1>6, <1>7 DEF Next

(* The monitor implements a log tail: whatever the operator, the agent and   *)
(* the crashes do, a followed file is only read forward, text is jumped over *)
(* only in a file nobody follows, and a restart resumes at a saved position. *)
THEOREM ImplementsLogTail == Spec => ImplementsTail
<1>1. TailInv /\ [Next]_vars => TailInv' /\ [LT!Next]_(LT!tail)
  BY NextTailInv, StepTail
<1> QED
  BY <1>1, InitTailInv, InitTail, PTL DEF Spec, ImplementsTail, LT!Spec

-----------------------------------------------------------------------------
(* What is handed over.  A cursor that survives in the state file stands   *)
(* for a reading of the file up to its offset: the calls it holds open are *)
(* those open there, and what it has passed was handed over.               *)

\* Call p, with identifier k, is open after line m: nothing has answered it,
\* superseded it or closed its turn.
OpenCall(f, k, p, m) ==
  /\ p \in 1..m
  /\ log[f][p].kind = "call" /\ log[f][p].call = k
  /\ \A i \in p+1..m :
       /\ log[f][i].kind # "end"
       /\ ~ (log[f][i].kind \in {"call", "output"} /\ log[f][i].call = k)

\* A cursor is inside its file, unless the file was replaced since, and the
\* calls it holds are open at its offset.
Placed(f, c) ==
  /\ c.gen <= gen[f]
  /\ c.gen = gen[f] =>
       /\ c.off <= SizeOf(f)
       /\ c.off % 2 = 1 => c.pending = NoPending
       /\ \A k \in CallIds : c.pending[k] # 0 => OpenCall(f, k, c.pending[k], c.off \div 2)
AllPlaced(cs) == \A f \in Files : \A c \in cs[f] : Placed(f, c)

\* What was handed over is in the file, unless the file was replaced since.
EntriesFit ==
  \A f \in Files : \A e \in Entries(f) :
    /\ e.gen <= gen[f]
    /\ e.gen = gen[f] =>
         /\ e.line \in 1..Len(log[f])
         /\ log[f][e.line].kind = "output" => e.call \in 1..e.line-1

\* How often line n of the present file was handed over, and whether this
\* process has it behind it: only then may it be once more than the crashes.
Copies(f, n) ==
  {i \in DOMAIN handed[f] : handed[f][i].gen = gen[f] /\ handed[f][i].line = n}
Passed(f, n) == up /\ \E c \in cursors[f] : c.gen = gen[f] /\ n <= c.off \div 2
CountHolds ==
  \A f \in Files : \A n \in 1..MaxLines :
    /\ Cardinality(Copies(f, n)) <= crashes + 1
    /\ ~ Passed(f, n) => Cardinality(Copies(f, n)) <= crashes

ReplayInv ==
  /\ TailInv
  /\ AllPlaced(cursors)
  /\ AllPlaced(disk.cursors)
  /\ EntriesFit
  /\ ResultsAnswerTheirCall
  /\ CountHolds

-----------------------------------------------------------------------------
(* Offsets and lines *)

LEMMA Half ==
  ASSUME NEW n \in Nat
  PROVE  /\ n \div 2 \in Nat
         /\ n % 2 \in {0, 1}
         /\ n = 2 * (n \div 2) + (n % 2)
         /\ LineAt(n) = n \div 2 + 1
BY DEF LineAt

LEMMA HalfMonotone ==
  ASSUME NEW m \in Nat, NEW n \in Nat, m <= n
  PROVE  m \div 2 <= n \div 2
OBVIOUS

LEMMA HalfSize ==
  ASSUME TypeOK, UnfinishedIsLine, NEW f \in Files
  PROVE  SizeOf(f) \div 2 <= Len(log[f])
<1>1. Len(log[f]) \in Nat /\ SizeOf(f) \in Nat
  BY SizeType DEF TypeOK
<1>2. SizeOf(f) <= 2 * Len(log[f])
  BY <1>1 DEF SizeOf, TypeOK
<1>3. SizeOf(f) = 2 * (SizeOf(f) \div 2) + (SizeOf(f) % 2) /\ SizeOf(f) % 2 \in {0, 1}
      /\ SizeOf(f) \div 2 \in Nat
  BY <1>1, Half
<1> QED
  BY <1>1, <1>2, <1>3

\* The line a reader consumes is whole and ends within the file.
LEMMA ReadyLine ==
  ASSUME TypeOK, NEW f \in Files, NEW off \in Nat, LineReady(f, off)
  PROVE  /\ LineAt(off) \in 1..Len(log[f])
         /\ 2 * LineAt(off) <= SizeOf(f)
         /\ log[f][LineAt(off)] \in Line
<1> DEFINE n == LineAt(off)
<1>1. n \in Nat /\ 1 <= n
  BY Half
<1>2. /\ n <= Len(log[f]) /\ Len(log[f]) \in Nat
      /\ ~ (n = Len(log[f]) /\ unfinished[f])
  BY DEF LineReady, TypeOK
<1> HIDE DEF n
<1>3. n \in 1..Len(log[f])
  BY <1>1, <1>2
<1>4. 2 * n <= SizeOf(f)
  BY <1>1, <1>2 DEF SizeOf
<1>5. log[f][n] \in Line
  BY <1>3 DEF TypeOK
<1> QED
  BY <1>3, <1>4, <1>5 DEF n

-----------------------------------------------------------------------------
(* The cursors an operation makes are placed *)

LEMMA NothingOpen ==
  ASSUME NEW f \in Files, NEW c, c.pending = NoPending, c.gen = gen[f], c.off <= SizeOf(f),
         TypeOK
  PROVE  Placed(f, c)
<1>1. \A k \in CallIds : c.pending[k] = 0
  BY DEF NoPending
<1>2. c.gen <= gen[f]
  BY DEF TypeOK
<1> QED
  BY <1>1, <1>2 DEF Placed

LEMMA HeaderPlaced ==
  ASSUME NEW f \in Files, NEW c \in Cursor, Placed(f, c)
  PROVE  Placed(f, ReadHeader(f, c))
BY DEF ReadHeader, Placed, Cursor

LEMMA LoadedPlaced ==
  ASSUME NEW f \in Files, NEW c \in Cursor, Placed(f, c)
  PROVE  Placed(f, Loaded(c, f))
BY DEF Loaded, Placed, Cursor

LEMMA FreshPlaced ==
  ASSUME TypeOK, UnfinishedIsLine, NEW f \in Files
  PROVE  Placed(f, FreshCursor(f))
<1>1. 0 <= SizeOf(f)
  BY SizeType
<1> QED
  BY <1>1, NothingOpen DEF FreshCursor

LEMMA CurrentPlaced ==
  ASSUME TypeOK, UnfinishedIsLine, AllPlaced(cursors), NEW f \in Files
  PROVE  Placed(f, CurrentCursor(f))
BY FreshPlaced DEF CurrentCursor, CursorOf, HasCursor, AllPlaced

LEMMA SeedOffset ==
  ASSUME NEW f \in Files, NEW c \in Cursor
  PROVE  /\ SeedCursor(f, c).off = SizeOf(f)
         /\ SeedCursor(f, c).gen = gen[f]
         /\ SeedCursor(f, c).pending = NoPending
         /\ ~ SeedCursor(f, c).turn
BY DEF SeedCursor, ReadHeader, ResetTurn, Cursor

LEMMA SeedPlaced ==
  ASSUME TypeOK, UnfinishedIsLine, NEW f \in Files, NEW c \in Cursor
  PROVE  Placed(f, SeedCursor(f, c))
<1>1. SizeOf(f) <= SizeOf(f)
  BY SizeType
<1> HIDE DEF SeedCursor
<1> QED
  BY <1>1, SeedOffset, NothingOpen

LEMMA RewindCases ==
  ASSUME NEW f \in Files, NEW c \in Cursor
  PROVE  \/ SizeOf(f) < c.off /\ RewindCursor(f, c) =
              ReadHeader(f, [ResetTurn(c) EXCEPT !.off = 0, !.agent = NoAgent,
                                                 !.start = 0, !.gen = gen[f]])
         \/ ~ (SizeOf(f) < c.off) /\ RewindCursor(f, c) = ReadHeader(f, c)
BY DEF RewindCursor

LEMMA RewindPlaced ==
  ASSUME TypeOK, UnfinishedIsLine, NEW f \in Files, NEW c \in Cursor, Placed(f, c)
  PROVE  Placed(f, RewindCursor(f, c))
<1> DEFINE d == [ResetTurn(c) EXCEPT !.off = 0, !.agent = NoAgent, !.start = 0, !.gen = gen[f]]
<1>1. CASE SizeOf(f) < c.off
  <2>1. d \in Cursor
    BY NoPendingType, ConstantsAssumption DEF ResetTurn, Cursor, TypeOK
  <2>2. d.pending = NoPending /\ d.gen = gen[f] /\ d.off = 0
    BY DEF ResetTurn, Cursor
  <2>3. d.off <= SizeOf(f)
    BY <2>2, SizeType
  <2> HIDE DEF d
  <2>4. Placed(f, ReadHeader(f, d))
    BY <2>1, <2>2, <2>3, NothingOpen, HeaderPlaced
  <2> QED
    BY <1>1, <2>4, RewindCases DEF d
<1>2. CASE ~ (SizeOf(f) < c.off)
  BY <1>2, HeaderPlaced, RewindCases
<1> QED
  BY <1>1, <1>2

-----------------------------------------------------------------------------
(* Steps that hand nothing over and leave the files alone *)

LEMMA PlacedKept ==
  ASSUME UNCHANGED <<log, unfinished, gen>>, NEW f, NEW c, Placed(f, c)
  PROVE  Placed(f, c)'
BY DEF Placed, SizeOf, OpenCall

LEMMA QuietStep ==
  ASSUME ReplayInv, TailInv', UNCHANGED <<log, unfinished, gen, handed, crashes>>,
         \A f \in Files : \A c \in cursors'[f] : Placed(f, c),
         \A f \in Files : \A c \in disk'.cursors[f] : Placed(f, c),
         \A f \in Files : \A n \in 1..MaxLines : Passed(f, n) => Passed(f, n)'
  PROVE  ReplayInv'
<1>1. AllPlaced(cursors)' /\ AllPlaced(disk.cursors)'
  BY PlacedKept DEF AllPlaced
<1>2. EntriesFit' /\ ResultsAnswerTheirCall'
  BY DEF ReplayInv, EntriesFit, Entries, ResultsAnswerTheirCall, Completes, SameTurn
<1>3. \A f \in Files : \A n \in 1..MaxLines : Copies(f, n)' = Copies(f, n)
  BY DEF Copies
<1>4. CountHolds'
  BY <1>3 DEF ReplayInv, CountHolds
<1> QED
  BY <1>1, <1>2, <1>4 DEF ReplayInv

LEMMA SavedPlaced ==
  ASSUME NEW cl, NEW cs, AllPlaced(cs)
  PROVE  AllPlaced(Saved(cl, cs).cursors)
BY DEF AllPlaced, Saved, NoDisk, NoCursors

LEMMA SaveFailedPlaced ==
  ASSUME AllPlaced(disk.cursors), SaveFailed
  PROVE  \A f \in Files : \A c \in disk'.cursors[f] : Placed(f, c)
BY DEF AllPlaced, SaveFailed, TornDisk, NoCursors

\* A reading position that does not go back has behind it what it had.
LEMMA PassedKept ==
  ASSUME TypeOK, UNCHANGED <<up, gen>>, NEW f \in Files, NEW n \in Nat, Passed(f, n),
         NEW d, d \in cursors'[f], d.off \in Nat, d.gen = gen[f],
         \A c \in cursors[f] : c.gen = gen[f] => c.off <= d.off
  PROVE  Passed(f, n)'
<1>1. PICK c \in cursors[f] : c.gen = gen[f] /\ n <= c.off \div 2
  BY DEF Passed
<1>2. c.off \in Nat
  BY DEF TypeOK, Cursor
<1>3. c.off <= d.off
  BY <1>1
<1>4. c.off \div 2 <= d.off \div 2 /\ c.off \div 2 \in Nat /\ d.off \div 2 \in Nat
  BY <1>2, <1>3, HalfMonotone, Half
<1>5. n <= d.off \div 2
  BY <1>1, <1>4
<1> QED
  BY <1>5 DEF Passed

LEMMA SeededReplay ==
  ASSUME ReplayInv, NEW fs, cursors' = Seeded(fs), UNCHANGED <<up, gen>>
  PROVE  /\ AllPlaced(Seeded(fs))
         /\ \A f \in Files : \A n \in 1..MaxLines : Passed(f, n) => Passed(f, n)'
<1> USE DEF ReplayInv, TailInv, IInv
<1>1. \A f \in Files : CurrentCursor(f) \in Cursor
  BY CurrentGood DEF GoodCursor
<1>2. \A f \in Files : Placed(f, SeedCursor(f, CurrentCursor(f)))
  BY <1>1, SeedPlaced
<1>3. AllPlaced(Seeded(fs))
  BY <1>2 DEF Seeded, AllPlaced
<1>4. ASSUME NEW f \in Files, NEW n \in 1..MaxLines, Passed(f, n)
      PROVE  Passed(f, n)'
  <2>1. CASE f \in fs
    <3> DEFINE d == SeedCursor(f, CurrentCursor(f))
    <3>1. d \in cursors'[f]
      BY <2>1 DEF Seeded
    <3>2. d.off = SizeOf(f) /\ d.gen = gen[f] /\ SizeOf(f) \in Nat
      BY <1>1, SeedOffset, SizeType
    <3>3. \A c \in cursors[f] : c.gen = gen[f] => c.off <= d.off
      BY <3>2 DEF AllPlaced, Placed
    <3> HIDE DEF d
    <3> QED
      BY <1>4, <3>1, <3>2, <3>3, PassedKept
  <2>2. CASE f \notin fs
    <3>1. cursors'[f] = cursors[f]
      BY <2>2 DEF Seeded
    <3> QED
      BY <1>4, <3>1 DEF Passed
  <2> QED
    BY <2>1, <2>2
<1> QED
  BY <1>3, <1>4

LEMMA OperatorReplay ==
  ASSUME ReplayInv, TailInv', NEW k \in Claims, Enable(k) \/ SeedFails(k) \/ Disable(k)
  PROVE  ReplayInv'
<1>1. UNCHANGED <<log, unfinished, gen, handed, crashes, up>>
  BY DEF Enable, SeedFails, Disable, env, run
<1>2. AllPlaced(cursors') /\ \A f \in Files : \A n \in 1..MaxLines : Passed(f, n) => Passed(f, n)'
  <2>1. CASE cursors' = cursors
    BY <1>1, <2>1 DEF ReplayInv, Passed
  <2>2. ASSUME NEW fs, cursors' = Seeded(fs) PROVE <1>2
    BY <1>1, <2>2, SeededReplay
  <2> QED
    BY <2>1, <2>2 DEF Enable, SeedFails, Disable
<1>3. \A f \in Files : \A c \in disk'.cursors[f] : Placed(f, c)
  <2>1. CASE disk' = disk
    BY <2>1 DEF ReplayInv, AllPlaced
  <2>2. CASE disk' = Saved(claims', cursors')
    BY <1>2, <2>2, SavedPlaced DEF AllPlaced
  <2>3. CASE SaveFailed
    BY <2>3, SaveFailedPlaced DEF ReplayInv
  <2> QED
    BY <2>1, <2>2, <2>3 DEF Enable, SeedFails, Disable
<1> QED
  BY <1>1, <1>2, <1>3, QuietStep DEF AllPlaced

LEMMA PollReplay ==
  ASSUME ReplayInv, TailInv',
         \/ BeginPoll \/ EndScan \/ SavePoll
         \/ \E f \in Files : CloseFile(f) \/ SkipFile(f)
  PROVE  ReplayInv'
<1>1. UNCHANGED <<log, unfinished, gen, handed, crashes, up, cursors>>
  BY DEF BeginPoll, EndScan, SavePoll, CloseFile, SkipFile, env, mem
<1>2. \A f \in Files : \A c \in disk'.cursors[f] : Placed(f, c)
  <2>1. CASE disk' = disk
    BY <2>1 DEF ReplayInv, AllPlaced
  <2>2. CASE disk' = Saved(claims, cursors)
    BY <2>2, SavedPlaced DEF ReplayInv, AllPlaced
  <2>3. CASE SaveFailed
    BY <2>3, SaveFailedPlaced DEF ReplayInv
  <2> QED
    BY <2>1, <2>2, <2>3 DEF BeginPoll, EndScan, SavePoll, CloseFile, SkipFile
<1>3. \A f \in Files : \A n \in 1..MaxLines : Passed(f, n) => Passed(f, n)'
  BY <1>1 DEF Passed
<1> QED
  BY <1>1, <1>2, <1>3, QuietStep DEF ReplayInv, AllPlaced

LEMMA OpenFileReplay ==
  ASSUME ReplayInv, TailInv', NEW f \in Files, OpenFile(f)
  PROVE  ReplayInv'
<1> USE DEF ReplayInv, TailInv, IInv
<1> DEFINE c == CurrentCursor(f)
           d == RewindCursor(f, c)
<1>1. /\ UNCHANGED <<log, unfinished, gen, handed, crashes, up, disk>>
      /\ cursors' = [cursors EXCEPT ![f] = {d}]
  BY DEF OpenFile, env
<1>2. c \in Cursor /\ Placed(f, c)
  BY CurrentGood, CurrentPlaced DEF GoodCursor
<1>3. Placed(f, d)
  BY <1>2, RewindPlaced
<1>4. cursors'[f] = {d} /\ \A g \in Files : g # f => cursors'[g] = cursors[g]
  <2> HIDE DEF d
  <2> QED
    BY <1>1 DEF TypeOK
<1>5. ASSUME NEW g \in Files, NEW n \in 1..MaxLines, Passed(g, n)
      PROVE  Passed(g, n)'
  <2>1. CASE g # f
    BY <1>1, <1>4, <1>5, <2>1 DEF Passed
  <2>2. CASE g = f
    <3>1. PICK e \in cursors[f] : e.gen = gen[f] /\ n <= e.off \div 2
      BY <1>5, <2>2 DEF Passed
    <3>2. c = e
      BY <3>1 DEF CurrentCursor, HasCursor, CursorOf, OneCursor
    <3>3. ~ (SizeOf(f) < c.off)
      BY <1>2, <3>1, <3>2, SizeType DEF Placed, Cursor
    <3>4. d.off = e.off /\ d.gen = e.gen
      BY <1>2, <3>2, <3>3 DEF RewindCursor, ReadHeader, Cursor
    <3> HIDE DEF d
    <3> QED
      BY <1>1, <1>4, <1>5, <2>2, <3>1, <3>4 DEF Passed
  <2> QED
    BY <2>1, <2>2
<1>6. \A g \in Files : \A e \in cursors'[g] : Placed(g, e)
  <2> HIDE DEF d
  <2> QED
    BY <1>3, <1>4 DEF AllPlaced
<1> QED
  BY <1>1, <1>5, <1>6, QuietStep DEF AllPlaced

LEMMA CopiesFinite ==
  ASSUME TypeOK, NEW f \in Files, NEW n
  PROVE  IsFiniteSet(Copies(f, n)) /\ Cardinality(Copies(f, n)) \in Nat
<1>1. handed[f] \in Seq(HandedEntry)
  BY DEF TypeOK
<1>2. Len(handed[f]) \in Nat /\ DOMAIN handed[f] = 1..Len(handed[f])
  BY <1>1
<1>3. IsFiniteSet(1..Len(handed[f]))
  BY <1>2, FS_Interval
<1>4. Copies(f, n) \subseteq 1..Len(handed[f])
  BY <1>2 DEF Copies
<1> QED
  BY <1>3, <1>4, FS_Subset, FS_CardinalityType

LEMMA ProcessReplay ==
  ASSUME ReplayInv, TailInv', Crash \/ Start
  PROVE  ReplayInv'
<1> USE DEF ReplayInv
<1>1. UNCHANGED <<log, unfinished, gen, handed>>
  BY DEF Crash, Start, env
<1>2. CASE Start
  <2>1. \A f \in Files : \A c \in disk.cursors[f] : Placed(f, Loaded(c, f))
    BY LoadedPlaced DEF TailInv, IInv, TypeOK, AllPlaced
  <2>2. \A f \in Files : \A c \in cursors'[f] : Placed(f, c)
    BY <1>2, <2>1 DEF Start, LoadedCursors
  <2>3. UNCHANGED <<disk, crashes>> /\ ~ up
    BY <1>2 DEF Start
  <2> QED
    BY <1>1, <2>2, <2>3, QuietStep DEF AllPlaced, Passed
<1>3. CASE Crash
  <2>1. AllPlaced(cursors)' /\ AllPlaced(disk.cursors)'
    <3>1. \A f \in Files : \A c \in cursors'[f] \union disk'.cursors[f] : Placed(f, c)
      BY <1>3 DEF Crash, NoCursors, TornDisk, AllPlaced
    <3> QED
      BY <1>1, <3>1, PlacedKept DEF AllPlaced
  <2>2. EntriesFit' /\ ResultsAnswerTheirCall'
    BY <1>1 DEF EntriesFit, Entries, ResultsAnswerTheirCall, Completes, SameTurn
  <2>3. CountHolds'
    <3>1. \A f \in Files : \A n \in 1..MaxLines : Copies(f, n)' = Copies(f, n)
      BY <1>1 DEF Copies
    <3>2. ASSUME NEW f \in Files, NEW n \in 1..MaxLines
          PROVE  Cardinality(Copies(f, n)) \in Nat
      BY CopiesFinite DEF TailInv, IInv
    <3>3. crashes' = crashes + 1 /\ crashes \in Nat
      BY <1>3 DEF Crash, TailInv, IInv, TypeOK
    <3> QED
      BY <3>1, <3>2, <3>3 DEF CountHolds
  <2> QED
    BY <2>1, <2>2, <2>3
<1> QED
  BY <1>2, <1>3

-----------------------------------------------------------------------------
(* The agent writes: what was there stays, or the file begins anew *)


\* File f is as it was, or half a line longer.
Grown(f) ==
  /\ gen'[f] = gen[f]
  /\ Len(log[f]) <= Len(log'[f])
  /\ \A i \in 1..Len(log[f]) : log'[f][i] = log[f][i]
  /\ SizeOf(f)' \in {SizeOf(f), SizeOf(f) + 1}

LEMMA Untouched ==
  ASSUME TypeOK, NEW f \in Files, BeginLine(f) \/ EndLine(f) \/ Replace(f),
         NEW g \in Files, g # f
  PROVE  Grown(g)
<1>1. log'[g] = log[g] /\ unfinished'[g] = unfinished[g] /\ gen'[g] = gen[g]
  BY DEF BeginLine, EndLine, Replace, TypeOK
<1>2. Len(log[g]) \in Nat
  BY DEF TypeOK
<1> QED
  BY <1>1, <1>2 DEF Grown, SizeOf

LEMMA Written ==
  ASSUME TypeOK, NEW f \in Files, BeginLine(f) \/ EndLine(f)
  PROVE  Grown(f)
<1>1. log[f] \in Seq(Line) /\ Len(log[f]) \in Nat /\ gen'[f] = gen[f]
  BY DEF BeginLine, EndLine, TypeOK
<1>2. CASE BeginLine(f)
  <2>1. PICK line : log' = [log EXCEPT ![f] = Append(@, line)]
    BY <1>2 DEF BeginLine
  <2>2. log'[f] = Append(log[f], line)
    BY <2>1 DEF TypeOK
  <2>3. /\ Len(log'[f]) = Len(log[f]) + 1
        /\ \A i \in 1..Len(log[f]) : log'[f][i] = log[f][i]
    BY <1>1, <2>2
  <2>4. unfinished'[f] /\ ~ unfinished[f]
    BY <1>2 DEF BeginLine, TypeOK
  <2> QED
    BY <1>1, <2>3, <2>4 DEF Grown, SizeOf
<1>3. CASE EndLine(f)
  <2>1. log'[f] = log[f] /\ ~ unfinished'[f] /\ unfinished[f]
    BY <1>3 DEF EndLine, TypeOK
  <2> QED
    BY <1>1, <2>1 DEF Grown, SizeOf
<1> QED
  BY <1>2, <1>3

LEMMA OpenCallGrown ==
  ASSUME TypeOK, NEW g \in Files, Grown(g), NEW k, NEW p, NEW m \in Nat, m <= Len(log[g])
  PROVE  OpenCall(g, k, p, m)' <=> OpenCall(g, k, p, m)
<1>1. Len(log[g]) \in Nat
  BY DEF TypeOK
<1>2. \A i \in 1..m : log'[g][i] = log[g][i]
  BY <1>1 DEF Grown
<1>3. CASE p \in 1..m
  <2>1. \A i \in p+1..m : i \in 1..m
    BY <1>3
  <2> QED
    BY <1>2, <1>3, <2>1 DEF OpenCall
<1>4. CASE p \notin 1..m
  BY <1>4 DEF OpenCall
<1> QED
  BY <1>3, <1>4

LEMMA GrownPlaced ==
  ASSUME TypeOK, UnfinishedIsLine, NEW g \in Files, Grown(g), NEW c \in Cursor, Placed(g, c)
  PROVE  Placed(g, c)'
<1>1. CASE c.gen = gen[g]
  <2>1. c.off <= SizeOf(g) /\ c.off \in Nat /\ SizeOf(g) \in Nat
    BY <1>1, SizeType DEF Placed, Cursor
  <2>2. c.off \div 2 <= SizeOf(g) \div 2 /\ c.off \div 2 \in Nat /\ SizeOf(g) \div 2 \in Nat
    BY <2>1, HalfMonotone, Half
  <2>3. c.off \div 2 <= Len(log[g]) /\ Len(log[g]) \in Nat
    BY <2>2, HalfSize DEF TypeOK
  <2>4. \A k \in CallIds : c.pending[k] # 0 => OpenCall(g, k, c.pending[k], c.off \div 2)'
    BY <1>1, <2>2, <2>3, OpenCallGrown DEF Placed
  <2>5. c.off <= SizeOf(g)'
    BY <2>1 DEF Grown
  <2> QED
    BY <1>1, <2>4, <2>5 DEF Placed, Grown
<1>2. CASE c.gen # gen[g]
  BY <1>2 DEF Placed, Grown
<1> QED
  BY <1>1, <1>2

LEMMA ReplacedPlaced ==
  ASSUME TypeOK, NEW f \in Files, Replace(f), NEW c \in Cursor, Placed(f, c)
  PROVE  Placed(f, c)'
<1>1. gen'[f] = gen[f] + 1 /\ gen[f] \in Nat /\ c.gen \in Nat
  BY DEF Replace, TypeOK, Cursor
<1>2. c.gen < gen'[f]
  BY <1>1 DEF Placed
<1> QED
  BY <1>1, <1>2 DEF Placed

LEMMA CompletesGrown ==
  ASSUME TypeOK, NEW g \in Files, Grown(g), NEW j \in 1..Len(log[g]), NEW i \in 1..j-1
  PROVE  Completes(g, i, j)' <=> Completes(g, i, j)
<1>1. Len(log[g]) \in Nat
  BY DEF TypeOK
<1>2. \A k \in i..j : log'[g][k] = log[g][k]
  BY <1>1 DEF Grown
<1>3. i \in i..j /\ j \in i..j /\ \A k \in i+1..j-1 : k \in i..j
  BY <1>1
<1> QED
  BY <1>2, <1>3 DEF Completes, SameTurn

\* What ReplayInv says of one file's records.
FileEntries(f) ==
  \A e \in Entries(f) :
    /\ e.gen <= gen[f]
    /\ e.gen = gen[f] =>
         /\ e.line \in 1..Len(log[f])
         /\ log[f][e.line].kind = "output" =>
              e.call \in 1..e.line-1 /\ Completes(f, e.call, e.line)
FileCount(f) ==
  \A n \in 1..MaxLines :
    /\ Cardinality(Copies(f, n)) <= crashes + 1
    /\ ~ Passed(f, n) => Cardinality(Copies(f, n)) <= crashes

LEMMA ByFile ==
  /\ (EntriesFit /\ ResultsAnswerTheirCall) <=> \A f \in Files : FileEntries(f)
  /\ CountHolds <=> \A f \in Files : FileCount(f)
BY DEF EntriesFit, ResultsAnswerTheirCall, CountHolds, FileEntries, FileCount

LEMMA ByFileNext ==
  /\ (EntriesFit /\ ResultsAnswerTheirCall)' <=> \A f \in Files : FileEntries(f)'
  /\ CountHolds' <=> \A f \in Files : FileCount(f)'
BY DEF EntriesFit, ResultsAnswerTheirCall, CountHolds, FileEntries, FileCount

LEMMA GrownFile ==
  ASSUME ReplayInv, NEW g \in Files, Grown(g), UNCHANGED <<cursors, up, handed, crashes>>
  PROVE  FileEntries(g)' /\ FileCount(g)'
<1> USE DEF ReplayInv, TailInv, IInv
<1>1. FileEntries(g) /\ FileCount(g) /\ gen'[g] = gen[g] /\ Len(log[g]) \in Nat
      /\ Len(log[g]) <= Len(log'[g])
  BY ByFile DEF Grown, TypeOK
<1>2. Entries(g)' = Entries(g)
  BY DEF Entries
<1>3. ASSUME NEW e \in Entries(g), e.gen = gen[g]
      PROVE  /\ e.line \in 1..Len(log'[g])
             /\ log'[g][e.line].kind = "output" =>
                  e.call \in 1..e.line-1 /\ Completes(g, e.call, e.line)'
  <2>1. e.line \in 1..Len(log[g]) /\ log'[g][e.line] = log[g][e.line]
    BY <1>1, <1>3 DEF FileEntries, Grown
  <2>2. e.line \in 1..Len(log'[g])
    <3>1. Len(log'[g]) \in Int
      BY DEF Grown
    <3> QED
      BY <1>1, <2>1, <3>1
  <2>3. CASE log[g][e.line].kind = "output"
    <3>1. e.call \in 1..e.line-1 /\ Completes(g, e.call, e.line)
      BY <1>1, <1>3, <2>3 DEF FileEntries
    <3> QED
      BY <2>1, <2>2, <3>1, CompletesGrown
  <2> QED
    BY <2>1, <2>2, <2>3
<1>4. FileEntries(g)'
  BY <1>1, <1>2, <1>3 DEF FileEntries
<1>5. \A n \in 1..MaxLines : Copies(g, n)' = Copies(g, n) /\ Passed(g, n)' = Passed(g, n)
  BY <1>1 DEF Copies, Passed
<1>6. FileCount(g)'
  BY <1>1, <1>5 DEF FileCount
<1> QED
  BY <1>4, <1>6

\* No record is of a line of the new file yet.
LEMMA ReplacedFile ==
  ASSUME ReplayInv, NEW f \in Files, Replace(f)
  PROVE  FileEntries(f)' /\ FileCount(f)'
<1> USE DEF ReplayInv, TailInv, IInv
<1>1. gen'[f] = gen[f] + 1 /\ gen[f] \in Nat /\ UNCHANGED <<handed, crashes>>
  BY DEF Replace, TypeOK
<1>2. \A e \in Entries(f) : e.gen \in Nat /\ e.gen < gen'[f]
  <2>1. \A e \in Entries(f) : e.gen \in Nat
    <3>1. handed[f] \in Seq(HandedEntry)
      BY DEF TypeOK
    <3>2. \A i \in DOMAIN handed[f] : handed[f][i] \in HandedEntry
      BY <3>1
    <3> QED
      BY <3>2 DEF Entries, HandedEntry
  <2> QED
    BY <1>1, <2>1 DEF EntriesFit
<1>3. FileEntries(f)'
  BY <1>1, <1>2 DEF FileEntries, Entries
<1>4. \A n \in 1..MaxLines : Copies(f, n)' = {}
  BY <1>1, <1>2 DEF Copies, Entries
<1>5. FileCount(f)'
  <2>1. crashes' \in Nat /\ Cardinality({}) = 0
    BY <1>1, FS_EmptySet DEF TypeOK
  <2> QED
    BY <1>4, <2>1 DEF FileCount
<1> QED
  BY <1>3, <1>5

LEMMA AgentReplay ==
  ASSUME ReplayInv, TailInv', NEW f \in Files, BeginLine(f) \/ EndLine(f) \/ Replace(f)
  PROVE  ReplayInv'
<1> USE DEF ReplayInv, TailInv, IInv
<1>1. UNCHANGED <<cursors, up, handed, crashes, disk>>
  BY DEF BeginLine, EndLine, Replace, run, mem
<1>2. ASSUME NEW g \in Files
      PROVE  Grown(g) \/ (g = f /\ Replace(f))
  BY Untouched, Written
<1>3. ASSUME NEW g \in Files, NEW c \in Cursor, Placed(g, c)
      PROVE  Placed(g, c)'
  BY <1>2, <1>3, GrownPlaced, ReplacedPlaced
<1>4. AllPlaced(cursors)' /\ AllPlaced(disk.cursors)'
  BY <1>1, <1>3 DEF AllPlaced, TypeOK
<1>5. \A g \in Files : FileEntries(g)' /\ FileCount(g)'
  BY <1>1, <1>2, GrownFile, ReplacedFile
<1> QED
  BY <1>4, <1>5, ByFileNext

-----------------------------------------------------------------------------
(* One line is read *)

\* The cursor ConsumeLine leaves, and what it holds.
AfterLine(f, c) ==
  LET n == LineAt(c.off)
      moved == [c EXCEPT !.off = 2 * n]
  IN IF c.off % 2 = 0 THEN Parse(f, moved, log[f][n], n) ELSE moved

NextLine(f, c) == log[f][LineAt(c.off)]

LEMMA AfterLineFields ==
  ASSUME NEW f \in Files, NEW c \in Cursor, LineAt(c.off) \in Nat, NextLine(f, c) \in Line
  PROVE  /\ AfterLine(f, c).off = 2 * LineAt(c.off)
         /\ AfterLine(f, c).gen = c.gen /\ AfterLine(f, c).start = c.start
         /\ c.off % 2 # 0 => /\ AfterLine(f, c).pending = c.pending
                             /\ AfterLine(f, c).turn = c.turn
                             /\ AfterLine(f, c).agent = c.agent
         /\ c.off % 2 = 0 =>
              /\ AfterLine(f, c).agent = IF NextLine(f, c).kind = "meta" THEN FileAgent[f] ELSE c.agent
              /\ AfterLine(f, c).turn =
                   IF NextLine(f, c).kind = "turn" THEN TRUE
                   ELSE IF NextLine(f, c).kind = "end" THEN FALSE ELSE c.turn
              /\ \A k \in CallIds : AfterLine(f, c).pending[k] =
                   IF NextLine(f, c).kind = "end" THEN 0
                   ELSE IF NextLine(f, c).kind = "call" /\ NextLine(f, c).call = k THEN LineAt(c.off)
                   ELSE IF NextLine(f, c).kind = "output" /\ NextLine(f, c).call = k THEN 0
                   ELSE c.pending[k]
<1> DEFINE n == LineAt(c.off)
           line == NextLine(f, c)
           moved == [c EXCEPT !.off = 2 * n]
<1>0. n \in Nat /\ line \in Line
  OBVIOUS
<1> HIDE DEF n, line
<1>1. moved \in Cursor
  BY <1>0 DEF Cursor
<1>2. /\ moved.off = 2 * n /\ moved.gen = c.gen /\ moved.start = c.start
      /\ moved.pending = c.pending /\ moved.turn = c.turn /\ moved.agent = c.agent
  BY DEF Cursor
<1>3. AfterLine(f, c) = IF c.off % 2 = 0 THEN Parse(f, moved, line, n) ELSE moved
  BY DEF AfterLine, NextLine, n, line
<1> HIDE DEF moved
<1>4. CASE c.off % 2 # 0
  BY <1>2, <1>3, <1>4 DEF n
<1>5. CASE c.off % 2 = 0
  <2>1. AfterLine(f, c) = Parse(f, moved, line, n)
    BY <1>3, <1>5
  <2>2. CASE line.kind = "meta"
    BY <1>1, <1>2, <1>5, <2>1, <2>2 DEF Parse, Cursor, n, line
  <2>3. CASE line.kind = "turn"
    BY <1>1, <1>2, <1>5, <2>1, <2>3 DEF Parse, Cursor, n, line
  <2>4. CASE line.kind = "end"
    <3>1. AfterLine(f, c) = ResetTurn(moved)
      BY <2>1, <2>4 DEF Parse
    <3>2. /\ ResetTurn(moved).off = moved.off /\ ResetTurn(moved).gen = moved.gen
          /\ ResetTurn(moved).start = moved.start /\ ResetTurn(moved).agent = moved.agent
          /\ ResetTurn(moved).turn = FALSE /\ ResetTurn(moved).pending = NoPending
      BY <1>1 DEF ResetTurn, Cursor
    <3>3. \A k \in CallIds : NoPending[k] = 0
      BY DEF NoPending
    <3> QED
      BY <1>2, <1>5, <2>4, <3>1, <3>2, <3>3 DEF n, line
  <2>5. CASE line.kind = "call"
    BY <1>1, <1>2, <1>5, <2>1, <2>5 DEF Parse, Cursor, n, line
  <2>6. CASE line.kind = "output"
    BY <1>1, <1>2, <1>5, <2>1, <2>6 DEF Parse, Cursor, n, line
  <2>7. CASE line.kind \notin {"meta", "turn", "end", "call", "output"}
    BY <1>1, <1>2, <1>5, <2>1, <2>7 DEF Parse, Cursor, n, line
  <2> QED
    BY <2>2, <2>3, <2>4, <2>5, <2>6, <2>7
<1> QED
  BY <1>0, <1>4, <1>5 DEF n, line

\* A call stays open over a line that does not concern it.
LEMMA OpenCallStep ==
  ASSUME NEW f, NEW k, NEW m \in Nat, NEW p,
         OpenCall(f, k, p, m),
         log[f][m + 1].kind # "end",
         ~ (log[f][m + 1].kind \in {"call", "output"} /\ log[f][m + 1].call = k)
  PROVE  OpenCall(f, k, p, m + 1)
<1>1. p \in 1..m
  BY DEF OpenCall
<1>2. \A i \in p+1..m+1 : i \in p+1..m \/ i = m + 1
  BY <1>1
<1> QED
  BY <1>1, <1>2 DEF OpenCall

LEMMA AfterLinePlaced ==
  ASSUME TypeOK, NEW f \in Files, NEW c \in Cursor, Placed(f, c), LineReady(f, c.off)
  PROVE  Placed(f, AfterLine(f, c))
<1> DEFINE n == LineAt(c.off)
           m == c.off \div 2
           line == NextLine(f, c)
           d == AfterLine(f, c)
<1>1. c.off \in Nat
  BY DEF Cursor
<1>2. /\ m \in Nat /\ n = m + 1 /\ n \in Nat /\ c.off % 2 \in {0, 1}
      /\ 2 * n <= SizeOf(f) /\ line \in Line
  <2>1. m \in Nat /\ n = m + 1 /\ c.off % 2 \in {0, 1}
    BY <1>1, Half
  <2>2. 2 * n <= SizeOf(f) /\ line \in Line
    BY <1>1, ReadyLine DEF NextLine
  <2> QED
    BY <2>1, <2>2
<1>3. (2 * n) \div 2 = n /\ (2 * n) % 2 = 0
  <2> HIDE DEF n
  <2> QED
    BY <1>2
<1>4. /\ d.off = 2 * n /\ d.gen = c.gen
      /\ c.off % 2 # 0 => d.pending = c.pending
      /\ c.off % 2 = 0 =>
           \A k \in CallIds : d.pending[k] =
             IF line.kind = "end" THEN 0
             ELSE IF line.kind = "call" /\ line.call = k THEN n
             ELSE IF line.kind = "output" /\ line.call = k THEN 0
             ELSE c.pending[k]
  BY <1>2, AfterLineFields
<1> HIDE DEF d, line, n, m
<1>5. ASSUME c.gen = gen[f], NEW k \in CallIds, d.pending[k] # 0
      PROVE  OpenCall(f, k, d.pending[k], n)
  <2>1. CASE c.off % 2 = 0
    <3>1. CASE line.kind = "call" /\ line.call = k
      <4>1. d.pending[k] = n
        BY <1>4, <2>1, <3>1
      <4>2. n \in 1..n
        BY <1>2
      <4>3. \A i \in n+1..n : FALSE
        BY <1>2
      <4> QED
        BY <3>1, <4>1, <4>2, <4>3 DEF OpenCall, line, NextLine, n
    <3>2. CASE ~ (line.kind = "call" /\ line.call = k)
      <4>1. /\ line.kind # "end" /\ ~ (line.kind = "output" /\ line.call = k)
            /\ d.pending[k] = c.pending[k]
        BY <1>4, <1>5, <2>1, <3>2
      <4>2. OpenCall(f, k, c.pending[k], m)
        BY <1>5, <4>1 DEF Placed, m
      <4> QED
        BY <1>2, <3>2, <4>1, <4>2, OpenCallStep DEF line, NextLine, n
    <3> QED
      BY <3>1, <3>2
  <2>2. CASE c.off % 2 # 0
    <3>1. d.pending = NoPending
      BY <1>2, <1>4, <1>5, <2>2 DEF Placed
    <3> QED
      BY <1>5, <3>1 DEF NoPending
  <2> QED
    BY <2>1, <2>2
<1>6. c.gen <= gen[f]
  BY DEF Placed
<1>7. Placed(f, d)
  BY <1>2, <1>3, <1>4, <1>5, <1>6 DEF Placed
<1> QED
  BY <1>7 DEF d

\* The line a cursor hands over, and to whom: as ConsumeLine does it.
EntryOf(f, c, k) ==
  [gen |-> c.gen, line |-> LineAt(c.off), claim |-> k, call |-> CallOf(c, NextLine(f, c))]

\* What a step of the consuming loop does.
LEMMA ConsumeLineFacts ==
  ASSUME TailInv, NEW f \in Files, ConsumeLine(f), NEW c, c = CursorOf(cursors, f)
  PROVE  /\ c \in Cursor /\ cursors[f] = {c}
         /\ LineReady(f, c.off)
         /\ LineAt(c.off) = c.off \div 2 + 1 /\ LineAt(c.off) \in 1..Len(log[f])
         /\ NextLine(f, c) \in Line
         /\ UNCHANGED <<log, unfinished, gen, up, disk, claims, since, crashes>>
         /\ cursors'[f] = {AfterLine(f, c)}
         /\ \A g \in Files : g # f => cursors'[g] = cursors[g] /\ handed'[g] = handed[g]
         /\ \/ /\ c.off % 2 = 0 /\ Yields(c, NextLine(f, c)) /\ MatchingClaims(f, c) # {}
               /\ \E k \in MatchingClaims(f, c) : handed'[f] = Append(handed[f], EntryOf(f, c, k))
            \/ /\ ~ (c.off % 2 = 0 /\ Yields(c, NextLine(f, c)) /\ MatchingClaims(f, c) # {})
               /\ handed'[f] = handed[f]
<1> USE DEF TailInv, IInv
<1>1. HasCursor(cursors, f) /\ open = f
  BY ConstantsAssumption DEF ConsumeLine, OpenHasCursor
<1>2. c \in cursors[f]
  BY <1>1 DEF HasCursor, CursorOf
<1>3. c \in Cursor /\ cursors[f] = {c} /\ c.off \in Nat
  BY <1>2 DEF OneCursor, TypeOK, Cursor
<1>4. LineReady(f, c.off)
  BY DEF ConsumeLine
<1>5. /\ LineAt(c.off) = c.off \div 2 + 1 /\ LineAt(c.off) \in 1..Len(log[f])
      /\ NextLine(f, c) \in Line
  BY <1>3, <1>4, Half, ReadyLine DEF NextLine
<1>6. UNCHANGED <<log, unfinished, gen, up, disk, claims, since, crashes>>
  BY DEF ConsumeLine, env, run
<1>7. cursors' = [cursors EXCEPT ![f] = {AfterLine(f, c)}]
  BY DEF ConsumeLine, AfterLine
<1>8. cursors'[f] = {AfterLine(f, c)} /\ \A g \in Files : g # f => cursors'[g] = cursors[g]
  <2> HIDE DEF AfterLine
  <2> QED
    BY <1>7 DEF TypeOK
<1>9. \/ /\ c.off % 2 = 0 /\ Yields(c, NextLine(f, c)) /\ MatchingClaims(f, c) # {}
         /\ \E k \in MatchingClaims(f, c) :
              handed' = [handed EXCEPT ![f] = Append(@, EntryOf(f, c, k))]
      \/ /\ ~ (c.off % 2 = 0 /\ Yields(c, NextLine(f, c)) /\ MatchingClaims(f, c) # {})
         /\ handed' = handed
  BY DEF ConsumeLine, EntryOf, NextLine
<1>10. handed \in [Files -> Seq(HandedEntry)]
  BY DEF TypeOK
<1> HIDE DEF TailInv, IInv
<1>11. \/ /\ c.off % 2 = 0 /\ Yields(c, NextLine(f, c)) /\ MatchingClaims(f, c) # {}
          /\ \E k \in MatchingClaims(f, c) : handed'[f] = Append(handed[f], EntryOf(f, c, k))
       \/ /\ ~ (c.off % 2 = 0 /\ Yields(c, NextLine(f, c)) /\ MatchingClaims(f, c) # {})
          /\ handed'[f] = handed[f]
  BY <1>9, <1>10
<1>12. \A g \in Files : g # f => handed'[g] = handed[g]
  BY <1>9, <1>10
<1> QED
  BY <1>3, <1>4, <1>5, <1>6, <1>8, <1>11, <1>12

\* The record a line yields names a line of the file, and a tool result the
\* call it answers.
LEMMA EntryFits ==
  ASSUME TypeOK, NEW f \in Files, NEW c \in Cursor, Placed(f, c), LineReady(f, c.off),
         c.off % 2 = 0, Yields(c, NextLine(f, c)), NEW k, NEW e, e = EntryOf(f, c, k)
  PROVE  /\ e.gen = c.gen /\ e.line = LineAt(c.off)
         /\ e.gen <= gen[f]
         /\ e.gen = gen[f] =>
              /\ e.line \in 1..Len(log[f])
              /\ log[f][e.line].kind = "output" =>
                   e.call \in 1..e.line-1 /\ Completes(f, e.call, e.line)
<1> DEFINE m == c.off \div 2
           line == NextLine(f, c)
           p == c.pending[line.call]
<1>1. c.off \in Nat /\ m \in Nat /\ LineAt(c.off) = m + 1
  BY Half DEF Cursor
<1>2. LineAt(c.off) \in 1..Len(log[f]) /\ line \in Line
  BY <1>1, ReadyLine DEF NextLine
<1>3. e.gen = c.gen /\ e.line = LineAt(c.off) /\ e.call = CallOf(c, line) /\ e.gen <= gen[f]
  BY DEF EntryOf, Placed
<1>4. ASSUME c.gen = gen[f], line.kind = "output"
      PROVE  e.call \in 1..m /\ Completes(f, e.call, m + 1)
  <2>1. e.call = p /\ p # 0 /\ line.call \in CallIds
    BY <1>2, <1>3, <1>4 DEF CallOf, Yields, Line
  <2>2. OpenCall(f, line.call, p, m)
    BY <1>4, <2>1 DEF Placed
  <2> HIDE DEF p, m
  <2>3. p \in 1..m /\ \A i \in p+1..m+1-1 : i \in p+1..m
    BY <1>1, <2>2 DEF OpenCall
  <2>4. Completes(f, p, m + 1)
    BY <1>1, <1>4, <2>2, <2>3 DEF OpenCall, Completes, SameTurn, NextLine
  <2> QED
    BY <2>1, <2>3, <2>4
<1> HIDE DEF m
<1> QED
  BY <1>1, <1>2, <1>3, <1>4 DEF NextLine

LEMMA CopiesAppended ==
  ASSUME TypeOK, TypeOK', NEW f \in Files, NEW e, handed'[f] = Append(handed[f], e),
         gen' = gen, NEW n
  PROVE  /\ e.gen = gen[f] /\ e.line = n =>
              Cardinality(Copies(f, n)') = Cardinality(Copies(f, n)) + 1
         /\ ~ (e.gen = gen[f] /\ e.line = n) => Copies(f, n)' = Copies(f, n)
<1> DEFINE len == Len(handed[f])
<1>1. handed[f] \in Seq(HandedEntry) /\ len \in Nat /\ DOMAIN handed[f] = 1..len
  BY DEF TypeOK
<1>2. /\ DOMAIN handed'[f] = 1..len+1 /\ handed'[f][len + 1] = e
      /\ \A i \in 1..len : handed'[f][i] = handed[f][i]
  <2>1. handed[f] \in Seq(HandedEntry \union {e}) /\ e \in HandedEntry \union {e}
    BY <1>1
  <2> QED
    BY <1>1, <2>1
<1>3. 1..len+1 = (1..len) \union {len + 1} /\ len + 1 \notin 1..len
  BY <1>1
<1> HIDE DEF len
<1>4. IsFiniteSet(Copies(f, n)) /\ len + 1 \notin Copies(f, n)
  BY <1>1, <1>3, CopiesFinite DEF Copies
<1>5. CASE e.gen = gen[f] /\ e.line = n
  <2>1. Copies(f, n)' = Copies(f, n) \union {len + 1}
    BY <1>1, <1>2, <1>3, <1>5 DEF Copies
  <2> QED
    BY <1>4, <1>5, <2>1, FS_AddElement
<1>6. CASE ~ (e.gen = gen[f] /\ e.line = n)
  BY <1>1, <1>2, <1>3, <1>6 DEF Copies
<1> QED
  BY <1>5, <1>6

LEMMA ConsumeLineReplay ==
  ASSUME ReplayInv, TailInv', NEW f \in Files, ConsumeLine(f)
  PROVE  ReplayInv'
<1> USE DEF ReplayInv
<1> DEFINE c == CursorOf(cursors, f)
           n == LineAt(c.off)
           d == AfterLine(f, c)
<1>0. TypeOK /\ TypeOK' /\ UnfinishedIsLine
  BY DEF TailInv, IInv
<1>1. /\ c \in Cursor /\ cursors[f] = {c} /\ LineReady(f, c.off)
      /\ n = c.off \div 2 + 1 /\ n \in 1..Len(log[f]) /\ NextLine(f, c) \in Line
      /\ UNCHANGED <<log, unfinished, gen, up, disk, claims, since, crashes>>
      /\ cursors'[f] = {d}
      /\ \A g \in Files : g # f => cursors'[g] = cursors[g] /\ handed'[g] = handed[g]
  BY ConsumeLineFacts
<1>2. \/ /\ c.off % 2 = 0 /\ Yields(c, NextLine(f, c))
         /\ \E k \in MatchingClaims(f, c) : handed'[f] = Append(handed[f], EntryOf(f, c, k))
      \/ handed'[f] = handed[f]
  BY ConsumeLineFacts
<1>3. Placed(f, c) /\ Placed(f, d)
  BY <1>0, <1>1, AfterLinePlaced DEF AllPlaced
<1>4. d.off = 2 * n /\ d.gen = c.gen /\ n \in Nat
  <2>1. n \in Nat
    BY <1>1
  <2> HIDE DEF c
  <2> QED
    BY ZenonT(60), <1>1, <2>1, AfterLineFields
<1>5. AllPlaced(cursors)' /\ AllPlaced(disk.cursors)'
  <2> HIDE DEF c, n, d
  <2>1. \A g \in Files : \A b \in cursors'[g] : Placed(g, b)
    BY <1>1, <1>3 DEF AllPlaced
  <2> QED
    BY <1>1, <2>1, PlacedKept DEF AllPlaced
<1>6. up
  BY DEF ConsumeLine, TailInv, IInv, OpenHasCursor
<1>7. \A x \in Nat : Passed(f, x) <=> (c.gen = gen[f] /\ x <= c.off \div 2)
  <2> HIDE DEF c
  <2> QED
    BY <1>1, <1>6 DEF Passed
<1>8. \A x \in Nat : Passed(f, x)' <=> (c.gen = gen[f] /\ x <= n)
  <2> HIDE DEF c, n, d
  <2>1. d.off \div 2 = n
    BY <1>4
  <2> QED
    BY <1>1, <1>4, <1>6, <2>1 DEF Passed
<1>9. FileEntries(f)' /\ FileCount(f)'
  <2>1. FileEntries(f) /\ FileCount(f) /\ crashes \in Nat
        /\ \A x \in 1..MaxLines : Cardinality(Copies(f, x)) \in Nat /\ x \in Nat
    <3>1. FileEntries(f) /\ FileCount(f)
      BY ByFile
    <3>2. crashes \in Nat
      BY <1>0 DEF TypeOK
    <3>3. \A x \in 1..MaxLines : Cardinality(Copies(f, x)) \in Nat /\ x \in Nat
      BY <1>0, CopiesFinite
    <3> QED
      BY <3>1, <3>2, <3>3
  <2>2. c.off \div 2 \in Nat
    BY <1>1, Half DEF Cursor
  <2>3. CASE handed'[f] = handed[f]
    <3> HIDE DEF c, n, d
    <3>1. FileEntries(f)'
      BY SMTT(40), <1>1, <2>1, <2>3 DEF FileEntries, Entries, Completes, SameTurn
    <3>2. \A x \in 1..MaxLines : Copies(f, x)' = Copies(f, x) /\ (Passed(f, x) => Passed(f, x)')
      BY <1>1, <1>7, <1>8, <2>1, <2>2, <2>3 DEF Copies
    <3> QED
      BY <1>1, <2>1, <3>1, <3>2 DEF FileCount
  <2>4. ASSUME c.off % 2 = 0, Yields(c, NextLine(f, c)), NEW k \in MatchingClaims(f, c),
               NEW e, e = EntryOf(f, c, k), handed'[f] = Append(handed[f], e)
        PROVE  FileEntries(f)' /\ FileCount(f)'
    <3>1. /\ e.gen = c.gen /\ e.line = n
          /\ e.gen <= gen[f]
          /\ e.gen = gen[f] =>
               /\ e.line \in 1..Len(log[f])
               /\ log[f][e.line].kind = "output" =>
                    e.call \in 1..e.line-1 /\ Completes(f, e.call, e.line)
      BY <1>0, <1>1, <1>3, <2>4, EntryFits
    <3> HIDE DEF c, n, d
    <3>2. \A b \in Entries(f)' : b \in Entries(f) \/ b = e
      <4>1. handed[f] \in Seq(HandedEntry \union {e}) /\ e \in HandedEntry \union {e}
        BY <1>0 DEF TypeOK
      <4>2. \A i \in DOMAIN handed'[f] :
              (i \in DOMAIN handed[f] /\ handed'[f][i] = handed[f][i]) \/ handed'[f][i] = e
        BY <2>4, <4>1
      <4> QED
        BY <4>2 DEF Entries
    <3>3. FileEntries(f)'
      BY ZenonT(60), <1>1, <2>1, <3>1, <3>2 DEF FileEntries, Completes, SameTurn
    <3>4. ASSUME NEW x \in 1..MaxLines
          PROVE  /\ Cardinality(Copies(f, x)') <= crashes + 1
                 /\ ~ Passed(f, x)' => Cardinality(Copies(f, x)') <= crashes
      <4>1. CASE e.gen = gen[f] /\ e.line = x
        <5>1. Cardinality(Copies(f, x)') = Cardinality(Copies(f, x)) + 1
          BY <1>0, <1>1, <2>4, <4>1, CopiesAppended
        <5>2. ~ Passed(f, x) /\ Passed(f, x)'
          BY <1>1, <1>4, <1>7, <1>8, <2>1, <2>2, <3>1, <4>1
        <5> QED
          BY <2>1, <5>1, <5>2 DEF FileCount
      <4>2. CASE ~ (e.gen = gen[f] /\ e.line = x)
        <5>1. Copies(f, x)' = Copies(f, x)
          BY <1>0, <1>1, <2>4, <4>2, CopiesAppended
        <5>2. Passed(f, x) => Passed(f, x)'
          BY <1>1, <1>4, <1>7, <1>8, <2>1, <2>2
        <5> QED
          BY <2>1, <5>1, <5>2 DEF FileCount
      <4> QED
        BY <4>1, <4>2
    <3> QED
      BY <1>1, <3>3, <3>4 DEF FileCount
  <2> QED
    BY <1>2, <2>3, <2>4
<1>10. ASSUME NEW g \in Files, g # f PROVE FileEntries(g)' /\ FileCount(g)'
  <2>1. cursors'[g] = cursors[g] /\ handed'[g] = handed[g] /\ FileEntries(g) /\ FileCount(g)
    BY <1>1, <1>10, ByFile
  <2>2. FileEntries(g)'
    BY SMTT(40), <1>1, <2>1 DEF FileEntries, Entries, Completes, SameTurn
  <2>3. \A x \in 1..MaxLines : Copies(g, x)' = Copies(g, x) /\ Passed(g, x)' = Passed(g, x)
    BY <1>1, <2>1 DEF Copies, Passed
  <2> QED
    BY <1>1, <2>1, <2>2, <2>3 DEF FileCount
<1> QED
  BY <1>5, <1>9, <1>10, ByFileNext

-----------------------------------------------------------------------------
(* The invariant and what follows from it *)

LEMMA InitReplay == Init => ReplayInv
<1> SUFFICES ASSUME Init PROVE ReplayInv
  OBVIOUS
<1>1. TailInv
  BY InitTailInv
<1>2. AllPlaced(cursors) /\ AllPlaced(disk.cursors)
  BY DEF Init, AllPlaced, NoDisk, NoCursors
<1>3. \A f \in Files : handed[f] = <<>>
  BY DEF Init
<1>4. EntriesFit /\ ResultsAnswerTheirCall
  BY <1>3 DEF EntriesFit, ResultsAnswerTheirCall, Entries
<1>5. \A f \in Files : \A n \in 1..MaxLines : Copies(f, n) = {}
  BY <1>3 DEF Copies
<1>6. crashes = 0 /\ Cardinality({}) = 0
  BY FS_EmptySet DEF Init
<1>7. CountHolds
  BY <1>5, <1>6 DEF CountHolds
<1> QED
  BY <1>1, <1>2, <1>4, <1>7 DEF ReplayInv

LEMMA NextReplay == ReplayInv /\ [Next]_vars => ReplayInv'
<1> SUFFICES ASSUME ReplayInv, [Next]_vars PROVE ReplayInv'
  OBVIOUS
<1>0. TailInv'
  BY NextTailInv DEF ReplayInv
<1>1. CASE Operator
  BY <1>0, <1>1, OperatorReplay DEF Operator
<1>2. CASE PollStep
  BY <1>0, <1>2, PollReplay, OpenFileReplay, ConsumeLineReplay DEF PollStep
<1>3. CASE \E f \in Files : SkipFile(f)
  BY <1>0, <1>3, PollReplay
<1>4. CASE Agent
  BY <1>0, <1>4, AgentReplay DEF Agent
<1>5. CASE Crash \/ Start
  BY <1>0, <1>5, ProcessReplay
<1>6. CASE UNCHANGED vars
  <2>1. \A f \in Files : \A n \in 1..MaxLines : Passed(f, n) => Passed(f, n)'
    BY <1>6 DEF vars, Passed
  <2> QED
    BY <1>0, <1>6, <2>1, QuietStep DEF vars, ReplayInv, AllPlaced
<1> QED
  BY <1>1, <1>2, <1>3, <1>4, <1>5, <1>6 DEF Next

THEOREM ReplayInvariant == Spec => []ReplayInv
BY InitReplay, NextReplay, PTL DEF Spec

(* However often lines are read again after crashes, with cursors restored   *)
(* from the state file, a tool result is handed over with the call it        *)
(* answers.                                                                  *)
THEOREM ResultsGoWithTheirCall == Spec => []ResultsAnswerTheirCall
<1>1. ReplayInv => ResultsAnswerTheirCall
  BY DEF ReplayInv
<1> QED
  BY <1>1, ReplayInvariant, PTL

(* A line is handed over at most once, and once more for each crash.         *)
THEOREM HandedOncePerRun == Spec => []OncePerRun
<1>1. ReplayInv => OncePerRun
  <2> SUFFICES ASSUME ReplayInv, NEW f \in Files, NEW n \in 1..MaxLines
               PROVE  Cardinality(Copies(f, n)) <= 1 + crashes
    BY DEF OncePerRun, Copies
  <2>1. crashes \in Nat
    BY DEF ReplayInv, TailInv, IInv, TypeOK
  <2> QED
    BY <2>1 DEF ReplayInv, CountHolds
<1> QED
  BY <1>1, ReplayInvariant, PTL

-----------------------------------------------------------------------------
(* Nothing is skipped.  A cursor, in memory or in the state file, is caught  *)
(* up with its file from the first line due to it: it knows the turn and the *)
(* calls open at its offset, and what is behind it was handed over.          *)

\* The first line due to a cursor of a file claimed since line s.
DueFrom(c, s) == LET known == (c.start + 1) \div 2 + 1
                 IN IF known > s THEN known ELSE s

CaughtUp(f, c, s) ==
  c.gen = gen[f] =>
    /\ c.off % 2 = 1 => DueFrom(c, s) > c.off \div 2 + 1
    /\ \A i \in DueFrom(c, s) .. c.off \div 2 :
         log[f][i].kind = "turn" /\ SameTurn(f, i, c.off \div 2 + 1) => c.turn
    /\ \A i \in DueFrom(c, s) .. c.off \div 2 : \A k \in CallIds :
         OpenCall(f, k, i, c.off \div 2) => c.pending[k] = i
    /\ c.agent # NoAgent =>
         \A j \in s .. c.off \div 2 :
           Recordable(f, DueFrom(c, s), j) =>
             \E e \in Entries(f) : e.gen = gen[f] /\ e.line = j
AllCaughtUp(cs) == \A f \in Files : \A c \in cs[f] : CaughtUp(f, c, since[f])

FilesShort ==
  \A f \in Files :
    /\ Len(log[f]) <= MaxLines
    /\ \A i \in 2..Len(log[f]) : log[f][i].kind # "meta"

\* A file whose lines are due is claimed - by a claim in the state file, while
\* the process is down - and the state file holds the claims, or none.
HeldClaims == IF up THEN claims ELSE disk.claims
SinceClaimed ==
  /\ up => disk.claims \in {claims, {}}
  /\ \A f \in Files :
       /\ since[f] >= 1
       /\ since[f] # Forever => \E k \in HeldClaims : f \in ClaimedFiles(k)

SkipInv ==
  /\ ReplayInv
  /\ FilesShort
  /\ SinceClaimed
  /\ AllCaughtUp(cursors)
  /\ AllCaughtUp(disk.cursors)

LEMMA DueType ==
  ASSUME NEW c \in Cursor, NEW s \in Nat
  PROVE  /\ DueFrom(c, s) \in Nat /\ s <= DueFrom(c, s)
         /\ (c.start + 1) \div 2 + 1 <= DueFrom(c, s)
<1>1. c.start + 1 \in Nat
  BY DEF Cursor
<1>2. (c.start + 1) \div 2 \in Nat
  BY <1>1, Half
<1> QED
  BY <1>2 DEF DueFrom

\* Nothing is due to a cursor that stands before the first line due.
LEMMA NotYetDue ==
  ASSUME NEW f \in Files, NEW c \in Cursor, NEW s \in Nat,
         c.off \div 2 < DueFrom(c, s),
         c.off % 2 = 1 => c.off \div 2 + 1 < DueFrom(c, s)
  PROVE  CaughtUp(f, c, s)
<1> DEFINE first == DueFrom(c, s)
           m == c.off \div 2
<1>1. m \in Nat /\ first \in Nat
  BY DueType, Half DEF Cursor
<1> HIDE DEF first, m
<1>2. \A i \in first..m : FALSE
  BY <1>1 DEF first, m
<1>3. \A j \in s..m : ~ Recordable(f, first, j)
  <2>1. \A j \in s..m : \A i \in first..j-1 : FALSE
    BY <1>1 DEF first, m
  <2> QED
    BY <2>1 DEF Recordable
<1> QED
  BY <1>1, <1>2, <1>3 DEF CaughtUp, first, m

\* No line of the file is due yet.
LEMMA ClaimedLate ==
  ASSUME TypeOK, UnfinishedIsLine, NEW f \in Files, NEW c \in Cursor, Placed(f, c),
         NEW s \in Nat, Len(log[f]) < s
  PROVE  CaughtUp(f, c, s)
<1>1. CASE c.gen = gen[f]
  <2>1. c.off \in Nat /\ SizeOf(f) \in Nat /\ c.off <= SizeOf(f) /\ Len(log[f]) \in Nat
    BY <1>1, SizeType DEF Placed, Cursor, TypeOK
  <2>2. SizeOf(f) <= 2 * Len(log[f])
    BY <2>1 DEF SizeOf, TypeOK
  <2>3. c.off = 2 * (c.off \div 2) + (c.off % 2) /\ c.off \div 2 \in Nat /\ c.off % 2 \in {0, 1}
    BY <2>1, Half
  <2>4. DueFrom(c, s) \in Nat /\ s <= DueFrom(c, s)
    BY DueType
  <2>5. c.off \div 2 < s /\ (c.off % 2 = 1 => c.off \div 2 + 1 < s)
    <3> DEFINE off == c.off
               m == c.off \div 2
               r == c.off % 2
    <3>0. off = 2 * m + r /\ m \in Nat /\ r \in {0, 1}
      BY <2>3
    <3> HIDE DEF m, r
    <3>1. off \in Nat /\ off <= 2 * Len(log[f]) /\ Len(log[f]) \in Nat
      BY <2>1, <2>2
    <3> HIDE DEF off
    <3>2. m < s /\ (r = 1 => m + 1 < s)
      BY <3>0, <3>1
    <3> QED
      BY <3>2 DEF m, r
  <2>6. /\ c.off \div 2 < DueFrom(c, s)
        /\ c.off % 2 = 1 => c.off \div 2 + 1 < DueFrom(c, s)
    BY <2>3, <2>4, <2>5
  <2> QED
    BY <2>6, NotYetDue
<1>2. CASE c.gen # gen[f]
  BY <1>2 DEF CaughtUp
<1> QED
  BY <1>1, <1>2

LEMMA AtTheBeginning ==
  ASSUME NEW f \in Files, NEW c \in Cursor, c.off = 0, NEW s \in Nat, 1 <= s
  PROVE  CaughtUp(f, c, s)
<1>1. c.off \div 2 = 0 /\ c.off % 2 = 0
  OBVIOUS
<1>2. 0 < DueFrom(c, s)
  BY DueType
<1> QED
  BY <1>1, <1>2, NotYetDue

\* A cursor that only now learns its agent owes nothing before its offset.
LEMMA LoadedCaughtUp ==
  ASSUME NEW f \in Files, NEW c \in Cursor, NEW s \in Nat, CaughtUp(f, c, s)
  PROVE  CaughtUp(f, Loaded(c, f), s)
<1> DEFINE d == [c EXCEPT !.agent = HeaderAgent(f), !.start = c.off]
<1>1. d \in Cursor /\ d.off = c.off /\ d.start = c.off /\ c.off \in Nat
  BY HeaderType, ConstantsAssumption DEF Cursor
<1> HIDE DEF d
<1>2. d.off \div 2 < DueFrom(d, s) /\ (d.off % 2 = 1 => d.off \div 2 + 1 < DueFrom(d, s))
  <2>1. (d.start + 1) \div 2 + 1 <= DueFrom(d, s) /\ DueFrom(d, s) \in Nat
    BY <1>1, DueType
  <2>2. d.off = 2 * (d.off \div 2) + (d.off % 2) /\ d.off \div 2 \in Nat /\ d.off % 2 \in {0, 1}
    BY <1>1, Half
  <2>3. d.off + 1 = 2 * ((d.off + 1) \div 2) + ((d.off + 1) % 2) /\ (d.off + 1) \div 2 \in Nat
        /\ (d.off + 1) % 2 \in {0, 1}
    BY <1>1, Half
  <2> QED
    BY <1>1, <2>1, <2>2, <2>3
<1>3. CaughtUp(f, d, s)
  BY <1>1, <1>2, NotYetDue
<1> QED
  BY <1>3 DEF Loaded, d

-----------------------------------------------------------------------------
(* Steps that leave the files alone *)

LEMMA CaughtUpKept ==
  ASSUME UNCHANGED <<log, gen>>, NEW f \in Files, Entries(f) \subseteq Entries(f)',
         NEW c, NEW s, CaughtUp(f, c, s)
  PROVE  CaughtUp(f, c, s)'
<1>1. \A j, i : Recordable(f, i, j)' <=> Recordable(f, i, j)
  BY DEF Recordable, SameTurn, Completes
<1>2. \A k, i, m : OpenCall(f, k, i, m)' <=> OpenCall(f, k, i, m)
  BY DEF OpenCall
<1>3. \A i, j : SameTurn(f, i, j)' <=> SameTurn(f, i, j)
  BY DEF SameTurn
<1> QED
  BY <1>1, <1>2, <1>3 DEF CaughtUp

\* Where a step leaves a file's cursors, they are caught up already or the
\* file is now claimed from a later line on.
LEMMA QuietSkip ==
  ASSUME SkipInv, ReplayInv', UNCHANGED <<log, unfinished, gen, handed>>, SinceClaimed',
         \A f \in Files : \A c \in cursors'[f] \union disk'.cursors[f] :
           \/ Len(log[f]) < since'[f]
           \/ CaughtUp(f, c, since'[f])
  PROVE  SkipInv'
<1>0. TypeOK /\ UnfinishedIsLine /\ TypeOK'
  BY DEF SkipInv, ReplayInv, TailInv, IInv
<1>1. FilesShort'
  BY DEF SkipInv, FilesShort
<1>2. ASSUME NEW f \in Files, NEW c \in cursors'[f] \union disk'.cursors[f]
      PROVE  CaughtUp(f, c, since[f])'
  <2>1. c \in Cursor /\ since'[f] \in Nat
    BY <1>0 DEF TypeOK
  <2>2. Placed(f, c)
    <3>1. Placed(f, c)'
      BY DEF ReplayInv, AllPlaced
    <3> QED
      BY ZenonT(60), <3>1 DEF Placed, SizeOf, OpenCall
  <2>3. \A s \in Nat : Len(log[f]) < s => CaughtUp(f, c, s)
    BY <1>0, <2>1, <2>2, ClaimedLate
  <2>4. CaughtUp(f, c, since'[f])
    BY <2>1, <2>3
  <2>5. Entries(f)' = Entries(f)
    BY DEF Entries
  <2>6. \A s : CaughtUp(f, c, s) => CaughtUp(f, c, s)'
    BY <2>5, CaughtUpKept
  <2>7. \A s : s = since'[f] => (CaughtUp(f, c, s)' => CaughtUp(f, c, since[f])')
    BY DEF CaughtUp
  <2> QED
    BY <2>4, <2>6, <2>7
<1>3. AllCaughtUp(cursors)' /\ AllCaughtUp(disk.cursors)'
  BY <1>2 DEF AllCaughtUp
<1> QED
  BY <1>1, <1>3 DEF SkipInv

\* SinceClaimed keeps a file of an unclaimed directory out of what is due.
LEMMA UnclaimedForever ==
  ASSUME SinceClaimed, up, NEW f \in Files, ~ RootClaimed(FileRoot[f])
  PROVE  since[f] = Forever
BY DEF SinceClaimed, HeldClaims, RootClaimed, ClaimedFiles

LEMMA ForeverLate ==
  ASSUME TypeOK, FilesShort, NEW f \in Files
  PROVE  Len(log[f]) < Forever /\ Len(log[f]) < Len(log[f]) + 1 /\ Len(log[f]) \in Nat
<1>1. Len(log[f]) \in Nat /\ Len(log[f]) <= MaxLines /\ MaxLines \in Nat
  BY ConstantsAssumption DEF TypeOK, FilesShort
<1> QED
  BY <1>1 DEF Forever

LEMMA EnableSkip ==
  ASSUME SkipInv, ReplayInv', NEW k \in Claims, Enable(k) \/ SeedFails(k) \/ Disable(k)
  PROVE  SkipInv'
<1> USE DEF SkipInv
<1>0. TypeOK /\ up /\ up' = up /\ UNCHANGED <<log, unfinished, gen, handed>>
  BY DEF ReplayInv, TailInv, IInv, Enable, SeedFails, Disable, MutexFree, env, run
<1>1. ASSUME NEW f \in Files
      PROVE  \/ since'[f] = since[f]
             \/ since'[f] = Forever
             \/ since'[f] = Len(log[f]) + 1 /\ since[f] = Forever /\ f \in ClaimedFiles(k) /\ k \in claims'
  BY <1>0 DEF Enable, SeedFails, Disable, SinceEnable, SinceHeld, TypeOK
<1>2. \A f \in Files : since'[f] = since[f] \/ Len(log[f]) < since'[f]
  BY <1>0, <1>1, ForeverLate
<1>3. SinceClaimed'
  <2>1. disk'.claims \in {claims', {}}
    <3>1. CASE disk' = disk /\ claims' = claims
      BY <1>0, <3>1 DEF SinceClaimed
    <3>2. CASE disk' = Saved(claims', cursors')
      BY <3>2 DEF Saved, NoDisk
    <3>3. CASE SaveFailed /\ claims' = claims
      BY <1>0, <3>3 DEF SaveFailed, TornDisk, SinceClaimed
    <3> QED
      BY <3>1, <3>2, <3>3 DEF Enable, SeedFails, Disable
  <2>2. ASSUME NEW f \in Files
        PROVE  since'[f] >= 1 /\ (since'[f] # Forever => \E x \in claims' : f \in ClaimedFiles(x))
    <3>1. since[f] >= 1 /\ (since[f] # Forever => \E x \in claims : f \in ClaimedFiles(x))
          /\ since[f] \in Nat
      BY <1>0 DEF SinceClaimed, HeldClaims, TypeOK
    <3>2. since'[f] >= 1
      BY <1>0, <1>1, <3>1, ForeverLate, ConstantsAssumption DEF Forever
    <3>3. CASE Enable(k) \/ SeedFails(k)
      <4>1. claims \subseteq claims'
        BY <3>3 DEF Enable, SeedFails
      <4> QED
        BY <1>1, <3>1, <3>2, <4>1
    <3>4. CASE Disable(k)
      <4>1. CASE since' = SinceHeld(claims')
        BY <3>2, <4>1 DEF SinceHeld
      <4>2. CASE since' = since /\ claims' = claims
        BY <3>1, <3>2, <4>2
      <4> QED
        BY <3>4, <4>1, <4>2 DEF Disable
    <3> QED
      BY <3>2, <3>3, <3>4
  <2> QED
    BY <1>0, <2>1, <2>2 DEF SinceClaimed, HeldClaims
<1>4. ASSUME NEW f \in Files, NEW c \in cursors'[f]
      PROVE  Len(log[f]) < since'[f] \/ CaughtUp(f, c, since'[f])
  <2>1. CASE c \in cursors[f]
    BY <1>2, <2>1 DEF AllCaughtUp
  <2>2. ASSUME NEW fs \in SUBSET FilesIn(ClaimRoot[k]), ~ RootClaimed(ClaimRoot[k]), f \in fs
        PROVE  Len(log[f]) < since'[f]
    <3>1. since[f] = Forever
      BY <1>0, <2>2, UnclaimedForever DEF FilesIn
    <3> QED
      BY <1>0, <1>2, <3>1, ForeverLate
  <2>3. c \in cursors[f] \/ \E fs \in SUBSET FilesIn(ClaimRoot[k]) :
                              f \in fs /\ ~ RootClaimed(ClaimRoot[k])
    <3>1. CASE cursors' = cursors
      BY <3>1
    <3>2. \/ cursors' = cursors
          \/ \E fs \in SUBSET FilesIn(ClaimRoot[k]) :
               ~ RootClaimed(ClaimRoot[k]) /\ cursors' = Seeded(fs)
      <4>1. FilesIn(ClaimRoot[k]) \in SUBSET FilesIn(ClaimRoot[k])
        OBVIOUS
      <4> QED
        BY <4>1 DEF Enable, SeedFails, Disable
    <3> QED
      BY <3>1, <3>2 DEF Seeded
  <2> QED
    BY <2>1, <2>2, <2>3
<1>5. ASSUME NEW f \in Files, NEW c \in disk'.cursors[f]
      PROVE  Len(log[f]) < since'[f] \/ CaughtUp(f, c, since'[f])
  <2>1. c \in disk.cursors[f] \/ c \in cursors'[f]
    <3>1. CASE disk' = disk
      BY <3>1
    <3>2. CASE disk' = Saved(claims', cursors')
      BY <3>2 DEF Saved, NoDisk, NoCursors
    <3>3. CASE SaveFailed
      BY <3>3 DEF SaveFailed, TornDisk, NoCursors
    <3> QED
      BY <3>1, <3>2, <3>3 DEF Enable, SeedFails, Disable
  <2> QED
    BY <1>2, <1>4, <2>1 DEF AllCaughtUp
<1> QED
  BY <1>0, <1>3, <1>4, <1>5, QuietSkip

LEMMA PollSkip ==
  ASSUME SkipInv, ReplayInv',
         \/ BeginPoll \/ EndScan \/ SavePoll
         \/ \E f \in Files : CloseFile(f) \/ SkipFile(f)
  PROVE  SkipInv'
<1> USE DEF SkipInv
<1>1. UNCHANGED <<log, unfinished, gen, handed, up, since, cursors, claims>>
  BY DEF BeginPoll, EndScan, SavePoll, CloseFile, SkipFile, env, mem
<1>2. up => disk'.claims \in {claims, {}}
  <2>1. CASE disk' = disk
    BY <2>1 DEF SinceClaimed
  <2>2. CASE disk' = Saved(claims, cursors)
    BY <2>2 DEF Saved, NoDisk
  <2>3. CASE SaveFailed
    BY <2>3 DEF SaveFailed, TornDisk, SinceClaimed
  <2> QED
    BY <2>1, <2>2, <2>3 DEF BeginPoll, EndScan, SavePoll, CloseFile, SkipFile
<1>3. ~ up => disk' = disk
  BY DEF BeginPoll, EndScan, SavePoll, CloseFile, SkipFile, ReplayInv, TailInv, IInv, OpenHasCursor
<1>4. SinceClaimed'
  BY <1>1, <1>2, <1>3 DEF SinceClaimed, HeldClaims, ClaimedFiles
<1>5. \A f \in Files : \A c \in disk'.cursors[f] : c \in disk.cursors[f] \/ c \in cursors[f]
  BY DEF BeginPoll, EndScan, SavePoll, CloseFile, SkipFile, SaveFailed, TornDisk, Saved,
     NoDisk, NoCursors
<1>6. \A f \in Files : \A c \in cursors'[f] \union disk'.cursors[f] : CaughtUp(f, c, since'[f])
  BY <1>1, <1>5 DEF AllCaughtUp
<1> QED
  BY <1>1, <1>4, <1>6, QuietSkip

LEMMA OpenFileSkip ==
  ASSUME SkipInv, ReplayInv', NEW f \in Files, OpenFile(f)
  PROVE  SkipInv'
<1> USE DEF SkipInv
<1> DEFINE c == CurrentCursor(f)
           d == RewindCursor(f, c)
           z == [ResetTurn(c) EXCEPT !.off = 0, !.agent = NoAgent, !.start = 0, !.gen = gen[f]]
<1>0. TypeOK /\ AgentsKnown(cursors)
  BY DEF ReplayInv, TailInv, IInv
<1>1. /\ UNCHANGED <<log, unfinished, gen, handed, up, since, disk, claims>>
      /\ cursors' = [cursors EXCEPT ![f] = {d}]
  BY DEF OpenFile, env
<1>2. c \in Cursor /\ since[f] \in Nat /\ 1 <= since[f]
  BY <1>0, CurrentGood DEF GoodCursor, TypeOK, SinceClaimed
<1>3. CaughtUp(f, c, since[f])
  <2>1. CASE HasCursor(cursors, f)
    <3>1. c \in cursors[f]
      BY <2>1 DEF CurrentCursor, CursorOf, HasCursor
    <3> QED
      BY <3>1 DEF AllCaughtUp
  <2>2. CASE ~ HasCursor(cursors, f)
    <3>1. c.off = 0
      BY <2>2 DEF CurrentCursor, FreshCursor
    <3> QED
      BY <1>2, <3>1, AtTheBeginning
  <2> QED
    BY <2>1, <2>2
<1>4. \A b \in Cursor : b.off = 0 \/ CaughtUp(f, b, since[f]) => CaughtUp(f, ReadHeader(f, b), since[f])
  <2> SUFFICES ASSUME NEW b \in Cursor, b.off = 0 \/ CaughtUp(f, b, since[f])
               PROVE  CaughtUp(f, ReadHeader(f, b), since[f])
    OBVIOUS
  <2>1. CASE b.off = 0
    <3>1. ReadHeader(f, b) \in Cursor /\ ReadHeader(f, b).off = 0
      BY <2>1, HeaderType, ConstantsAssumption DEF ReadHeader, Cursor
    <3> QED
      BY <1>2, <3>1, AtTheBeginning
  <2>2. CASE b.off # 0
    BY <2>2 DEF ReadHeader
  <2> QED
    BY <2>1, <2>2
<1>5. CaughtUp(f, d, since[f])
  <2>1. z \in Cursor /\ z.off = 0
    BY <1>0, <1>2, NoPendingType, ConstantsAssumption DEF ResetTurn, Cursor, TypeOK
  <2>2. d = ReadHeader(f, z) \/ d = ReadHeader(f, c)
    BY <1>2, RewindCases
  <2> HIDE DEF c, d, z
  <2> QED
    BY <1>2, <1>3, <1>4, <2>1, <2>2
<1>6. \A g \in Files : \A b \in cursors'[g] \union disk'.cursors[g] : CaughtUp(g, b, since'[g])
  <2> HIDE DEF d
  <2> QED
    BY <1>0, <1>1, <1>5 DEF AllCaughtUp, TypeOK
<1>7. SinceClaimed'
  BY <1>1 DEF SinceClaimed, HeldClaims, ClaimedFiles
<1> QED
  BY <1>1, <1>6, <1>7, QuietSkip

LEMMA ProcessSkip ==
  ASSUME SkipInv, ReplayInv', Crash \/ Start
  PROVE  SkipInv'
<1> USE DEF SkipInv
<1>0. TypeOK /\ UNCHANGED <<log, unfinished, gen, handed>>
  BY DEF Crash, Start, env, ReplayInv, TailInv, IInv
<1>1. CASE Crash
  <2>1. \A f \in Files : since'[f] = since[f] \/ since'[f] = Forever
    BY <1>1 DEF Crash, SinceHeld
  <2>2. \A f \in Files : since'[f] = since[f] \/ Len(log[f]) < since'[f]
    BY <1>0, <2>1, ForeverLate
  <2>3. SinceClaimed'
    <3>1. MaxLines \in Nat
      BY ConstantsAssumption
    <3> QED
      BY <1>1, <3>1 DEF Crash, SinceHeld, SinceClaimed, HeldClaims, Forever, ClaimedFiles
  <2>4. \A f \in Files : \A c \in cursors'[f] \union disk'.cursors[f] :
          c \in disk.cursors[f]
    BY <1>1 DEF Crash, NoCursors, TornDisk
  <2> QED
    BY <1>0, <2>2, <2>3, <2>4, QuietSkip DEF AllCaughtUp
<1>2. CASE Start
  <2>1. since' = since /\ disk' = disk /\ ~ up /\ up' /\ claims' = disk.claims
        /\ cursors' = LoadedCursors
    BY <1>2 DEF Start
  <2>2. SinceClaimed'
    BY <2>1 DEF SinceClaimed, HeldClaims, ClaimedFiles
  <2>3. \A f \in Files : \A c \in disk.cursors[f] : CaughtUp(f, Loaded(c, f), since[f])
    BY <1>0, LoadedCaughtUp DEF AllCaughtUp, TypeOK
  <2>4. \A f \in Files : \A c \in cursors'[f] \union disk'.cursors[f] : CaughtUp(f, c, since'[f])
    BY <2>1, <2>3 DEF AllCaughtUp, LoadedCursors
  <2> QED
    BY <1>0, <2>2, <2>4, QuietSkip
<1> QED
  BY <1>1, <1>2

-----------------------------------------------------------------------------
(* The agent writes *)

LEMMA GrownCaughtUp ==
  ASSUME TypeOK, UnfinishedIsLine, NEW f \in Files, Grown(f), handed' = handed,
         NEW c \in Cursor, Placed(f, c), NEW s \in Nat, 1 <= s, CaughtUp(f, c, s)
  PROVE  CaughtUp(f, c, s)'
<1> DEFINE m == c.off \div 2
           first == DueFrom(c, s)
<1>1. CASE c.gen = gen[f]
  <2>1. m \in Nat /\ m <= Len(log[f]) /\ Len(log[f]) \in Nat
    <3>1. c.off <= SizeOf(f) /\ c.off \in Nat /\ SizeOf(f) \in Nat
      BY <1>1, SizeType DEF Placed, Cursor
    <3>2. m <= SizeOf(f) \div 2 /\ m \in Nat /\ SizeOf(f) \div 2 \in Nat
      BY <3>1, HalfMonotone, Half
    <3>3. SizeOf(f) \div 2 <= Len(log[f]) /\ Len(log[f]) \in Nat
      BY HalfSize DEF TypeOK
    <3> HIDE DEF m
    <3> QED
      BY <3>2, <3>3
  <2>2. first \in Nat /\ 1 <= first
    BY DueType
  <2> HIDE DEF m, first
  <2>3. \A i \in 1..m : log'[f][i] = log[f][i]
    BY <2>1 DEF Grown
  <2>4. \A i \in first..m : /\ log'[f][i] = log[f][i]
                            /\ SameTurn(f, i, m + 1)' <=> SameTurn(f, i, m + 1)
    <3> SUFFICES ASSUME NEW i \in first..m
                 PROVE  /\ log'[f][i] = log[f][i]
                        /\ SameTurn(f, i, m + 1)' <=> SameTurn(f, i, m + 1)
      OBVIOUS
    <3>1. i \in 1..m /\ \A k \in i+1..(m + 1)-1 : k \in 1..m
      BY <2>1, <2>2
    <3>2. \A k \in i+1..(m + 1)-1 : log'[f][k] = log[f][k]
      BY <2>3, <3>1
    <3>3. \A x : x = m + 1 => (SameTurn(f, i, x)' <=> SameTurn(f, i, x))
      BY <3>2 DEF SameTurn
    <3> QED
      BY <2>3, <3>1, <3>3
  <2>5. \A i \in first..m : \A k \in CallIds : OpenCall(f, k, i, m)' <=> OpenCall(f, k, i, m)
    BY <2>1, OpenCallGrown
  <2>6. \A j \in s..m : Recordable(f, first, j)' <=> Recordable(f, first, j)
    <3> SUFFICES ASSUME NEW j \in s..m
                 PROVE  Recordable(f, first, j)' <=> Recordable(f, first, j)
      OBVIOUS
    <3>1. j \in 1..Len(log[f]) /\ j \in 1..m /\ j \in Nat
      BY <2>1
    <3>2. \A i \in first..j-1 : i \in 1..j-1 /\ i \in 1..m /\ \A k \in i+1..j-1 : k \in 1..m
      BY <2>1, <2>2, <3>1
    <3>3. \A i \in first..j-1 : /\ Completes(f, i, j)' <=> Completes(f, i, j)
                                /\ SameTurn(f, i, j)' <=> SameTurn(f, i, j)
      BY <2>3, <3>1, <3>2, CompletesGrown DEF SameTurn
    <3> QED
      BY <2>3, <3>1, <3>2, <3>3 DEF Recordable
  <2>7. Entries(f)' = Entries(f) /\ gen'[f] = gen[f]
    BY DEF Entries, Grown
  <2> QED
    BY <2>4, <2>5, <2>6, <2>7 DEF CaughtUp, m, first
<1>2. CASE c.gen # gen[f]
  BY <1>2 DEF CaughtUp, Grown
<1> QED
  BY <1>1, <1>2

LEMMA AgentSkip ==
  ASSUME SkipInv, ReplayInv', NEW f \in Files, BeginLine(f) \/ EndLine(f) \/ Replace(f)
  PROVE  SkipInv'
<1> USE DEF SkipInv
<1>0. TypeOK /\ UnfinishedIsLine
  BY DEF ReplayInv, TailInv, IInv
<1>1. UNCHANGED <<cursors, up, handed, crashes, disk, claims>>
  BY DEF BeginLine, EndLine, Replace, run, mem
<1>2. \A g \in Files : Grown(g) \/ (g = f /\ Replace(f))
  BY <1>0, Untouched, Written
<1>3. \A g \in Files : since'[g] = since[g] \/ (g = f /\ Replace(f))
  BY <1>0 DEF BeginLine, EndLine, Replace, TypeOK
<1>4. FilesShort'
  <2>1. ASSUME NEW g \in Files, log'[g] = log[g]
        PROVE  Len(log'[g]) <= MaxLines /\ \A i \in 2..Len(log'[g]) : log'[g][i].kind # "meta"
    BY <2>1 DEF FilesShort
  <2>2. Len(log'[f]) <= MaxLines /\ \A i \in 2..Len(log'[f]) : log'[f][i].kind # "meta"
    <3>1. CASE BeginLine(f)
      <4>1. PICK k \in (IF log[f] = <<>> THEN {"meta"} ELSE Kinds), i \in CallIds :
              log' = [log EXCEPT ![f] = Append(@, [kind |-> k, call |-> i])]
        BY <3>1 DEF BeginLine
      <4> DEFINE line == [kind |-> k, call |-> i]
      <4>2. log'[f] = Append(log[f], line) /\ line.kind = k
        BY <1>0, <4>1 DEF TypeOK
      <4>3. line \in Line /\ log[f] \in Seq(Line) /\ Len(log[f]) \in Nat /\ Len(log[f]) < MaxLines
        <5>1. line \in Line
          BY <4>1 DEF Line
        <5>2. log[f] \in Seq(Line) /\ Len(log[f]) \in Nat
          BY <1>0 DEF TypeOK
        <5> QED
          BY <3>1, <5>1, <5>2 DEF BeginLine
      <4> HIDE DEF line
      <4>4. /\ Len(log'[f]) = Len(log[f]) + 1 /\ log'[f][Len(log[f]) + 1] = line
            /\ \A x \in 1..Len(log[f]) : log'[f][x] = log[f][x]
        BY <4>2, <4>3
      <4>5. Len(log[f]) + 1 <= MaxLines
        BY <4>3, ConstantsAssumption
      <4>6. ASSUME NEW x \in 2..Len(log'[f]) PROVE log'[f][x].kind # "meta"
        <5>1. CASE x \in 2..Len(log[f])
          <6>1. x \in 1..Len(log[f])
            BY <5>1
          <6> QED
            BY <4>4, <5>1, <6>1 DEF FilesShort
        <5>2. CASE x = Len(log[f]) + 1
          <6>1. log[f] # <<>>
            BY <4>3, <5>2
          <6>2. k # "meta"
            BY <4>1, <6>1, ConstantsAssumption
          <6> QED
            BY <4>2, <4>4, <5>2, <6>2
        <5> QED
          BY <4>3, <4>4, <5>1, <5>2
      <4> QED
        BY <4>4, <4>5, <4>6
    <3>2. CASE EndLine(f)
      BY <3>2, <2>1 DEF EndLine
    <3>3. CASE Replace(f)
      <4>1. log'[f] = <<>>
        BY <1>0, <3>3 DEF Replace, TypeOK
      <4> QED
        BY <4>1, ConstantsAssumption
    <3> QED
      BY <3>1, <3>2, <3>3
  <2>3. \A g \in Files : g # f => log'[g] = log[g]
    BY <1>0 DEF BeginLine, EndLine, Replace, TypeOK
  <2> QED
    BY <2>1, <2>2, <2>3 DEF FilesShort
<1>5. SinceClaimed'
  <2>1. ASSUME NEW g \in Files
        PROVE  since'[g] >= 1 /\ (since'[g] # Forever => since[g] # Forever)
    <3>1. since[g] >= 1
      BY DEF SinceClaimed
    <3>2. CASE g = f /\ Replace(f)
      <4>1. since'[f] = IF since[f] = Forever THEN since[f] ELSE 1
        BY <1>0, <3>2 DEF Replace, TypeOK
      <4> QED
        BY <3>1, <3>2, <4>1
    <3> QED
      BY <1>3, <3>1, <3>2
  <2> QED
    BY <1>1, <2>1 DEF SinceClaimed, HeldClaims, ClaimedFiles
<1>6. ASSUME NEW g \in Files, NEW c \in Cursor, Placed(g, c), CaughtUp(g, c, since[g])
      PROVE  CaughtUp(g, c, since[g])'
  <2>1. CASE g = f /\ Replace(f)
    <3>1. gen'[f] = gen[f] + 1 /\ gen[f] \in Nat /\ c.gen \in Nat
      BY <1>0, <2>1 DEF Replace, TypeOK, Cursor
    <3>2. c.gen # gen'[f]
      BY <1>6, <2>1, <3>1 DEF Placed
    <3> QED
      BY <2>1, <3>2 DEF CaughtUp
  <2>2. CASE ~ (g = f /\ Replace(f))
    <3>1. Grown(g) /\ since'[g] = since[g] /\ since[g] \in Nat /\ 1 <= since[g]
      BY <1>0, <1>2, <1>3, <2>2 DEF SinceClaimed, TypeOK
    <3>2. \A s \in Nat : 1 <= s /\ CaughtUp(g, c, s) => CaughtUp(g, c, s)'
      BY <1>0, <1>1, <1>6, <3>1, GrownCaughtUp
    <3>3. \A s \in Nat : s = since'[g] => (CaughtUp(g, c, s)' => CaughtUp(g, c, since[g])')
      BY DEF CaughtUp
    <3> QED
      BY <1>6, <3>1, <3>2, <3>3
  <2> QED
    BY <2>1, <2>2
<1>7. AllCaughtUp(cursors)' /\ AllCaughtUp(disk.cursors)'
  BY <1>0, <1>1, <1>6 DEF AllCaughtUp, ReplayInv, AllPlaced, TypeOK
<1> QED
  BY <1>4, <1>5, <1>7

-----------------------------------------------------------------------------
(* One line is read *)

LEMMA AfterLineCaughtUp ==
  ASSUME SkipInv, NEW f \in Files, ConsumeLine(f), NEW c, c = CursorOf(cursors, f)
  PROVE  \A a : a = AfterLine(f, c) => CaughtUp(f, a, since[f])'
<1> USE DEF SkipInv
<1> DEFINE s == since[f]
           m == c.off \div 2
           n == LineAt(c.off)
           line == NextLine(f, c)
           d == AfterLine(f, c)
           first == DueFrom(c, s)
<1>0. TypeOK /\ UnfinishedIsLine /\ AgentsKnown(cursors)
  BY DEF ReplayInv, TailInv, IInv
<1>1. /\ c \in Cursor /\ cursors[f] = {c} /\ LineReady(f, c.off)
      /\ n = m + 1 /\ n \in 1..Len(log[f]) /\ line \in Line
      /\ UNCHANGED <<log, gen, since>>
      /\ \/ /\ c.off % 2 = 0 /\ Yields(c, line) /\ MatchingClaims(f, c) # {}
            /\ \E k \in MatchingClaims(f, c) : handed'[f] = Append(handed[f], EntryOf(f, c, k))
         \/ /\ ~ (c.off % 2 = 0 /\ Yields(c, line) /\ MatchingClaims(f, c) # {})
            /\ handed'[f] = handed[f]
  BY ConsumeLineFacts DEF ReplayInv
<1>2. CaughtUp(f, c, s) /\ c.agent \in {NoAgent, FileAgent[f]} /\ Placed(f, c)
  BY <1>0, <1>1 DEF AllCaughtUp, AgentsKnown, ReplayInv, AllPlaced
<1>3. /\ s \in Nat /\ 1 <= s /\ c.off \in Nat /\ m \in Nat /\ n \in Nat /\ c.off % 2 \in {0, 1}
      /\ first \in Nat /\ s <= first
  <2>1. s \in Nat /\ 1 <= s
    BY <1>0 DEF SinceClaimed, TypeOK
  <2>2. c.off \in Nat /\ n \in Nat
    BY <1>1 DEF Cursor
  <2>3. m \in Nat /\ c.off % 2 \in {0, 1}
    BY <2>2, Half
  <2> HIDE DEF s
  <2>4. first \in Nat /\ s <= first
    BY <1>1, <2>1, DueType
  <2> QED
    BY <2>1, <2>2, <2>3, <2>4
<1>4. /\ d.off = 2 * n /\ d.gen = c.gen /\ d.start = c.start
      /\ c.off % 2 # 0 => d.pending = c.pending /\ d.turn = c.turn /\ d.agent = c.agent
      /\ c.off % 2 = 0 =>
           /\ d.agent = IF line.kind = "meta" THEN FileAgent[f] ELSE c.agent
           /\ d.turn = IF line.kind = "turn" THEN TRUE
                       ELSE IF line.kind = "end" THEN FALSE ELSE c.turn
           /\ \A k \in CallIds : d.pending[k] =
                IF line.kind = "end" THEN 0
                ELSE IF line.kind = "call" /\ line.call = k THEN n
                ELSE IF line.kind = "output" /\ line.call = k THEN 0
                ELSE c.pending[k]
  <2> HIDE DEF d
  <2>1. c \in Cursor /\ LineAt(c.off) \in Nat /\ NextLine(f, c) \in Line
    BY <1>1, <1>3
  <2> QED
    BY <2>1, AfterLineFields DEF d
<1> HIDE DEF s, m, n, d, first
<1>5. d.off \div 2 = n /\ d.off % 2 = 0 /\ DueFrom(d, s) = first
  BY <1>3, <1>4 DEF DueFrom, first
<1>6. line = log[f][n]
  BY DEF NextLine, n
<1>7. /\ Entries(f) \subseteq Entries(f)'
      /\ \A e : handed'[f] = Append(handed[f], e) => e \in Entries(f)'
  <2>1. handed[f] \in Seq(HandedEntry)
    BY <1>0 DEF TypeOK
  <2>2. CASE handed'[f] = handed[f]
    <3>1. \A e : handed'[f] # Append(handed[f], e)
      BY <2>1, <2>2
    <3> QED
      BY <2>2, <3>1 DEF Entries
  <2>3. ASSUME NEW e, handed'[f] = Append(handed[f], e)
        PROVE  Entries(f) \subseteq Entries(f)' /\ e \in Entries(f)'
    <3>1. /\ DOMAIN handed'[f] = 1..Len(handed[f])+1 /\ handed'[f][Len(handed[f])+1] = e
          /\ DOMAIN handed[f] = 1..Len(handed[f]) /\ Len(handed[f]) \in Nat
          /\ \A i \in 1..Len(handed[f]) : handed'[f][i] = handed[f][i]
      <4>1. handed[f] \in Seq(HandedEntry \union {e}) /\ e \in HandedEntry \union {e}
        BY <2>1
      <4> QED
        BY <2>3, <4>1
    <3>2. Len(handed[f]) + 1 \in DOMAIN handed'[f] /\ DOMAIN handed[f] \subseteq DOMAIN handed'[f]
      BY <3>1
    <3> QED
      BY <3>1, <3>2 DEF Entries
  <2> QED
    BY <1>1, <2>2, <2>3
<1>8. ASSUME c.gen = gen[f], c.off % 2 = 0
      PROVE  /\ \A i \in first..n : log[f][i].kind = "turn" /\ SameTurn(f, i, n + 1) => d.turn
             /\ \A i \in first..n : \A k \in CallIds : OpenCall(f, k, i, n) => d.pending[k] = i
  <2>1. \A i \in first..n : i = n \/ (i \in first..m /\ n \in i+1..n)
    BY <1>1, <1>3 DEF m, n
  <2>2. \A i \in first..m : SameTurn(f, i, n + 1) => SameTurn(f, i, n) /\ log[f][n].kind # "end"
    <3>1. \A i \in first..m : n \in i+1..n+1-1 /\ \A k \in i+1..n-1 : k \in i+1..n+1-1
      BY <1>1, <1>3 DEF m, n
    <3> QED
      BY <3>1 DEF SameTurn
  <2>3. \A i \in first..m : \A k \in CallIds :
          OpenCall(f, k, i, n) =>
            /\ OpenCall(f, k, i, m)
            /\ log[f][n].kind # "end"
            /\ ~ (log[f][n].kind \in {"call", "output"} /\ log[f][n].call = k)
    <3>1. \A i \in first..m : i \in 1..m /\ n \in i+1..n /\ \A x \in i+1..m : x \in i+1..n
      BY <1>1, <1>3 DEF m, n
    <3> QED
      BY <3>1 DEF OpenCall
  <2>4. \A i \in first..m : log[f][i].kind = "turn" /\ SameTurn(f, i, n) => c.turn
    BY <1>1, <1>2, <1>8 DEF CaughtUp, first, m
  <2>5. \A i \in first..m : \A k \in CallIds : OpenCall(f, k, i, m) => c.pending[k] = i
    BY <1>2, <1>8 DEF CaughtUp, first, m
  <2> HIDE DEF line
  <2>6. ASSUME NEW i \in first..n, log[f][i].kind = "turn", SameTurn(f, i, n + 1)
        PROVE  d.turn
    BY <1>4, <1>6, <1>8, <2>1, <2>2, <2>4, <2>6
  <2>7. ASSUME NEW i \in first..n, NEW k \in CallIds, OpenCall(f, k, i, n)
        PROVE  d.pending[k] = i
    <3>1. CASE i = n
      BY <1>4, <1>6, <1>8, <2>7, <3>1 DEF OpenCall
    <3>2. CASE i \in first..m
      BY <1>4, <1>6, <1>8, <2>3, <2>5, <2>7, <3>2
    <3> QED
      BY <2>1, <3>1, <3>2
  <2> QED
    BY <2>6, <2>7
<1>9. ASSUME c.gen = gen[f], c.off % 2 = 1
      PROVE  \A i \in first..n : FALSE
  BY <1>1, <1>2, <1>3, <1>9 DEF CaughtUp, first, m
\* The line just read was handed over, if it is due.
<1>10. ASSUME c.gen = gen[f], d.agent # NoAgent, s <= n, Recordable(f, first, n)
       PROVE  \E e \in Entries(f)' : e.gen = gen[f] /\ e.line = n
  <2>1. c.off % 2 = 0
    <3>1. \E i \in first..n-1 : TRUE
      BY <1>10 DEF Recordable
    <3>2. \E i \in first..n : TRUE
      BY <1>3, <3>1
    <3> QED
      BY <1>3, <1>9, <1>10, <3>2
  <2>2. line.kind \in {"message", "output"} /\ line.call \in CallIds
    BY <1>1, <1>6, <1>10 DEF Recordable, Line
  <2>3. c.agent = FileAgent[f] /\ c.agent # NoAgent
    BY <1>2, <1>4, <1>10, <2>1, <2>2
  <2>4. MatchingClaims(f, c) # {}
    <3>1. since[f] # Forever
      <4>1. Len(log[f]) \in Nat /\ Len(log[f]) < Forever
        BY <1>0, ForeverLate
      <4> QED
        BY <1>1, <1>3, <1>10, <4>1, ConstantsAssumption DEF s, Forever
    <3>2. up
      BY DEF ConsumeLine, ReplayInv, TailInv, IInv, OpenHasCursor
    <3> QED
      BY <2>3, <3>1, <3>2 DEF SinceClaimed, HeldClaims, ClaimedFiles, MatchingClaims
  <2>5. Yields(c, line)
    <3>1. \A i \in first..n-1 : i \in first..m /\ i # 0 /\ i \in 1..m
      BY <1>1, <1>3 DEF m, n
    <3>2. CASE line.kind = "message"
      <4>1. PICK i \in first..n-1 : log[f][i].kind = "turn" /\ SameTurn(f, i, n)
        BY <1>6, <1>10, <3>2 DEF Recordable
      <4>2. c.turn
        BY <1>1, <1>2, <1>10, <3>1, <4>1 DEF CaughtUp, first, m
      <4> QED
        BY <3>2, <4>2 DEF Yields
    <3>3. CASE line.kind = "output"
      <4>1. PICK i \in first..n-1 : Completes(f, i, n)
        BY <1>6, <1>10, <3>3 DEF Recordable
      <4>2. OpenCall(f, line.call, i, m)
        <5>1. i \in 1..m /\ \A x \in i+1..m : x \in i+1..n-1
          BY <1>1, <1>3, <3>1, <4>1
        <5> QED
          BY <1>6, <4>1, <5>1 DEF Completes, SameTurn, OpenCall
      <4>3. c.pending[line.call] = i
        BY <1>2, <1>10, <2>2, <3>1, <4>1, <4>2 DEF CaughtUp, first, m
      <4> QED
        BY <3>1, <3>3, <4>1, <4>3 DEF Yields
    <3> QED
      BY <2>2, <3>2, <3>3
  <2>6. PICK k \in MatchingClaims(f, c) : handed'[f] = Append(handed[f], EntryOf(f, c, k))
    BY <1>1, <2>1, <2>4, <2>5
  <2>7. EntryOf(f, c, k) \in Entries(f)' /\ EntryOf(f, c, k).gen = c.gen /\ EntryOf(f, c, k).line = n
    BY <1>7, <2>6 DEF EntryOf, n
  <2> QED
    BY <1>10, <2>7
<1>11. ASSUME c.gen = gen[f], d.agent # NoAgent, NEW j \in s..n, Recordable(f, first, j)
       PROVE  \E e \in Entries(f)' : e.gen = gen[f] /\ e.line = j
  <2>1. CASE j = n
    <3>1. s <= n
      BY <1>3, <1>11
    <3> QED
      BY <1>10, <1>11, <2>1, <3>1
  <2>2. CASE j # n
    <3>1. j \in s..m
      BY <1>1, <1>3, <2>2
    <3>2. c.agent # NoAgent
      <4>1. CASE c.agent # d.agent
        <5>1. line.kind = "meta"
          BY <1>3, <1>4, <4>1
        <5>2. ~ (n \in 2..Len(log[f]))
          BY <1>0, <1>6, <5>1 DEF FilesShort
        <5>3. n = 1
          BY <1>1, <1>3, <5>2
        <5> QED
          BY <1>1, <1>3, <3>1, <5>3
      <4> QED
        BY <1>11, <4>1
    <3>3. \E e \in Entries(f) : e.gen = gen[f] /\ e.line = j
      BY <1>2, <1>11, <3>1, <3>2 DEF CaughtUp, first, m
    <3> QED
      BY <1>7, <3>3
  <2> QED
    BY <2>1, <2>2
<1>12. ASSUME c.gen = gen[f]
       PROVE  /\ \A i \in first..n : log[f][i].kind = "turn" /\ SameTurn(f, i, n + 1) => d.turn
              /\ \A i \in first..n : \A k \in CallIds : OpenCall(f, k, i, n) => d.pending[k] = i
  <2>1. CASE c.off % 2 = 0
    BY <1>8, <1>12, <2>1
  <2>2. CASE c.off % 2 = 1
    BY <1>9, <1>12, <2>2
  <2> QED
    BY <1>3, <2>1, <2>2
<1>13. UNCHANGED <<log, gen, since>>
  BY <1>1
<1>14. /\ \A i, j : SameTurn(f, i, j)' <=> SameTurn(f, i, j)
       /\ \A k, i, j : OpenCall(f, k, i, j)' <=> OpenCall(f, k, i, j)
       /\ \A i, j : Recordable(f, i, j)' <=> Recordable(f, i, j)
  BY <1>13 DEF SameTurn, OpenCall, Recordable, Completes
<1> HIDE DEF line
<1>15. d.gen = gen[f] =>
         /\ d.off % 2 = 1 => DueFrom(d, s) > d.off \div 2 + 1
         /\ \A i \in DueFrom(d, s) .. d.off \div 2 :
              log[f][i].kind = "turn" /\ SameTurn(f, i, d.off \div 2 + 1) => d.turn
         /\ \A i \in DueFrom(d, s) .. d.off \div 2 : \A k \in CallIds :
              OpenCall(f, k, i, d.off \div 2) => d.pending[k] = i
         /\ d.agent # NoAgent =>
              \A j \in s .. d.off \div 2 :
                Recordable(f, DueFrom(d, s), j) =>
                  \E e \in Entries(f)' : e.gen = gen[f] /\ e.line = j
  BY <1>4, <1>5, <1>11, <1>12
<1> QED
  <2> SUFFICES ASSUME NEW a, a = d
               PROVE  CaughtUp(f, a, since[f])'
    BY DEF d
  <2>1. s = since'[f]
    BY <1>13 DEF s
  <2> QED
    BY <1>13, <1>14, <1>15, <2>1 DEF CaughtUp

LEMMA ConsumeLineSkip ==
  ASSUME SkipInv, ReplayInv', NEW f \in Files, ConsumeLine(f)
  PROVE  SkipInv'
<1> USE DEF SkipInv
<1> DEFINE c == CursorOf(cursors, f)
           d == AfterLine(f, c)
<1>0. TypeOK
  BY DEF ReplayInv, TailInv, IInv
<1>1. /\ UNCHANGED <<log, unfinished, gen, up, disk, claims, since>>
      /\ cursors'[f] = {d}
      /\ \A g \in Files : g # f => cursors'[g] = cursors[g] /\ handed'[g] = handed[g]
      /\ \/ \E k \in MatchingClaims(f, c) : handed'[f] = Append(handed[f], EntryOf(f, c, k))
         \/ handed'[f] = handed[f]
  BY ConsumeLineFacts DEF ReplayInv
<1>2. \A a : a = d => CaughtUp(f, a, since[f])'
  BY AfterLineCaughtUp
<1>3. \A g \in Files : Entries(g) \subseteq Entries(g)'
  <2>1. handed[f] \in Seq(HandedEntry)
    BY <1>0 DEF TypeOK
  <2>2. ASSUME NEW e, handed'[f] = Append(handed[f], e)
        PROVE  Entries(f) \subseteq Entries(f)'
    <3>1. handed[f] \in Seq(HandedEntry \union {e}) /\ e \in HandedEntry \union {e}
      BY <2>1
    <3>2. DOMAIN handed[f] \subseteq DOMAIN handed'[f]
          /\ \A i \in DOMAIN handed[f] : handed'[f][i] = handed[f][i]
      BY <2>2, <3>1
    <3> QED
      BY <3>2 DEF Entries
  <2>3. Entries(f) \subseteq Entries(f)'
    BY <1>1, <2>2 DEF Entries
  <2> QED
    BY <1>1, <2>3 DEF Entries
<1>4. \A g \in Files : \A b \in cursors[g] \union disk.cursors[g] : CaughtUp(g, b, since[g])'
  <2>1. \A g \in Files : \A b, s : CaughtUp(g, b, s) => CaughtUp(g, b, s)'
    BY <1>1, <1>3, CaughtUpKept
  <2>2. \A g \in Files : \A b, s : s = since[g] => (CaughtUp(g, b, s)' => CaughtUp(g, b, since[g])')
    BY <1>1 DEF CaughtUp
  <2> QED
    BY <2>1, <2>2 DEF AllCaughtUp
<1>5. AllCaughtUp(cursors)' /\ AllCaughtUp(disk.cursors)'
  <2> HIDE DEF c, d
  <2> SUFFICES ASSUME NEW g \in Files, NEW a,
                      a \in cursors'[g] \union disk'.cursors[g]
               PROVE  CaughtUp(g, a, since[g])'
    BY DEF AllCaughtUp
  <2>1. CASE a \in disk'.cursors[g] \/ g # f
    <3>1. a \in cursors[g] \union disk.cursors[g]
      BY <1>1, <2>1
    <3> QED
      BY <1>4, <3>1
  <2>2. CASE g = f /\ a \in cursors'[g]
    <3>1. a = d
      BY <1>1, <2>2
    <3>2. CaughtUp(f, a, since[f])'
      BY <1>2, <3>1
    <3> QED
      BY <2>2, <3>2
  <2> QED
    BY <2>1, <2>2
<1>6. FilesShort' /\ SinceClaimed'
  BY <1>1 DEF FilesShort, SinceClaimed, HeldClaims, ClaimedFiles
<1> QED
  BY <1>5, <1>6

-----------------------------------------------------------------------------

LEMMA InitSkip == Init => SkipInv
<1> SUFFICES ASSUME Init PROVE SkipInv
  OBVIOUS
<1>1. ReplayInv
  BY InitReplay
<1>2. AllCaughtUp(cursors) /\ AllCaughtUp(disk.cursors)
  BY DEF Init, AllCaughtUp, NoDisk, NoCursors
<1>3. \A f \in Files : log[f] = <<>> /\ since[f] = Forever
  BY DEF Init
<1>4. MaxLines \in Nat
  BY ConstantsAssumption
<1>5. FilesShort
  BY <1>3, <1>4 DEF FilesShort
<1>6. SinceClaimed
  BY <1>3, <1>4 DEF SinceClaimed, Forever, Init
<1> QED
  BY <1>1, <1>2, <1>5, <1>6 DEF SkipInv

LEMMA NextSkip == SkipInv /\ [Next]_vars => SkipInv'
<1> SUFFICES ASSUME SkipInv, [Next]_vars PROVE SkipInv'
  OBVIOUS
<1>0. ReplayInv'
  BY NextReplay DEF SkipInv
<1>1. CASE Operator
  BY <1>0, <1>1, EnableSkip DEF Operator
<1>2. CASE PollStep
  BY <1>0, <1>2, PollSkip, OpenFileSkip, ConsumeLineSkip DEF PollStep
<1>3. CASE \E f \in Files : SkipFile(f)
  BY <1>0, <1>3, PollSkip
<1>4. CASE Agent
  BY <1>0, <1>4, AgentSkip DEF Agent
<1>5. CASE Crash \/ Start
  BY <1>0, <1>5, ProcessSkip
<1>6. CASE UNCHANGED vars
  <2>1. UNCHANGED <<log, unfinished, gen, handed, since, up, claims, disk, cursors>>
    BY <1>6 DEF vars
  <2>2. SinceClaimed'
    BY <2>1 DEF SkipInv, SinceClaimed, HeldClaims, ClaimedFiles
  <2>3. \A f \in Files : \A c \in cursors'[f] \union disk'.cursors[f] : CaughtUp(f, c, since'[f])
    BY <2>1 DEF SkipInv, AllCaughtUp
  <2> QED
    BY <1>0, <2>1, <2>2, <2>3, QuietSkip
<1> QED
  BY <1>1, <1>2, <1>3, <1>4, <1>5, <1>6 DEF Next

(* Every line begun after its agent was claimed and now behind the cursor    *)
(* was handed over, if an uninterrupted reader would record it, whatever     *)
(* crashes, failed saves, reloads and other claims come between.             *)
THEOREM NoLineIsSkipped == Spec => []NothingSkipped
<1>1. SkipInv => NothingSkipped
  <2> SUFFICES ASSUME SkipInv PROVE NothingSkipped
    OBVIOUS
  <2>1. \A f \in Files : \A c : DueFrom(c, since[f]) = FirstDue(f, c)
    BY DEF DueFrom, FirstDue
  <2> QED
    BY <2>1 DEF SkipInv, AllCaughtUp, CaughtUp, NothingSkipped
<1>2. Spec => []SkipInv
  BY InitSkip, NextSkip, PTL DEF Spec
<1> QED
  BY <1>1, <1>2, PTL

=============================================================================
