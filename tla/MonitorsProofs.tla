--------------------------- MODULE MonitorsProofs ---------------------------
(***************************************************************************)
(* The OpenAgent and the Cowork monitor, for any logs, claims and bounds:  *)
(* that the types hold and that patching never replays what was logged     *)
(* before; and, for OpenAgent, that everything read since is reported      *)
(* once, in its session and with its outcome.  The inductive invariants    *)
(* relate each position to the line the promise begins at, in memory and   *)
(* in the state file.  The OpenAgent monitor also implements LogTail.      *)
(***************************************************************************)
EXTENDS OpenAgentMonitor, CoworkMonitor, FiniteSetTheorems, WellFoundedInduction, TLAPS

(***************************************************************************)
(* The OpenAgent monitor: the invariant.                                   *)
(***************************************************************************)

AuditSessions == {Unnamed} \cup {e.session : e \in AuditEntries}
AuditPosition == [offset : Nat, session : AuditSessions, gen : Nat, seed : Nat]
AuditRecord == [file : AuditFiles, gen : Nat, line : Nat, claim : AuditClaims \cup {NoAudit},
                session : AuditSessions, outcome : {"", "denied", "reported"}, run : Nat]

AuditTyped ==
  /\ auditLog \in [AuditFiles -> Seq(AuditEntries)]
  /\ auditHalf \in [AuditFiles -> BOOLEAN]
  /\ auditGen \in [AuditFiles -> Nat]
  /\ claimedAt \in [AuditFiles -> Nat]
  /\ auditUp \in {"down", "deaf", "up"}
  /\ auditScan \in [todo : SUBSET AuditFiles, at : AuditFiles \cup {NoAudit},
                    claim : AuditClaims \cup {NoAudit}, on : BOOLEAN]
  /\ auditClaims \subseteq AuditClaims
  /\ auditCursors \in [AuditFiles -> SUBSET AuditPosition]
  /\ auditDirty \in BOOLEAN
  /\ auditDisk \in [claims : SUBSET AuditClaims, cursors : [AuditFiles -> SUBSET AuditPosition],
                    torn : BOOLEAN]
  /\ reported \in Seq(AuditRecord)
  /\ auditRun \in Nat /\ auditFaults \in 0..MaxAuditFaults

HalfIsALine == \A f \in AuditFiles : auditHalf[f] => auditLog[f] # <<>>

\* At most one cursor for each log.
OneAuditCursor(cs) == \A f \in AuditFiles : \A c, d \in cs[f] : c = d

\* A position is where a line ends or where it was seeded, and within the log
\* if the log still holds what it counts.
AuditPlaced(f, c) ==
  /\ c.seed <= c.offset
  /\ c.offset % 2 = 1 => c.offset = c.seed
  /\ c.gen <= auditGen[f]
  /\ c.gen = auditGen[f] => c.offset <= AuditSize(f)

\* What lies between the seed and the position is reported, and the session
\* carried is the one named last in between.
AuditFirst(c) == (c.seed + 3) \div 2
AuditTold(f, c) ==
  c.gen = auditGen[f] =>
    /\ \A i \in AuditFirst(c) .. c.offset \div 2 :
         YieldsRecord(auditLog[f][i]) => ReportedAs(f, i, AuditFirst(c))
    /\ LET named == NamedIn(f, AuditFirst(c), c.offset \div 2)
       IN named # {} => c.session = auditLog[f][Max(named)].session

AuditKept(cs) == \A f \in AuditFiles : \A c \in cs[f] : AuditPlaced(f, c) /\ AuditTold(f, c)

\* Where a directory is claimed, the next whole line was begun since; a log
\* that has changed since, or was not there, is new from its top.
AuditAhead(claims, cs) ==
  \A f \in AuditFiles : (\E k \in claims : AuditDirOf[k] = AuditDirOf[f]) =>
    /\ cs[f] = {} => claimedAt[f] = 1
    /\ \A c \in cs[f] : /\ claimedAt[f] <= (c.offset + 3) \div 2
                        /\ c.gen # auditGen[f] => claimedAt[f] = 1

\* A poll visits logs of claimed directories; the one it reads has a cursor.
AuditScanned ==
  /\ \A f \in auditScan.todo : AuditClaimsOn(AuditDirOf[f]) # {}
  /\ auditScan.at # NoAudit =>
       AuditClaimsOn(AuditDirOf[auditScan.at]) # {} /\ auditCursors[auditScan.at] # {}
  /\ auditScan.on => auditUp = "up"
  /\ ~auditScan.on => auditScan.todo = {} /\ auditScan.at = NoAudit

\* What this run has reported of the present contents lies behind the cursor.
AuditBehind ==
  \A k \in DOMAIN reported :
    LET r == reported[k]
    IN /\ r.run <= auditRun /\ r.gen <= auditGen[r.file]
       /\ auditUp # "down" /\ r.run = auditRun /\ r.gen = auditGen[r.file] =>
            \E c \in auditCursors[r.file] : 2 * r.line <= c.offset /\ c.offset <= AuditSize(r.file)

AuditOnce ==
  \A j, k \in DOMAIN reported :
    /\ reported[j].file = reported[k].file /\ reported[j].gen = reported[k].gen
    /\ reported[j].line = reported[k].line /\ reported[j].run = reported[k].run
    => j = k

\* What memory and what the state file say of claims and cursors is sound.
AuditGood(claims, cs) == OneAuditCursor(cs) /\ AuditKept(cs) /\ AuditAhead(claims, cs)

AuditInv ==
  /\ AuditTyped /\ HalfIsALine
  /\ AuditGood(auditClaims, auditCursors) /\ AuditGood(auditDisk.claims, auditDisk.cursors)
  /\ AuditScanned /\ AuditBehind /\ AuditOnce

-----------------------------------------------------------------------------
(* Lemmas about sequences, offsets and the records of a line.               *)

\* Listing a finite set gives a sequence of its elements, each once.
LEMMA ListsTheSet ==
  ASSUME NEW S, IsFiniteSet(S)
  PROVE  /\ SetToSeq(S) \in Seq(S)
         /\ Len(SetToSeq(S)) = Cardinality(S)
         /\ \A i, j \in 1..Cardinality(S) : SetToSeq(S)[i] = SetToSeq(S)[j] => i = j
<1>1. Cardinality(S) \in Nat /\ \E f : f \in Bijection(1..Cardinality(S), S)
  BY FS_CardinalityType DEF ExistsBijection
<1>2. \E f \in [1..Cardinality(S) -> S] : IsInjective(f)
  BY <1>1 DEF Bijection, Injection, IsInjective
<1>3. SetToSeq(S) \in [1..Cardinality(S) -> S] /\ IsInjective(SetToSeq(S))
  BY <1>2 DEF SetToSeq
<1> QED
  BY <1>1, <1>3 DEF IsInjective

LEMMA ListsOfOne ==
  /\ SetToSeq({}) = <<>>
  /\ \A x : SetToSeq({x}) = <<x>>
<1>1. SetToSeq({}) = <<>>
  <2>1. IsFiniteSet({}) /\ Cardinality({}) = 0
    BY FS_EmptySet
  <2>2. SetToSeq({}) \in Seq({}) /\ Len(SetToSeq({})) = 0
    BY <2>1, ListsTheSet
  <2> QED
    BY <2>2
<1>2. ASSUME NEW x PROVE SetToSeq({x}) = <<x>>
  <2>1. IsFiniteSet({x}) /\ Cardinality({x}) = 1
    BY FS_Singleton
  <2>2. SetToSeq({x}) \in Seq({x}) /\ Len(SetToSeq({x})) = 1
    BY <2>1, ListsTheSet
  <2> QED
    BY <2>2
<1> QED
  BY <1>1, <1>2

\* The greatest of a set is the one no other exceeds.
LEMMA MaxIs ==
  ASSUME NEW S \in SUBSET Nat, NEW x \in S, \A y \in S : y <= x
  PROVE  Max(S) = x
<1>1. \A z \in S : (\A y \in S : z >= y) => z = x
  OBVIOUS
<1>2. \A y \in S : x >= y
  OBVIOUS
<1> QED
  BY <1>1, <1>2 DEF Max

LEMMA AuditSizeOf ==
  ASSUME AuditTyped, HalfIsALine, NEW f \in AuditFiles
  PROVE  /\ AuditSize(f) \in Nat /\ Len(auditLog[f]) \in Nat
         /\ AuditSize(f) = 2 * Len(auditLog[f])
              \/ (AuditSize(f) = 2 * Len(auditLog[f]) - 1 /\ Len(auditLog[f]) >= 1 /\ auditHalf[f])
<1>1. auditLog[f] \in Seq(AuditEntries) /\ Len(auditLog[f]) \in Nat
  BY DEF AuditTyped
<1>2. CASE auditHalf[f]
  <2>1. AuditSize(f) = 2 * Len(auditLog[f]) - 1
    BY <1>2 DEF AuditSize
  <2>2. Len(auditLog[f]) >= 1
    BY <1>1, <1>2 DEF HalfIsALine
  <2> QED
    BY <1>1, <1>2, <2>1, <2>2
<1>3. CASE ~auditHalf[f]
  <2>1. AuditSize(f) = 2 * Len(auditLog[f])
    BY <1>1, <1>3 DEF AuditSize
  <2> QED
    BY <1>1, <2>1
<1> QED
  BY <1>2, <1>3

-----------------------------------------------------------------------------
(* The records of one line.                                                 *)

AuditRecordOf(f, c, e) ==
  [file |-> f, gen |-> auditGen[f], line |-> AuditLineAt(c.offset), claim |-> auditScan.claim,
   session |-> SessionAfter(c, {e}), outcome |-> AuditOutcome(e), run |-> auditRun]

\* A line yields one record or none.
LEMMA AuditLineRecords ==
  ASSUME AuditInv, ConsumeAuditLine
  PROVE  LET f == auditScan.at
             c == AuditCursor(f)
             n == AuditLineAt(c.offset)
             e == auditLog[f][n]
         IN /\ f \in AuditFiles /\ auditCursors[f] = {c} /\ c \in AuditPosition
            /\ n \in 1..Len(auditLog[f]) /\ e \in AuditEntries
            /\ 2 * n = c.offset + 2 \/ 2 * n = c.offset + 1
            /\ 2 * n <= AuditSize(f)
            /\ auditCursors' = [auditCursors EXCEPT ![f] =
                 {[c EXCEPT !.offset = 2 * n,
                            !.session = IF c.offset % 2 = 1 THEN c.session
                                        ELSE SessionAfter(c, {e})]}]
            /\ reported' = IF c.offset % 2 = 0 /\ YieldsRecord(e)
                           THEN Append(reported, AuditRecordOf(f, c, e)) ELSE reported
<1> DEFINE f == auditScan.at
           c == AuditCursor(f)
           n == AuditLineAt(c.offset)
           e == auditLog[f][n]
           said == AuditEntryAt(f, c.offset)
           rec(x) == [file |-> f, gen |-> auditGen[f], line |-> n, claim |-> auditScan.claim,
                      session |-> SessionAfter(c, said), outcome |-> AuditOutcome(x),
                      run |-> auditRun]
           S == {rec(x) : x \in {x \in said : YieldsRecord(x)}}
<1>1. f \in AuditFiles /\ auditCursors[f] # {} /\ auditCursors[f] \in SUBSET AuditPosition
  BY DEF AuditInv, AuditTyped, AuditScanned, ConsumeAuditLine
<1>2. auditCursors[f] = {c} /\ c \in AuditPosition
  BY <1>1 DEF AuditInv, AuditGood, OneAuditCursor, AuditCursor
<1>3. WholeAuditLine(f, c.offset)
      /\ auditCursors' = [auditCursors EXCEPT
           ![f] = {[c EXCEPT !.offset = 2 * n, !.session = SessionAfter(c, said)]}]
      /\ reported' = reported \o SetToSeq(S)
  BY DEF ConsumeAuditLine
<1>4. /\ auditLog[f] \in Seq(AuditEntries) /\ Len(auditLog[f]) \in Nat /\ auditHalf[f] \in BOOLEAN
      /\ reported \in Seq(AuditRecord)
  BY <1>1 DEF AuditInv, AuditTyped
<1>5. n \in Nat /\ (2 * n = c.offset + 2 \/ 2 * n = c.offset + 1)
      /\ (c.offset % 2 = 1 => 2 * n = c.offset + 1) /\ 1 <= n
  BY <1>2 DEF AuditLineAt, AuditPosition
<1>6. n <= Len(auditLog[f]) /\ 2 * n <= AuditSize(f)
  <2>1. n < Len(auditLog[f]) \/ (n = Len(auditLog[f]) /\ ~auditHalf[f])
    BY <1>3 DEF WholeAuditLine
  <2>2. /\ AuditSize(f) \in Nat
        /\ \/ AuditSize(f) = 2 * Len(auditLog[f])
           \/ AuditSize(f) = 2 * Len(auditLog[f]) - 1 /\ auditHalf[f]
    BY <1>1, AuditSizeOf DEF AuditInv
  <2> HIDE DEF n
  <2> QED
    BY <1>4, <1>5, <2>1, <2>2
<1>7. n \in 1..Len(auditLog[f]) /\ e \in AuditEntries
  BY <1>4, <1>5, <1>6
<1>0. reported \o <<>> = reported
  BY <1>4
<1> HIDE DEF S
<1>8. CASE c.offset % 2 = 1
  <2>1. said = {}
    BY <1>8 DEF AuditEntryAt
  <2>2. S = {} /\ SessionAfter(c, said) = c.session
    BY <2>1 DEF SessionAfter, S
  <2>3. SetToSeq(S) = <<>>
    BY <2>2, ListsOfOne
  <2>4. reported' = reported
    BY <1>0, <1>3, <2>3
  <2>5. ~(c.offset % 2 = 0 /\ YieldsRecord(e))
    BY <1>8
  <2> HIDE DEF f, c, n, e, said
  <2> QED
    BY <1>1, <1>2, <1>3, <1>5, <1>6, <1>7, <1>8, <2>2, <2>4, <2>5 DEF f, c, n, e
<1>9. CASE c.offset % 2 # 1
  <2>1. said = {e} /\ c.offset % 2 = 0
    BY <1>2, <1>9 DEF AuditEntryAt, AuditPosition
  <2>4. SessionAfter(c, said) = IF c.offset % 2 = 1 THEN c.session ELSE SessionAfter(c, {e})
    BY <2>1, <1>9
  <2> HIDE DEF f, c, n, e, said
  <2>2. CASE YieldsRecord(e)
    <3>1. S = {AuditRecordOf(f, c, e)}
      BY <2>1, <2>2 DEF AuditRecordOf, S, n
    <3>3. SetToSeq(S) = <<AuditRecordOf(f, c, e)>>
      BY <3>1, ListsOfOne
    <3>4. reported' = Append(reported, AuditRecordOf(f, c, e))
      BY <1>3, <1>4, <3>3
    <3> QED
      BY <1>1, <1>2, <1>3, <1>5, <1>6, <1>7, <2>1, <2>2, <2>4, <3>4 DEF f, c, n, e
  <2>3. CASE ~YieldsRecord(e)
    <3>1. S = {}
      BY <2>1, <2>3 DEF S
    <3>2. SetToSeq(S) = <<>>
      BY <3>1, ListsOfOne
    <3>3. reported' = reported
      BY <1>0, <1>3, <3>2
    <3> QED
      BY <1>1, <1>2, <1>3, <1>5, <1>6, <1>7, <2>1, <2>3, <2>4, <3>3 DEF f, c, n, e
  <2> QED
    BY <2>2, <2>3
<1> QED
  BY <1>8, <1>9

LEMMA MaxOfNaturals ==
  ASSUME NEW S \in SUBSET Nat, S # {}, NEW n \in Nat, \A x \in S : x <= n
  PROVE  Max(S) \in S /\ \A x \in S : x <= Max(S)
<1> DEFINE T == {n - x : x \in S}
<1>1. T \subseteq Nat /\ T # {}
  <2>1. ASSUME NEW x \in S PROVE n - x \in Nat
    <3>1. x \in Nat /\ x <= n
      OBVIOUS
    <3> QED
      BY <3>1
  <2>2. PICK x \in S : TRUE
    OBVIOUS
  <2> QED
    BY <2>1, <2>2
<1> HIDE DEF T
<1>2. PICK t \in T : \A y \in T : ~ (<<y, t>> \in OpToRel(<, Nat))
  BY <1>1, NatLessThanWellFounded, WFMin, Zenon
<1>3. \A y \in T : t <= y
  <2> TAKE y \in T
  <2>1. <<y, t>> \notin OpToRel(<, Nat)
    BY <1>2
  <2>2. t \in Nat /\ y \in Nat
    BY <1>1
  <2>3. ~ (y < t)
    BY <2>1, <2>2, Zenon DEF OpToRel
  <2> QED
    BY <2>2, <2>3
<1>4. PICK x \in S : t = n - x
  BY DEF T
<1>5. \A z \in S : z <= x
  BY SMTT(40), <1>3, <1>4 DEF T
<1> QED
  BY <1>5, MaxIs

-----------------------------------------------------------------------------
(* What a step leaves of the promises about a position.                     *)

\* The log keeps the lines up to n, and what was reported stays reported.
LogKeeps(f, n) ==
  /\ auditGen'[f] = auditGen[f]
  /\ \A i \in 1..n : auditLog'[f][i] = auditLog[f][i]
ReportsGrow ==
  \A k \in DOMAIN reported : k \in DOMAIN reported' /\ reported'[k] = reported[k]

LEMMA NamedKept ==
  ASSUME NEW f, NEW first \in Nat, NEW i \in Nat, 1 <= first, LogKeeps(f, i)
  PROVE  /\ NamedIn(f, first, i)' = NamedIn(f, first, i)
         /\ NamedIn(f, first, i) \in SUBSET (first..i)
         /\ NamedIn(f, first, i) # {} =>
              /\ Max(NamedIn(f, first, i)) \in NamedIn(f, first, i)
              /\ auditLog'[f][Max(NamedIn(f, first, i))] = auditLog[f][Max(NamedIn(f, first, i))]
<1> DEFINE S == NamedIn(f, first, i)
<1>1. \A j \in first..i : j \in 1..i /\ auditLog'[f][j] = auditLog[f][j]
  BY DEF LogKeeps
<1>2. NamedIn(f, first, i)' = S
  BY <1>1 DEF NamedIn
<1>3. S \in SUBSET (first..i)
  BY DEF NamedIn
<1>4. ASSUME S # {} PROVE Max(S) \in S
  <2>1. S \in SUBSET Nat /\ \A x \in S : x <= i
    BY <1>3
  <2> HIDE DEF S
  <2> QED
    BY <1>4, <2>1, MaxOfNaturals
<1> QED
  BY <1>1, <1>2, <1>3, <1>4

LEMMA ReportedKept ==
  ASSUME NEW f, NEW first \in Nat, NEW i \in Nat, 1 <= first, first <= i, LogKeeps(f, i),
         ReportsGrow, ReportedAs(f, i, first)
  PROVE  ReportedAs(f, i, first)'
<1> DEFINE S == NamedIn(f, first, i)
<1>1. /\ NamedIn(f, first, i)' = S
      /\ S # {} => auditLog'[f][Max(S)] = auditLog[f][Max(S)]
  BY NamedKept
<1>2. auditLog'[f][i] = auditLog[f][i] /\ auditGen'[f] = auditGen[f]
  BY DEF LogKeeps
<1> HIDE DEF S
<1>3. PICK k \in DOMAIN reported :
        /\ reported[k].file = f /\ reported[k].gen = auditGen[f] /\ reported[k].line = i
        /\ reported[k].outcome = AuditOutcome(auditLog[f][i])
        /\ S # {} => reported[k].session = auditLog[f][Max(S)].session
  BY DEF ReportedAs, S
<1>4. k \in DOMAIN reported' /\ reported'[k] = reported[k]
  BY DEF ReportsGrow
<1>5. AuditOutcome(auditLog[f][i])' = AuditOutcome(auditLog[f][i])
  BY <1>2 DEF AuditOutcome
<1>6. /\ reported'[k].file = f /\ reported'[k].gen = auditGen'[f] /\ reported'[k].line = i
      /\ reported'[k].outcome = AuditOutcome(auditLog[f][i])'
      /\ NamedIn(f, first, i)' # {} =>
           reported'[k].session = auditLog'[f][Max(NamedIn(f, first, i)')].session
  BY <1>1, <1>2, <1>3, <1>4, <1>5
<1> QED
  BY <1>4, <1>6 DEF ReportedAs

LEMMA PromisesKept ==
  ASSUME NEW f, NEW c \in AuditPosition, LogKeeps(f, c.offset \div 2), ReportsGrow, AuditTold(f, c)
  PROVE  AuditTold(f, c)'
<1> DEFINE m == c.offset \div 2
           first == AuditFirst(c)
<1>1. m \in Nat /\ first \in Nat /\ 1 <= first
  BY DEF AuditPosition, AuditFirst
<1> HIDE DEF m, first
<1>2. auditGen'[f] = auditGen[f] /\ \A i \in 1..m : auditLog'[f][i] = auditLog[f][i]
  BY DEF LogKeeps, m
<1>3. SUFFICES ASSUME c.gen = auditGen[f]
               PROVE  /\ \A i \in first .. m : YieldsRecord(auditLog'[f][i]) => ReportedAs(f, i, first)'
                      /\ NamedIn(f, first, m)' # {} =>
                           c.session = auditLog'[f][Max(NamedIn(f, first, m)')].session
  BY <1>2 DEF AuditTold, AuditFirst, m, first
<1>4. /\ \A i \in first .. m : YieldsRecord(auditLog[f][i]) => ReportedAs(f, i, first)
      /\ NamedIn(f, first, m) # {} => c.session = auditLog[f][Max(NamedIn(f, first, m))].session
  BY <1>3 DEF AuditTold, m, first
<1>5. ASSUME NEW i \in first..m, YieldsRecord(auditLog'[f][i])
      PROVE  ReportedAs(f, i, first)'
  <2>1. i \in 1..m /\ i \in Nat /\ first <= i
    BY <1>1
  <2>2. LogKeeps(f, i)
    BY <1>1, <1>2, <2>1 DEF LogKeeps
  <2>3. ReportedAs(f, i, first)
    BY <1>2, <1>4, <1>5, <2>1
  <2> QED
    BY <1>1, <2>1, <2>2, <2>3, ReportedKept
<1>6. LogKeeps(f, m)
  BY DEF m
<1>7. /\ NamedIn(f, first, m)' = NamedIn(f, first, m)
      /\ NamedIn(f, first, m) # {} =>
           auditLog'[f][Max(NamedIn(f, first, m))] = auditLog[f][Max(NamedIn(f, first, m))]
  BY <1>1, <1>6, NamedKept
<1> QED
  BY <1>4, <1>5, <1>7

-----------------------------------------------------------------------------
(* Positions a step makes or keeps.                                         *)

\* A promise begins where a log is seeded, or at its top.
LEMMA PromiseBegins ==
  ASSUME NEW f \in AuditFiles, NEW s \in AuditPosition,
         s.seed = s.offset, s.gen = auditGen[f], s.offset <= AuditSize(f)
  PROVE  AuditPlaced(f, s) /\ AuditTold(f, s)
<1> DEFINE m == s.offset \div 2
           first == AuditFirst(s)
<1>1. s.offset \in Nat /\ s.gen \in Nat
  BY DEF AuditPosition
<1>2. m \in Nat /\ first \in Nat /\ first > m
  BY <1>1 DEF AuditFirst
<1> HIDE DEF m, first
<1>3. first..m = {}
  BY <1>2
<1>4. NamedIn(f, first, m) = {}
  BY <1>3 DEF NamedIn
<1>5. AuditTold(f, s)
  BY <1>3, <1>4 DEF AuditTold, m, first
<1> QED
  BY <1>1, <1>5 DEF AuditPlaced

LEMMA AtTheTop ==
  ASSUME NEW s, s.offset = 0, s.seed = 0, NEW n \in Nat
  PROVE  s.seed = s.offset /\ s.offset <= n
<1>1. 0 <= n
  OBVIOUS
<1> QED
  BY <1>1, Zenon

LEMMA SeededAtEnd ==
  ASSUME AuditInv, NEW f \in AuditFiles, NEW s, s = AuditCursorFor(f, TRUE)
  PROVE  /\ s \in AuditPosition /\ s.offset = AuditSize(f) /\ s.gen = auditGen[f]
         /\ AuditPlaced(f, s) /\ AuditTold(f, s)
         /\ Len(auditLog[f]) + 1 <= (s.offset + 3) \div 2
<1> DEFINE b == IF auditCursors[f] = {} THEN NewAuditCursor(f) ELSE AuditCursor(f)
<1>1. auditGen[f] \in Nat /\ auditCursors[f] \in SUBSET AuditPosition
  BY DEF AuditInv, AuditTyped
<1>2. NewAuditCursor(f) \in AuditPosition
  BY <1>1 DEF NewAuditCursor, AuditPosition, AuditSessions
<1>3. b \in AuditPosition
  BY <1>1, <1>2 DEF AuditCursor
<1>4. /\ AuditSize(f) \in Nat /\ Len(auditLog[f]) \in Nat
      /\ AuditSize(f) = 2 * Len(auditLog[f]) \/ AuditSize(f) = 2 * Len(auditLog[f]) - 1
  BY AuditSizeOf DEF AuditInv
<1>5. s = [b EXCEPT !.offset = AuditSize(f), !.gen = auditGen[f], !.seed = AuditSize(f)]
  BY DEF AuditCursorFor
<1> HIDE DEF b
<1>6. /\ s \in AuditPosition /\ s.offset = AuditSize(f) /\ s.gen = auditGen[f]
      /\ s.seed = AuditSize(f)
  BY <1>1, <1>3, <1>4, <1>5 DEF AuditPosition
<1>7. s.seed = s.offset /\ s.offset <= AuditSize(f)
  <2>1. s.seed = s.offset
    BY <1>6
  <2>2. AuditSize(f) <= AuditSize(f)
    BY <1>4
  <2>3. s.offset <= AuditSize(f)
    BY <1>6, <2>2, Zenon
  <2> QED
    BY <2>1, <2>3
<1>8. AuditPlaced(f, s) /\ AuditTold(f, s)
  BY <1>6, <1>7, PromiseBegins
<1>9. Len(auditLog[f]) + 1 <= (AuditSize(f) + 3) \div 2
  BY <1>4
<1> QED
  BY <1>6, <1>8, <1>9

\* Where a poll begins to read: on, or at the top of a log that is shorter.
LEMMA OpenedAt ==
  ASSUME AuditInv, NEW f \in AuditFiles, NEW s, s = AuditCursorFor(f, FALSE)
  PROVE  /\ s \in AuditPosition /\ AuditPlaced(f, s) /\ AuditTold(f, s)
         /\ \/ s \in auditCursors[f]
            \/ /\ s.offset = 0 /\ s.gen = auditGen[f]
               /\ \/ auditCursors[f] = {}
                  \/ \E c \in auditCursors[f] : c.offset > AuditSize(f)
<1>1. /\ auditGen[f] \in Nat /\ auditCursors[f] \in SUBSET AuditPosition
      /\ \A c \in auditCursors[f] : AuditPlaced(f, c) /\ AuditTold(f, c)
  BY DEF AuditInv, AuditTyped, AuditGood, AuditKept
<1>2. AuditSize(f) \in Nat
  BY AuditSizeOf DEF AuditInv
<1>3. CASE auditCursors[f] = {}
  <2>1. s = NewAuditCursor(f)
    BY <1>2, <1>3 DEF AuditCursorFor, NewAuditCursor
  <2>6. /\ NewAuditCursor(f) \in AuditPosition
        /\ NewAuditCursor(f).offset = 0 /\ NewAuditCursor(f).seed = 0
        /\ NewAuditCursor(f).gen = auditGen[f]
    BY <1>1 DEF NewAuditCursor, AuditPosition, AuditSessions
  <2>5. s \in AuditPosition
    BY <2>1, <2>6, Zenon
  <2>2. s.offset = 0 /\ s.gen = auditGen[f] /\ s.seed = 0
    BY <2>1, <2>6, Zenon
  <2>4. s.seed = s.offset /\ s.offset <= AuditSize(f)
    BY <1>2, <2>2, AtTheTop
  <2>3. AuditPlaced(f, s) /\ AuditTold(f, s)
    BY <2>2, <2>4, <2>5, PromiseBegins
  <2> QED
    BY <1>3, <2>2, <2>3, <2>5
<1>4. CASE auditCursors[f] # {}
  <2> DEFINE c == AuditCursor(f)
  <2>1. c \in auditCursors[f] /\ c \in AuditPosition
    BY <1>1, <1>4 DEF AuditCursor
  <2>2. s = IF AuditSize(f) < c.offset
            THEN [c EXCEPT !.offset = 0, !.gen = auditGen[f], !.seed = 0] ELSE c
    BY <1>4 DEF AuditCursorFor
  <2> HIDE DEF c
  <2>3. CASE AuditSize(f) < c.offset
    <3>0. s = [c EXCEPT !.offset = 0, !.gen = auditGen[f], !.seed = 0]
      BY <2>2, <2>3
    <3>6. ASSUME NEW x, x = [c EXCEPT !.offset = 0, !.gen = auditGen[f], !.seed = 0]
          PROVE  x \in AuditPosition /\ x.offset = 0 /\ x.gen = auditGen[f] /\ x.seed = 0
      BY <1>1, <2>1, <3>6 DEF AuditPosition
    <3>5. s \in AuditPosition
      BY <3>0, <3>6
    <3>1. s.offset = 0 /\ s.gen = auditGen[f] /\ s.seed = 0
      BY <3>0, <3>6
    <3>4. s.seed = s.offset /\ s.offset <= AuditSize(f)
      BY <1>2, <3>1, AtTheTop
    <3>2. AuditPlaced(f, s) /\ AuditTold(f, s)
      BY <3>1, <3>4, <3>5, PromiseBegins
    <3>3. c.offset > AuditSize(f)
      BY <1>2, <2>1, <2>3 DEF AuditPosition
    <3> QED
      BY <2>1, <3>1, <3>2, <3>3, <3>5
  <2>4. CASE ~(AuditSize(f) < c.offset)
    BY <1>1, <2>1, <2>2, <2>4
  <2> QED
    BY <2>3, <2>4
<1> QED
  BY <1>3, <1>4

\* While the logs stay and nothing reported is forgotten, no promise is lost.
LEMMA StillKept ==
  ASSUME UNCHANGED <<auditLog, auditHalf, auditGen>>, ReportsGrow,
         NEW f \in AuditFiles, NEW c \in AuditPosition, AuditPlaced(f, c), AuditTold(f, c)
  PROVE  AuditPlaced(f, c)' /\ AuditTold(f, c)'
<1>1. LogKeeps(f, c.offset \div 2)
  BY DEF LogKeeps
<1>2. AuditPlaced(f, c)'
  BY DEF AuditPlaced, AuditSize
<1> QED
  BY <1>1, <1>2, PromisesKept

LEMMA DiskFollows ==
  ASSUME AuditInv, UNCHANGED <<auditLog, auditHalf, auditGen>>, ReportsGrow,
         AuditGood(auditClaims, auditCursors)',
         \/ UNCHANGED claimedAt /\ auditDisk' \in {auditDisk, AuditTorn}
         \/ auditDisk' = [claims |-> auditClaims', cursors |-> auditCursors', torn |-> FALSE]
  PROVE  AuditGood(auditDisk.claims, auditDisk.cursors)'
<1>1. CASE UNCHANGED <<claimedAt, auditDisk>>
  <2>1. \A f \in AuditFiles : \A c \in auditDisk.cursors[f] : c \in AuditPosition
    BY DEF AuditInv, AuditTyped
  <2>2. AuditKept(auditDisk.cursors)'
    BY <1>1, <2>1, StillKept DEF AuditInv, AuditGood, AuditKept
  <2>3. OneAuditCursor(auditDisk.cursors)' /\ AuditAhead(auditDisk.claims, auditDisk.cursors)'
    BY <1>1 DEF AuditInv, AuditGood, OneAuditCursor, AuditAhead
  <2> QED
    BY <2>2, <2>3 DEF AuditGood
<1>2. CASE auditDisk' = AuditTorn
  <2>1. auditDisk'.claims = {} /\ \A f \in AuditFiles : auditDisk'.cursors[f] = {}
    BY <1>2 DEF AuditTorn
  <2> QED
    BY <2>1 DEF AuditGood, OneAuditCursor, AuditKept, AuditAhead
<1>3. CASE auditDisk' = [claims |-> auditClaims', cursors |-> auditCursors', torn |-> FALSE]
  <2>1. auditDisk'.claims = auditClaims' /\ auditDisk'.cursors = auditCursors'
    BY <1>3
  <2> QED
    BY <2>1 DEF AuditGood, OneAuditCursor, AuditKept, AuditAhead
<1> QED
  BY <1>1, <1>2, <1>3

\* A cursor that moves stays ahead of what this run has reported.
LEMMA StillBehind ==
  ASSUME AuditInv, UNCHANGED <<auditLog, auditHalf, auditGen, auditUp, reported, auditRun>>,
         \A f \in AuditFiles :
           \/ auditCursors'[f] = auditCursors[f]
           \/ \E s \in auditCursors'[f] : s.offset = AuditSize(f)
           \/ auditCursors[f] = {}
           \/ \E c \in auditCursors[f] : c.offset > AuditSize(f)
  PROVE  AuditBehind'
<1> SUFFICES ASSUME NEW k \in DOMAIN reported, auditUp # "down", reported[k].run = auditRun,
                    reported[k].gen = auditGen[reported[k].file]
             PROVE  \E c \in auditCursors'[reported[k].file] :
                      2 * reported[k].line <= c.offset /\ c.offset <= AuditSize(reported[k].file)
  BY DEF AuditInv, AuditBehind, AuditSize
<1> DEFINE f == reported[k].file
           n == reported[k].line
<1>0. reported[k] \in AuditRecord /\ auditCursors \in [AuditFiles -> SUBSET AuditPosition]
  BY DEF AuditInv, AuditTyped
<1>1. f \in AuditFiles /\ n \in Nat /\ auditCursors[f] \in SUBSET AuditPosition
  BY <1>0 DEF AuditRecord
<1>2. AuditSize(f) \in Nat
  BY <1>1, AuditSizeOf DEF AuditInv
<1>3. PICK c \in auditCursors[f] : 2 * n <= c.offset /\ c.offset <= AuditSize(f)
  BY DEF AuditInv, AuditBehind
<1>4. c.offset \in Nat /\ \A d \in auditCursors[f] : d = c
  BY <1>1, <1>3 DEF AuditInv, AuditGood, OneAuditCursor, AuditPosition
<1> HIDE DEF f, n
<1>5. \E d \in auditCursors'[f] : 2 * n <= d.offset /\ d.offset <= AuditSize(f)
  <2>1. CASE auditCursors'[f] = auditCursors[f]
    BY <1>3, <2>1
  <2>2. CASE \E s \in auditCursors'[f] : s.offset = AuditSize(f)
    <3>1. 2 * n <= AuditSize(f)
      BY <1>1, <1>2, <1>3, <1>4
    <3> QED
      BY <1>2, <2>2, <3>1
  <2>3. auditCursors[f] # {}
    BY <1>3
  <2>4. ~ \E d \in auditCursors[f] : d.offset > AuditSize(f)
    BY <1>2, <1>3, <1>4
  <2> QED
    BY <1>1, <2>1, <2>2, <2>3, <2>4
<1> QED
  BY <1>5 DEF f, n

-----------------------------------------------------------------------------
(* Types.                                                                   *)

LEMMA AuditInitInv == AuditInit => AuditInv
<1> SUFFICES ASSUME AuditInit PROVE AuditInv
  OBVIOUS
<1> USE DEF AuditInit
<1>1. AuditTyped
  <2>1. 0 \in 0..MaxAuditFaults
    <3>1. MaxAuditFaults \in Nat
      BY AuditAssumption
    <3> QED
      BY <3>1
  <2>2. auditDisk \in [claims : SUBSET AuditClaims,
                       cursors : [AuditFiles -> SUBSET AuditPosition], torn : BOOLEAN]
    BY DEF AuditBlank, AuditTorn
  <2>3. /\ auditCursors \in [AuditFiles -> SUBSET AuditPosition]
        /\ auditScan \in [todo : SUBSET AuditFiles, at : AuditFiles \cup {NoAudit},
                          claim : AuditClaims \cup {NoAudit}, on : BOOLEAN]
    BY DEF AuditBlank, AuditTorn, NoAuditScan
  <2>4. /\ auditLog \in [AuditFiles -> Seq(AuditEntries)] /\ reported \in Seq(AuditRecord)
        /\ auditHalf \in [AuditFiles -> BOOLEAN] /\ auditGen \in [AuditFiles -> Nat]
        /\ claimedAt \in [AuditFiles -> Nat]
    OBVIOUS
  <2> QED
    BY <2>1, <2>2, <2>3, <2>4 DEF AuditTyped
<1>2. HalfIsALine /\ AuditScanned /\ AuditBehind /\ AuditOnce
  BY DEF HalfIsALine, AuditScanned, AuditBehind, AuditOnce, NoAuditScan
<1>3. /\ \A f \in AuditFiles : auditCursors[f] = {} /\ auditDisk.cursors[f] = {}
      /\ auditClaims = {} /\ auditDisk.claims = {}
  BY DEF AuditBlank, AuditTorn
<1>4. AuditGood(auditClaims, auditCursors) /\ AuditGood(auditDisk.claims, auditDisk.cursors)
  BY <1>3 DEF AuditGood, OneAuditCursor, AuditKept, AuditAhead
<1> QED
  BY <1>1, <1>2, <1>4 DEF AuditInv

LEMMA SeededTyped ==
  ASSUME AuditInv, NEW logs
  PROVE  AuditSeeded(logs) \in [AuditFiles -> SUBSET AuditPosition]
<1>1. auditCursors \in [AuditFiles -> SUBSET AuditPosition]
  BY DEF AuditInv, AuditTyped
<1>2. \A f \in AuditFiles : AuditCursorFor(f, TRUE) \in AuditPosition
  BY SeededAtEnd
<1> QED
  BY <1>1, <1>2 DEF AuditSeeded

LEMMA AuditSaveTyped ==
  ASSUME AuditTyped, auditClaims' \in SUBSET AuditClaims,
         auditCursors' \in [AuditFiles -> SUBSET AuditPosition],
         AuditSaved(auditClaims', auditCursors') \/ AuditSaveFailed
  PROVE  /\ auditDisk' \in [claims : SUBSET AuditClaims,
                            cursors : [AuditFiles -> SUBSET AuditPosition], torn : BOOLEAN]
         /\ auditDirty' \in BOOLEAN /\ auditFaults' \in 0..MaxAuditFaults
<1>1. AuditTorn \in [claims : SUBSET AuditClaims,
                     cursors : [AuditFiles -> SUBSET AuditPosition], torn : BOOLEAN]
  BY DEF AuditTorn
<1>2. MaxAuditFaults \in Nat
  BY AuditAssumption
<1>3. CASE AuditSaved(auditClaims', auditCursors')
  BY <1>3 DEF AuditTyped, AuditSaved
<1>4. CASE AuditSaveFailed
  BY <1>1, <1>2, <1>4 DEF AuditTyped, AuditSaveFailed, AuditFault
<1> QED
  BY <1>3, <1>4

LEMMA AuditTypedStep ==
  ASSUME AuditInv, AuditNext
  PROVE  AuditTyped'
<1>0. AuditTyped /\ AuditScanned
  BY DEF AuditInv
<1>f. MaxAuditFaults \in Nat
  BY AuditAssumption
<1>g. AuditFault \/ UNCHANGED auditFaults => auditFaults' \in 0..MaxAuditFaults
  BY <1>0, <1>f DEF AuditFault, AuditTyped
<1>t. AuditTorn \in [claims : SUBSET AuditClaims,
                     cursors : [AuditFiles -> SUBSET AuditPosition], torn : BOOLEAN]
  BY DEF AuditTorn
<1> USE DEF auditAgentVars, auditMonitorVars
<1>1. ASSUME NEW c \in AuditClaims, EnableAudit(c) PROVE AuditTyped'
  <2>1. auditCursors' \in [AuditFiles -> SUBSET AuditPosition]
    BY <1>0, <1>1, SeededTyped DEF EnableAudit, AuditTyped
  <2>2. auditClaims' \in SUBSET AuditClaims
    BY <1>0, <1>1 DEF EnableAudit, AuditTyped
  <2>3. AuditSaved(auditClaims', auditCursors') \/ AuditSaveFailed
    BY <1>1 DEF EnableAudit
  <2>4. claimedAt' \in [AuditFiles -> Nat]
    <3>1. \A f \in AuditFiles : Len(auditLog[f]) + 1 \in Nat /\ claimedAt[f] \in Nat
      BY <1>0 DEF AuditTyped
    <3>2. \/ claimedAt' = claimedAt
          \/ claimedAt' = [f \in AuditFiles |->
               IF AuditClaimsOn(AuditDirOf[c]) = {} /\ AuditDirOf[f] = AuditDirOf[c]
               THEN Len(auditLog[f]) + 1 ELSE claimedAt[f]]
      BY <1>1 DEF EnableAudit
    <3> QED
      BY <1>0, <3>1, <3>2 DEF AuditTyped
  <2>5. UNCHANGED <<auditLog, auditHalf, auditGen, auditUp, auditScan, reported, auditRun>>
    BY <1>1 DEF EnableAudit
  <2>6. /\ auditDisk' \in [claims : SUBSET AuditClaims,
                           cursors : [AuditFiles -> SUBSET AuditPosition], torn : BOOLEAN]
        /\ auditDirty' \in BOOLEAN /\ auditFaults' \in 0..MaxAuditFaults
    BY <1>0, <2>1, <2>2, <2>3, AuditSaveTyped
  <2> QED
    BY <1>0, <2>1, <2>2, <2>4, <2>5, <2>6 DEF AuditTyped
<1>2. ASSUME NEW c \in AuditClaims, EnableAuditFails(c) PROVE AuditTyped'
  <2>1. auditCursors' \in [AuditFiles -> SUBSET AuditPosition]
    BY <1>2, SeededTyped DEF EnableAuditFails
  <2>2. auditDirty' \in BOOLEAN /\ auditFaults' \in 0..MaxAuditFaults
    BY <1>0, <1>2, <1>g DEF EnableAuditFails, AuditTyped
  <2> QED
    BY <1>0, <1>2, <2>1, <2>2 DEF EnableAuditFails, AuditTyped
<1>3. ASSUME NEW c \in AuditClaims, DisableAudit(c) PROVE AuditTyped'
  <2>1. /\ auditCursors' \in [AuditFiles -> SUBSET AuditPosition]
        /\ auditClaims' \in SUBSET AuditClaims
    BY <1>0, <1>3 DEF DisableAudit, AuditTyped
  <2>2. AuditSaved(auditClaims', auditCursors') \/ AuditSaveFailed
    BY <1>3 DEF DisableAudit
  <2>3. /\ auditDisk' \in [claims : SUBSET AuditClaims,
                           cursors : [AuditFiles -> SUBSET AuditPosition], torn : BOOLEAN]
        /\ auditDirty' \in BOOLEAN /\ auditFaults' \in 0..MaxAuditFaults
    BY <1>0, <2>1, <2>2, AuditSaveTyped
  <2> QED
    BY <1>0, <1>3, <2>1, <2>3 DEF DisableAudit, AuditTyped
<1>4. CASE BeginAuditPoll
  <2>1. PICK todo \in SUBSET UNION {AuditLogsIn(AuditDirOf[c]) : c \in auditClaims} :
          auditScan' = [todo |-> todo, at |-> NoAudit, claim |-> NoAudit, on |-> TRUE]
    BY <1>4 DEF BeginAuditPoll
  <2>2. todo \in SUBSET AuditFiles
    BY <2>1 DEF AuditLogsIn
  <2>3. auditFaults' \in 0..MaxAuditFaults
    BY <1>4, <1>g DEF BeginAuditPoll
  <2> QED
    BY <1>0, <1>4, <2>1, <2>2, <2>3 DEF BeginAuditPoll, AuditTyped
<1>5. ASSUME NEW f \in AuditFiles, OpenAuditLog(f) PROVE AuditTyped'
  <2>1. AuditCursorFor(f, FALSE) \in AuditPosition
    BY OpenedAt
  <2>2. auditCursors' \in [AuditFiles -> SUBSET AuditPosition]
    BY <1>0, <1>5, <2>1 DEF OpenAuditLog, AuditTyped
  <2>3. PICK c \in AuditClaims : auditScan' = [auditScan EXCEPT !.todo = @ \ {f}, !.at = f, !.claim = c]
    BY <1>0, <1>5 DEF OpenAuditLog, AuditClaimsOn, AuditTyped
  <2>4. auditScan' \in [todo : SUBSET AuditFiles, at : AuditFiles \cup {NoAudit},
                        claim : AuditClaims \cup {NoAudit}, on : BOOLEAN]
    BY <1>0, <2>3 DEF AuditTyped
  <2>5. auditDirty' \in BOOLEAN
    BY <1>0, <1>5 DEF OpenAuditLog, AuditTyped
  <2> QED
    BY <1>0, <1>5, <2>2, <2>4, <2>5 DEF OpenAuditLog, AuditTyped
<1>6. CASE ConsumeAuditLine
  <2> DEFINE f == auditScan.at
             c == AuditCursor(f)
             n == AuditLineAt(c.offset)
             e == auditLog[f][n]
             session == IF c.offset % 2 = 1 THEN c.session ELSE SessionAfter(c, {e})
  <2>1. /\ f \in AuditFiles /\ auditCursors[f] = {c} /\ c \in AuditPosition
        /\ n \in 1..Len(auditLog[f]) /\ e \in AuditEntries
        /\ auditCursors' = [auditCursors EXCEPT ![f] =
             {[c EXCEPT !.offset = 2 * n, !.session = session]}]
        /\ reported' = IF c.offset % 2 = 0 /\ YieldsRecord(e)
                       THEN Append(reported, AuditRecordOf(f, c, e)) ELSE reported
    BY SMTT(40), <1>6, AuditLineRecords
  <2>2. SessionAfter(c, {e}) \in AuditSessions /\ c.session \in AuditSessions
    BY <2>1 DEF SessionAfter, AuditSessions, AuditPosition
  <2>3. session \in AuditSessions /\ n \in Nat /\ 2 * n \in Nat
    BY <1>0, <2>1, <2>2 DEF AuditTyped
  <2>4. AuditRecordOf(f, c, e) \in AuditRecord
    <3>1. AuditOutcome(e) \in {"", "denied", "reported"}
      BY DEF AuditOutcome
    <3>2. auditScan.claim \in AuditClaims \cup {NoAudit} /\ auditRun \in Nat /\ auditGen[f] \in Nat
      BY <1>0, <2>1 DEF AuditTyped
    <3> HIDE DEF f, c, e
    <3>3. AuditLineAt(c.offset) \in Nat
      BY <2>3 DEF n
    <3> QED
      BY <2>1, <2>2, <3>1, <3>2, <3>3 DEF AuditRecordOf, AuditRecord
  <2> HIDE DEF f, c, n, e, session
  <2>5. auditCursors' \in [AuditFiles -> SUBSET AuditPosition]
    <3>1. [c EXCEPT !.offset = 2 * n, !.session = session] \in AuditPosition
      BY <2>1, <2>3 DEF AuditPosition
    <3> QED
      BY <1>0, <2>1, <3>1 DEF AuditTyped
  <2>6. reported' \in Seq(AuditRecord)
    BY <1>0, <2>1, <2>4 DEF AuditTyped
  <2> QED
    BY <1>0, <1>6, <2>5, <2>6 DEF ConsumeAuditLine, AuditTyped
<1>7. CASE CloseAuditLog
  <2>1. auditFaults' \in 0..MaxAuditFaults
    BY <1>7, <1>g DEF CloseAuditLog
  <2> QED
    BY <1>0, <1>7, <2>1 DEF CloseAuditLog, AuditTyped
<1>8. CASE EndAuditPoll
  <2>1. /\ auditCursors' \in [AuditFiles -> SUBSET AuditPosition]
        /\ auditClaims' \in SUBSET AuditClaims
        /\ auditScan' \in [todo : SUBSET AuditFiles, at : AuditFiles \cup {NoAudit},
                           claim : AuditClaims \cup {NoAudit}, on : BOOLEAN]
    BY <1>0, <1>8 DEF EndAuditPoll, AuditTyped, NoAuditScan
  <2>2. CASE auditDirty
    <3>1. AuditSaved(auditClaims', auditCursors') \/ AuditSaveFailed
      BY <1>8, <2>2 DEF EndAuditPoll
    <3>2. /\ auditDisk' \in [claims : SUBSET AuditClaims,
                             cursors : [AuditFiles -> SUBSET AuditPosition], torn : BOOLEAN]
          /\ auditDirty' \in BOOLEAN /\ auditFaults' \in 0..MaxAuditFaults
      BY <1>0, <2>1, <3>1, AuditSaveTyped
    <3> QED
      BY <1>0, <1>8, <2>1, <3>2 DEF EndAuditPoll, AuditTyped
  <2>3. CASE ~auditDirty
    BY <1>0, <1>8, <2>1, <2>3 DEF EndAuditPoll, AuditTyped
  <2> QED
    BY <2>2, <2>3
<1>9. CASE StopAudit
  BY <1>0, <1>9, <1>g, <1>t DEF StopAudit, AuditTyped, NoAuditScan, AuditBlank, AuditTorn
<1>10. CASE StartAudit
  BY <1>0, <1>10 DEF StartAudit, AuditTyped
<1>11. ASSUME NEW f \in AuditFiles, NEW e \in AuditEntries, BeginAuditLine(f, e) PROVE AuditTyped'
  BY <1>0, <1>11 DEF BeginAuditLine, AuditTyped
<1>12. ASSUME NEW f \in AuditFiles, EndAuditLine(f) PROVE AuditTyped'
  BY <1>0, <1>12 DEF EndAuditLine, AuditTyped
<1>13. ASSUME NEW f \in AuditFiles, SwapAuditLog(f) PROVE AuditTyped'
  BY <1>0, <1>13 DEF SwapAuditLog, AuditTyped
<1> QED
  BY <1>1, <1>2, <1>3, <1>4, <1>5, <1>6, <1>7, <1>8, <1>9, <1>10, <1>11, <1>12, <1>13
     DEF AuditNext

-----------------------------------------------------------------------------
(* Steps that leave logs and cursors alone.                                 *)

LEMMA AuditSteady ==
  ASSUME AuditInv, AuditTyped', AuditScanned',
         UNCHANGED <<auditLog, auditHalf, auditGen, claimedAt, auditUp, auditCursors,
                     reported, auditRun>>,
         auditClaims' \subseteq auditClaims,
         \/ auditDisk' \in {auditDisk, AuditTorn}
         \/ auditDisk' = [claims |-> auditClaims', cursors |-> auditCursors', torn |-> FALSE]
  PROVE  AuditInv'
<1>1. ReportsGrow
  BY DEF ReportsGrow
<1>2. \A f \in AuditFiles : \A c \in auditCursors[f] : c \in AuditPosition
  BY DEF AuditInv, AuditTyped
<1>3. AuditKept(auditCursors)'
  BY <1>1, <1>2, StillKept DEF AuditInv, AuditGood, AuditKept
<1>4. OneAuditCursor(auditCursors)' /\ AuditAhead(auditClaims, auditCursors)'
  BY DEF AuditInv, AuditGood, OneAuditCursor, AuditAhead
<1>5. AuditGood(auditClaims, auditCursors)'
  BY <1>3, <1>4 DEF AuditGood
<1>6. AuditGood(auditDisk.claims, auditDisk.cursors)'
  BY <1>1, <1>5, DiskFollows
<1>7. AuditBehind'
  BY StillBehind
<1>8. HalfIsALine' /\ AuditOnce'
  BY DEF AuditInv, HalfIsALine, AuditOnce
<1> QED
  BY <1>5, <1>6, <1>7, <1>8 DEF AuditInv

LEMMA AuditSteadySteps ==
  ASSUME AuditInv, AuditTyped',
         \/ \E c \in AuditClaims : DisableAudit(c)
         \/ BeginAuditPoll \/ CloseAuditLog \/ EndAuditPoll
  PROVE  AuditInv'
<1>0. AuditTyped /\ AuditScanned
  BY DEF AuditInv
<1> USE DEF auditAgentVars, auditMonitorVars
<1>1. ASSUME NEW c \in AuditClaims, DisableAudit(c) PROVE AuditInv'
  <2>1. /\ UNCHANGED <<auditLog, auditHalf, auditGen, claimedAt, auditUp, auditCursors, auditScan,
                       reported, auditRun>>
        /\ auditClaims' \subseteq auditClaims /\ ~auditScan.on
    BY <1>1 DEF DisableAudit, AuditQuiet
  <2>2. \/ auditDisk' \in {auditDisk, AuditTorn}
        \/ auditDisk' = [claims |-> auditClaims', cursors |-> auditCursors', torn |-> FALSE]
    BY <1>1 DEF DisableAudit, AuditSaved, AuditSaveFailed
  <2>3. AuditScanned'
    BY <1>0, <2>1 DEF AuditScanned
  <2> QED
    BY <2>1, <2>2, <2>3, AuditSteady
<1>2. CASE BeginAuditPoll
  <2>1. PICK todo \in SUBSET UNION {AuditLogsIn(AuditDirOf[c]) : c \in auditClaims} :
          auditScan' = [todo |-> todo, at |-> NoAudit, claim |-> NoAudit, on |-> TRUE]
    BY <1>2 DEF BeginAuditPoll
  <2>2. \A f \in todo : AuditClaimsOn(AuditDirOf[f]) # {}
    BY <2>1 DEF AuditLogsIn, AuditClaimsOn
  <2>3. /\ UNCHANGED <<auditLog, auditHalf, auditGen, claimedAt, auditUp, auditCursors, auditClaims,
                       reported, auditRun, auditDisk>>
        /\ auditUp = "up"
    BY <1>2 DEF BeginAuditPoll
  <2>4. AuditScanned'
    BY <2>1, <2>2, <2>3 DEF AuditScanned, AuditClaimsOn
  <2> QED
    BY <2>3, <2>4, AuditSteady
<1>3. CASE CloseAuditLog
  <2>1. /\ UNCHANGED <<auditLog, auditHalf, auditGen, claimedAt, auditUp, auditCursors, auditClaims,
                       reported, auditRun, auditDisk>>
        /\ auditScan' = [auditScan EXCEPT !.at = NoAudit, !.claim = NoAudit]
    BY <1>3 DEF CloseAuditLog
  <2>2. auditScan'.at = NoAudit /\ auditScan'.todo = auditScan.todo /\ auditScan'.on = auditScan.on
    BY <1>0, <2>1 DEF AuditTyped
  <2>3. AuditScanned'
    BY <1>0, <2>1, <2>2 DEF AuditScanned, AuditClaimsOn
  <2> QED
    BY <2>1, <2>3, AuditSteady
<1>4. CASE EndAuditPoll
  <2>1. /\ UNCHANGED <<auditLog, auditHalf, auditGen, claimedAt, auditUp, auditCursors, auditClaims,
                       reported, auditRun>>
        /\ auditScan' = NoAuditScan
    BY <1>4 DEF EndAuditPoll
  <2>2. \/ auditDisk' \in {auditDisk, AuditTorn}
        \/ auditDisk' = [claims |-> auditClaims', cursors |-> auditCursors', torn |-> FALSE]
    BY <1>4 DEF EndAuditPoll, AuditSaved, AuditSaveFailed
  <2>3. AuditScanned'
    BY <2>1 DEF AuditScanned, NoAuditScan
  <2> QED
    BY <2>1, <2>2, <2>3, AuditSteady
<1> QED
  BY <1>1, <1>2, <1>3, <1>4

-----------------------------------------------------------------------------
(* Patching seeds the logs of a directory.                                  *)

LEMMA SeedsAreGood ==
  ASSUME AuditInv, NEW logs,
         UNCHANGED <<auditLog, auditHalf, auditGen, auditUp, reported, auditRun>>,
         auditCursors' = AuditSeeded(logs)
  PROVE  OneAuditCursor(auditCursors)' /\ AuditKept(auditCursors)' /\ AuditBehind'
<1>1. ReportsGrow
  BY DEF ReportsGrow
<1>2. auditCursors \in [AuditFiles -> SUBSET AuditPosition]
  BY DEF AuditInv, AuditTyped
<1>3. ASSUME NEW f \in AuditFiles
      PROVE  auditCursors'[f] = IF f \in logs THEN {AuditCursorFor(f, TRUE)} ELSE auditCursors[f]
  BY DEF AuditSeeded
<1>4. ASSUME NEW f \in AuditFiles, NEW c \in auditCursors'[f]
      PROVE  c \in AuditPosition /\ AuditPlaced(f, c) /\ AuditTold(f, c)
  <2>1. CASE f \in logs
    <3>1. c = AuditCursorFor(f, TRUE)
      BY <1>3, <1>4, <2>1
    <3> QED
      BY <3>1, SeededAtEnd
  <2>2. CASE f \notin logs
    <3>1. c \in auditCursors[f]
      BY <1>3, <1>4, <2>2
    <3> QED
      BY <1>2, <3>1 DEF AuditInv, AuditGood, AuditKept
  <2> QED
    BY <2>1, <2>2
<1>5. AuditKept(auditCursors)'
  BY <1>1, <1>4, StillKept DEF AuditKept
<1>6. OneAuditCursor(auditCursors)'
  BY <1>3 DEF OneAuditCursor, AuditInv, AuditGood
<1>7. AuditBehind'
  <2>1. \A f \in AuditFiles :
          \/ auditCursors'[f] = auditCursors[f]
          \/ \E s \in auditCursors'[f] : s.offset = AuditSize(f)
    BY <1>3, SeededAtEnd
  <2> QED
    BY <2>1, StillBehind
<1> QED
  BY <1>5, <1>6, <1>7

LEMMA EnableAuditInv ==
  ASSUME AuditInv, AuditTyped', NEW c \in AuditClaims, EnableAudit(c)
  PROVE  AuditInv'
<1> DEFINE dir == AuditDirOf[c]
           held == AuditClaimsOn(dir)
<1>0. AuditTyped /\ AuditScanned /\ AuditAhead(auditClaims, auditCursors)
  BY DEF AuditInv, AuditGood
<1>1. /\ UNCHANGED <<auditLog, auditHalf, auditGen, auditUp, auditScan, reported, auditRun>>
      /\ ~auditScan.on /\ c \notin auditClaims
      /\ auditCursors' = IF held = {} THEN AuditSeeded(AuditLogsIn(dir)) ELSE auditCursors
      /\ \/ /\ auditDisk' = [claims |-> auditClaims', cursors |-> auditCursors', torn |-> FALSE]
            /\ auditClaims' = auditClaims \cup {c}
            /\ claimedAt' = [f \in AuditFiles |->
                 IF held = {} /\ AuditDirOf[f] = dir THEN Len(auditLog[f]) + 1 ELSE claimedAt[f]]
         \/ auditDisk' \in {auditDisk, AuditTorn} /\ UNCHANGED <<auditClaims, claimedAt>>
  <2>1. AuditSaved(auditClaims \cup {c}, auditCursors') =>
          auditDisk' = [claims |-> auditClaims \cup {c}, cursors |-> auditCursors', torn |-> FALSE]
    BY DEF AuditSaved
  <2>2. AuditSaveFailed => auditDisk' \in {auditDisk, AuditTorn}
    BY DEF AuditSaveFailed
  <2> QED
    BY <2>1, <2>2 DEF EnableAudit, AuditQuiet
<1> HIDE DEF dir, held
<1>2. auditCursors' = AuditSeeded(IF held = {} THEN AuditLogsIn(dir) ELSE {})
  <2>1. AuditSeeded({}) = auditCursors
    BY <1>0 DEF AuditSeeded, AuditTyped
  <2>2. CASE held = {}
    BY <1>1, <2>2
  <2>3. CASE held # {}
    BY <1>1, <2>1, <2>3
  <2> QED
    BY <2>2, <2>3
<1>3. OneAuditCursor(auditCursors)' /\ AuditKept(auditCursors)' /\ AuditBehind'
  BY <1>1, <1>2, SeedsAreGood
<1>4. AuditAhead(auditClaims, auditCursors)'
  <2> SUFFICES ASSUME NEW f \in AuditFiles, NEW k \in auditClaims', AuditDirOf[k] = AuditDirOf[f]
               PROVE  /\ auditCursors'[f] = {} => claimedAt'[f] = 1
                      /\ \A d \in auditCursors'[f] : /\ claimedAt'[f] <= (d.offset + 3) \div 2
                                                     /\ d.gen # auditGen[f] => claimedAt'[f] = 1
    BY <1>1 DEF AuditAhead
  <2>1. CASE AuditClaimsOn(AuditDirOf[f]) # {}
    <3>1. \E h \in auditClaims : AuditDirOf[h] = AuditDirOf[f]
      BY <2>1 DEF AuditClaimsOn
    <3>2. ~(held = {} /\ AuditDirOf[f] = dir)
      BY <2>1 DEF held
    <3>3. claimedAt'[f] = claimedAt[f]
      BY <1>1, <3>2
    <3>4. auditCursors'[f] = auditCursors[f]
      BY <1>1, <3>2 DEF AuditSeeded, AuditLogsIn
    <3> QED
      BY <1>0, <3>1, <3>3, <3>4 DEF AuditAhead
  <2>2. CASE AuditClaimsOn(AuditDirOf[f]) = {}
    <3>1. k \notin auditClaims
      BY <2>2 DEF AuditClaimsOn
    <3>2. k = c /\ AuditDirOf[f] = dir /\ held = {} /\ claimedAt'[f] = Len(auditLog[f]) + 1
      BY <1>1, <2>2, <3>1 DEF dir, held
    <3>3. CASE f \in AuditLogsIn(dir)
      <4>1. auditCursors'[f] = {AuditCursorFor(f, TRUE)}
        BY <1>1, <3>2, <3>3 DEF AuditSeeded
      <4>2. \A d \in auditCursors'[f] : /\ Len(auditLog[f]) + 1 <= (d.offset + 3) \div 2
                                        /\ d.gen = auditGen[f]
        BY <4>1, SeededAtEnd
      <4> QED
        BY <3>2, <4>1, <4>2
    <3>4. CASE f \notin AuditLogsIn(dir)
      <4>1. auditLog[f] = <<>>
        BY <3>2, <3>4 DEF AuditLogsIn
      <4>2. claimedAt'[f] = 1
        BY <3>2, <4>1
      <4>3. ASSUME NEW d \in auditCursors'[f] PROVE 1 <= (d.offset + 3) \div 2
        <5>1. d.offset \in Nat
          BY <4>3 DEF AuditTyped, AuditPosition
        <5> QED
          BY <5>1
      <4> QED
        BY <4>2, <4>3
    <3> QED
      BY <3>3, <3>4
  <2> QED
    BY <2>1, <2>2
<1>5. AuditGood(auditClaims, auditCursors)'
  BY <1>3, <1>4 DEF AuditGood
<1>6. AuditGood(auditDisk.claims, auditDisk.cursors)'
  <2>1. ReportsGrow
    BY <1>1 DEF ReportsGrow
  <2>2. \/ UNCHANGED claimedAt /\ auditDisk' \in {auditDisk, AuditTorn}
        \/ auditDisk' = [claims |-> auditClaims', cursors |-> auditCursors', torn |-> FALSE]
    BY <1>1
  <2>3. UNCHANGED <<auditLog, auditHalf, auditGen>>
    BY <1>1
  <2> QED
    BY <1>5, <2>1, <2>2, <2>3, DiskFollows
<1>7. AuditScanned'
  BY <1>0, <1>1 DEF AuditScanned
<1>8. HalfIsALine' /\ AuditOnce'
  BY <1>1 DEF AuditInv, HalfIsALine, AuditOnce
<1> QED
  BY <1>3, <1>5, <1>6, <1>7, <1>8 DEF AuditInv

LEMMA EnableAuditFailsInv ==
  ASSUME AuditInv, AuditTyped', NEW c \in AuditClaims, EnableAuditFails(c)
  PROVE  AuditInv'
<1>0. AuditTyped /\ AuditScanned /\ AuditAhead(auditClaims, auditCursors)
  BY DEF AuditInv, AuditGood
<1>1. PICK logs \in SUBSET AuditLogsIn(AuditDirOf[c]) : auditCursors' = AuditSeeded(logs)
  BY DEF EnableAuditFails
<1>2. /\ UNCHANGED <<auditLog, auditHalf, auditGen, claimedAt, auditUp, auditScan, auditClaims,
                     auditDisk, reported, auditRun>>
      /\ ~auditScan.on /\ AuditClaimsOn(AuditDirOf[c]) = {}
  BY DEF EnableAuditFails, AuditQuiet, auditAgentVars
<1>3. OneAuditCursor(auditCursors)' /\ AuditKept(auditCursors)' /\ AuditBehind'
  BY <1>1, <1>2, SeedsAreGood
<1>4. AuditAhead(auditClaims, auditCursors)'
  <2>1. ASSUME NEW f \in AuditFiles, NEW k \in auditClaims, AuditDirOf[k] = AuditDirOf[f]
        PROVE  auditCursors'[f] = auditCursors[f]
    <3>1. f \notin logs
      BY <1>1, <1>2, <2>1 DEF AuditLogsIn, AuditClaimsOn
    <3> QED
      BY <1>1, <3>1 DEF AuditSeeded
  <2> QED
    BY <1>0, <1>2, <2>1 DEF AuditAhead
<1>5. AuditGood(auditClaims, auditCursors)'
  BY <1>3, <1>4 DEF AuditGood
<1>6. AuditGood(auditDisk.claims, auditDisk.cursors)'
  <2>1. ReportsGrow
    BY <1>2 DEF ReportsGrow
  <2> QED
    BY <1>2, <1>5, <2>1, DiskFollows
<1>7. AuditScanned'
  BY <1>0, <1>2 DEF AuditScanned
<1>8. HalfIsALine' /\ AuditOnce'
  BY <1>2 DEF AuditInv, HalfIsALine, AuditOnce
<1> QED
  BY <1>3, <1>5, <1>6, <1>7, <1>8 DEF AuditInv

-----------------------------------------------------------------------------
(* A poll.                                                                  *)

LEMMA OpenAuditLogInv ==
  ASSUME AuditInv, AuditTyped', NEW f \in AuditFiles, OpenAuditLog(f)
  PROVE  AuditInv'
<1> DEFINE s == AuditCursorFor(f, FALSE)
<1>0. AuditTyped /\ AuditScanned /\ AuditGood(auditClaims, auditCursors)
  BY DEF AuditInv
<1>1. /\ UNCHANGED <<auditLog, auditHalf, auditGen, claimedAt, auditUp, auditClaims, auditDisk,
                     reported, auditRun>>
      /\ auditScan.on /\ f \in auditScan.todo
      /\ auditCursors' = [auditCursors EXCEPT ![f] = {s}]
      /\ \E c \in AuditClaimsOn(AuditDirOf[f]) :
           auditScan' = [auditScan EXCEPT !.todo = @ \ {f}, !.at = f, !.claim = c]
  BY DEF OpenAuditLog, auditAgentVars
<1>2. /\ s \in AuditPosition /\ AuditPlaced(f, s) /\ AuditTold(f, s)
      /\ \/ s \in auditCursors[f]
         \/ /\ s.offset = 0 /\ s.gen = auditGen[f]
            /\ \/ auditCursors[f] = {}
               \/ \E c \in auditCursors[f] : c.offset > AuditSize(f)
  BY OpenedAt
<1> HIDE DEF s
<1>3. auditCursors'[f] = {s} /\ \A g \in AuditFiles : g # f => auditCursors'[g] = auditCursors[g]
  BY <1>0, <1>1 DEF AuditTyped
<1>4. ReportsGrow
  BY <1>1 DEF ReportsGrow
<1>5. OneAuditCursor(auditCursors)'
  BY <1>0, <1>3 DEF AuditGood, OneAuditCursor
<1>6. AuditKept(auditCursors)'
  <2>1. ASSUME NEW g \in AuditFiles, NEW c \in auditCursors'[g]
        PROVE  c \in AuditPosition /\ AuditPlaced(g, c) /\ AuditTold(g, c)
    BY <1>0, <1>2, <1>3, <2>1 DEF AuditGood, AuditKept, AuditTyped
  <2> QED
    BY <1>1, <1>4, <2>1, StillKept DEF AuditKept
<1>7. AuditAhead(auditClaims, auditCursors)'
  <2>1. ASSUME \E k \in auditClaims : AuditDirOf[k] = AuditDirOf[f]
        PROVE  claimedAt[f] <= (s.offset + 3) \div 2 /\ (s.gen # auditGen[f] => claimedAt[f] = 1)
    <3>1. /\ auditCursors[f] = {} => claimedAt[f] = 1
          /\ \A c \in auditCursors[f] : /\ claimedAt[f] <= (c.offset + 3) \div 2
                                        /\ c.gen # auditGen[f] => claimedAt[f] = 1
      BY <1>0, <2>1 DEF AuditGood, AuditAhead
    <3>2. CASE s \in auditCursors[f]
      BY <3>1, <3>2
    <3>3. CASE s \notin auditCursors[f]
      <4>1. s.offset = 0 /\ s.gen = auditGen[f]
        BY <1>2, <3>3
      <4>2. claimedAt[f] = 1
        <5>1. ASSUME NEW c \in auditCursors[f], c.offset > AuditSize(f)
              PROVE  c.gen # auditGen[f]
          <6>1. AuditPlaced(f, c) /\ c \in AuditPosition
            BY <1>0 DEF AuditGood, AuditKept, AuditTyped
          <6>2. c.offset \in Nat /\ AuditSize(f) \in Nat
            BY <6>1, AuditSizeOf DEF AuditPosition, AuditInv
          <6> QED
            BY <5>1, <6>1, <6>2 DEF AuditPlaced
        <5> QED
          BY <1>2, <3>1, <3>3, <5>1
      <4>3. 1 <= (s.offset + 3) \div 2
        BY <4>1
      <4> QED
        BY <4>1, <4>2, <4>3
    <3> QED
      BY <3>2, <3>3
  <2> QED
    BY <1>0, <1>1, <1>3, <2>1 DEF AuditGood, AuditAhead
<1>8. AuditGood(auditClaims, auditCursors)'
  BY <1>5, <1>6, <1>7 DEF AuditGood
<1>9. AuditGood(auditDisk.claims, auditDisk.cursors)'
  BY <1>1, <1>4, <1>8, DiskFollows
<1>10. AuditBehind'
  <2>1. \A g \in AuditFiles :
          \/ auditCursors'[g] = auditCursors[g]
          \/ auditCursors[g] = {}
          \/ \E c \in auditCursors[g] : c.offset > AuditSize(g)
    <3>1. s \in auditCursors[f] => auditCursors'[f] = auditCursors[f]
      BY <1>0, <1>3 DEF AuditGood, OneAuditCursor
    <3> QED
      BY <1>2, <1>3, <3>1
  <2> QED
    BY <1>1, <2>1, StillBehind
<1>11. AuditScanned'
  <2>0. PICK k \in AuditClaimsOn(AuditDirOf[f]) :
          auditScan' = [auditScan EXCEPT !.todo = @ \ {f}, !.at = f, !.claim = k]
    BY <1>1
  <2>1. /\ auditScan'.todo \subseteq auditScan.todo /\ auditScan'.at = f
        /\ auditScan'.on = auditScan.on
    BY <1>0, <2>0 DEF AuditTyped
  <2>2. AuditClaimsOn(AuditDirOf[f]) # {} /\ auditUp = "up"
    BY <1>0, <1>1 DEF AuditScanned
  <2> QED
    BY <1>0, <1>1, <1>3, <2>1, <2>2 DEF AuditScanned, AuditClaimsOn
<1>12. HalfIsALine' /\ AuditOnce'
  BY <1>1 DEF AuditInv, HalfIsALine, AuditOnce
<1> QED
  BY <1>8, <1>9, <1>10, <1>11, <1>12 DEF AuditInv

\* The line after what was told is told, in the session it leaves.
LEMMA NextIsTold ==
  ASSUME NEW f \in AuditFiles, NEW c \in AuditPosition, NEW n \in Nat, NEW session,
         AuditPlaced(f, c), AuditTold(f, c), c.gen = auditGen[f], 2 * n = c.offset + 2,
         session = SessionAfter(c, {auditLog[f][n]}),
         UNCHANGED <<auditLog, auditGen>>, ReportsGrow,
         YieldsRecord(auditLog[f][n]) =>
           \E k \in DOMAIN reported' :
             /\ reported'[k].file = f /\ reported'[k].gen = auditGen[f]
             /\ reported'[k].line = n /\ reported'[k].session = session
             /\ reported'[k].outcome = AuditOutcome(auditLog[f][n])
  PROVE  /\ \A i \in AuditFirst(c)..n : YieldsRecord(auditLog[f][i]) => ReportedAs(f, i, AuditFirst(c))'
         /\ NamedIn(f, AuditFirst(c), n) # {} =>
              session = auditLog[f][Max(NamedIn(f, AuditFirst(c), n))].session
<1> DEFINE first == AuditFirst(c)
           m == n - 1
           S(i) == NamedIn(f, first, i)
<1>1. c.offset \in Nat /\ c.seed \in Nat /\ c.seed <= c.offset
  BY DEF AuditPosition, AuditPlaced
<1>2. m \in Nat /\ c.offset \div 2 = m /\ n = m + 1
  BY <1>1
<1>3. first \in Nat /\ 1 <= first /\ first <= n
  BY <1>1 DEF AuditFirst
<1>4. /\ \A i \in first .. m : YieldsRecord(auditLog[f][i]) => ReportedAs(f, i, first)
      /\ S(m) # {} => c.session = auditLog[f][Max(S(m))].session
  BY <1>2 DEF AuditTold
<1> HIDE DEF first, m
<1>5. S(n) # {} => session = auditLog[f][Max(S(n))].session
  <2>1. CASE auditLog[f][n].session # Unnamed
    <3>1. S(n) \in SUBSET Nat /\ n \in S(n) /\ \A y \in S(n) : y <= n
      BY <1>3, <2>1 DEF NamedIn
    <3>2. Max(S(n)) = n
      BY <3>1, MaxIs
    <3>3. session = auditLog[f][n].session
      BY <2>1 DEF SessionAfter
    <3> QED
      BY <3>2, <3>3
  <2>2. CASE auditLog[f][n].session = Unnamed
    <3>1. S(n) = S(m)
      BY <1>2, <1>3, <2>2 DEF NamedIn
    <3>2. session = c.session
      BY <2>2 DEF SessionAfter
    <3> QED
      BY <1>4, <3>1, <3>2
  <2> QED
    BY <2>1, <2>2
<1>6. ASSUME NEW i \in first..n, YieldsRecord(auditLog[f][i])
      PROVE  ReportedAs(f, i, first)'
  <2>1. CASE i \in first..m
    <3>1. ReportedAs(f, i, first) /\ i \in Nat /\ first <= i
      BY <1>2, <1>3, <1>4, <1>6, <2>1
    <3>2. LogKeeps(f, i)
      BY DEF LogKeeps
    <3> QED
      BY <1>3, <3>1, <3>2, ReportedKept
  <2>2. CASE i = n
    <3>1. PICK k \in DOMAIN reported' :
             /\ reported'[k].file = f /\ reported'[k].gen = auditGen[f]
             /\ reported'[k].line = n /\ reported'[k].session = session
             /\ reported'[k].outcome = AuditOutcome(auditLog[f][n])
      BY <1>6, <2>2
    <3>2. NamedIn(f, first, n)' = S(n) /\ AuditOutcome(auditLog[f][n])' = AuditOutcome(auditLog[f][n])
      BY DEF NamedIn, AuditOutcome
    <3>3. /\ reported'[k].outcome = AuditOutcome(auditLog[f][n])'
          /\ NamedIn(f, first, n)' # {} =>
               reported'[k].session = auditLog'[f][Max(NamedIn(f, first, n)')].session
      BY <1>5, <3>1, <3>2
    <3>4. ReportedAs(f, n, first)'
      BY <3>1, <3>3 DEF ReportedAs
    <3> QED
      BY <2>2, <3>4
  <2> QED
    BY <1>2, <1>3, <2>1, <2>2
<1> QED
  BY <1>5, <1>6 DEF first

LEMMA ConsumeAuditLineInv ==
  ASSUME AuditInv, AuditTyped', ConsumeAuditLine
  PROVE  AuditInv'
<1>r. SUFFICES ASSUME NEW f, f = auditScan.at,
                      NEW c, c = AuditCursor(f),
                      NEW n, n = AuditLineAt(c.offset),
                      NEW e, e = auditLog[f][n],
                      NEW session,
                      session = IF c.offset % 2 = 1 THEN c.session ELSE SessionAfter(c, {e}),
                      NEW d, d = [c EXCEPT !.offset = 2 * n, !.session = session],
                      NEW r, r = AuditRecordOf(f, c, e)
               PROVE  AuditInv'
  OBVIOUS
<1>0. /\ AuditTyped /\ AuditScanned /\ AuditGood(auditClaims, auditCursors)
      /\ AuditBehind /\ AuditOnce
  BY DEF AuditInv
<1>1. /\ f \in AuditFiles /\ auditCursors[f] = {c} /\ c \in AuditPosition
      /\ n \in 1..Len(auditLog[f]) /\ e \in AuditEntries
      /\ 2 * n = c.offset + 2 \/ 2 * n = c.offset + 1
      /\ 2 * n <= AuditSize(f)
      /\ auditCursors' = [auditCursors EXCEPT ![f] = {d}]
      /\ reported' = IF c.offset % 2 = 0 /\ YieldsRecord(e) THEN Append(reported, r) ELSE reported
  BY <1>r, AuditLineRecords
<1>2. /\ UNCHANGED <<auditLog, auditHalf, auditGen, claimedAt, auditUp, auditScan, auditClaims,
                     auditDisk, auditRun>>
      /\ f # NoAudit
  BY <1>r DEF ConsumeAuditLine, auditAgentVars
<1>3. /\ r.file = f /\ r.gen = auditGen[f] /\ r.line = n /\ r.run = auditRun
      /\ r.outcome = AuditOutcome(e) /\ r.session = SessionAfter(c, {e})
  BY <1>r DEF AuditRecordOf
<1>4. /\ d.offset = 2 * n /\ d.session = session /\ d.gen = c.gen /\ d.seed = c.seed
      /\ d \in AuditPosition
  <2>1. auditCursors'[f] = {d} /\ auditCursors' \in [AuditFiles -> SUBSET AuditPosition]
    BY <1>0, <1>1 DEF AuditTyped
  <2>2. d \in AuditPosition
    BY <1>1, <2>1
  <2> QED
    BY <1>r, <1>1, <2>2 DEF AuditPosition
<1>5. /\ auditCursors'[f] = {d}
      /\ \A g \in AuditFiles : g # f => auditCursors'[g] = auditCursors[g]
  BY <1>0, <1>1 DEF AuditTyped
<1>6. AuditPlaced(f, c) /\ AuditTold(f, c) /\ c.offset \in Nat /\ c.seed \in Nat /\ n \in Nat
      /\ AuditSize(f) \in Nat /\ Len(auditLog[f]) \in Nat
  <2>1. AuditPlaced(f, c) /\ AuditTold(f, c)
    BY <1>0, <1>1 DEF AuditGood, AuditKept
  <2>2. c.offset \in Nat /\ c.seed \in Nat
    BY <1>1 DEF AuditPosition
  <2>3. AuditSize(f) \in Nat /\ Len(auditLog[f]) \in Nat
    BY <1>1, AuditSizeOf DEF AuditInv
  <2> QED
    BY <1>1, <2>1, <2>2, <2>3
<1>7. /\ reported \in Seq(AuditRecord)
      /\ reported' = reported \/ (reported' = Append(reported, r) /\ c.offset % 2 = 0)
      /\ c.offset % 2 = 0 /\ YieldsRecord(e) => reported' = Append(reported, r)
  BY <1>0, <1>1 DEF AuditTyped
<1>8. /\ DOMAIN reported = 1..Len(reported) /\ Len(reported) \in Nat
      /\ reported' = Append(reported, r) =>
           /\ DOMAIN reported' = 1..(Len(reported) + 1)
           /\ \A k \in 1..Len(reported) : reported'[k] = reported[k]
           /\ reported'[Len(reported) + 1] = r
  <2>1. \A x \in {reported} : Len(x) \in Nat /\ DOMAIN x = 1..Len(x)
    BY <1>7
  <2>2. reported \in Seq(AuditRecord \cup {r})
    BY <1>7
  <2> QED
    BY <2>1, <2>2
<1>9. ReportsGrow
  BY <1>7, <1>8 DEF ReportsGrow
<1>10. AuditPlaced(f, d)'
  <2>1. (2 * n) % 2 = 0
    BY <1>6
  <2>2. c.seed <= 2 * n
    BY <1>1, <1>6 DEF AuditPlaced
  <2>3. 2 * n <= AuditSize(f)'
    BY <1>1, <1>2 DEF AuditSize
  <2> QED
    BY <1>2, <1>4, <1>6, <2>1, <2>2, <2>3 DEF AuditPlaced
<1>11. AuditTold(f, d)'
  <2> SUFFICES ASSUME c.gen = auditGen[f]
               PROVE  /\ \A i \in AuditFirst(c)..n :
                           YieldsRecord(auditLog[f][i]) => ReportedAs(f, i, AuditFirst(c))'
                      /\ NamedIn(f, AuditFirst(c), n) # {} =>
                           session = auditLog[f][Max(NamedIn(f, AuditFirst(c), n))].session
    <3>1. (2 * n) \div 2 = n
      BY <1>6
    <3>2. AuditFirst(d) = AuditFirst(c) /\ NamedIn(f, AuditFirst(c), n)' = NamedIn(f, AuditFirst(c), n)
      BY <1>2, <1>4 DEF AuditFirst, NamedIn
    <3> QED
      BY <1>2, <1>4, <3>1, <3>2 DEF AuditTold
  <2>1. CASE c.offset % 2 = 1
    <3>1. 2 * n = c.offset + 1 /\ c.offset = c.seed
      BY SMTT(40), <1>1, <1>6, <2>1 DEF AuditPlaced
    <3>2. AuditFirst(c) \in Nat /\ AuditFirst(c) > n
      BY <1>6, <3>1 DEF AuditFirst
    <3>3. AuditFirst(c)..n = {}
      BY <1>6, <3>2
    <3> QED
      BY <3>3 DEF NamedIn
  <2>2. CASE c.offset % 2 # 1
    <3>1. 2 * n = c.offset + 2 /\ c.offset % 2 = 0
      BY SMTT(40), <1>1, <1>6, <2>2
    <3>2. session = SessionAfter(c, {e})
      BY <1>r, <2>2
    <3>3. YieldsRecord(e) =>
           \E k \in DOMAIN reported' :
             /\ reported'[k].file = f /\ reported'[k].gen = auditGen[f]
             /\ reported'[k].line = n /\ reported'[k].session = session
             /\ reported'[k].outcome = AuditOutcome(e)
      <4>1. YieldsRecord(e) => Len(reported) + 1 \in DOMAIN reported' /\ reported'[Len(reported) + 1] = r
        BY <1>7, <1>8, <3>1
      <4> QED
        BY <1>3, <3>2, <4>1
    <3>4. session = SessionAfter(c, {auditLog[f][n]})
      BY <1>r, <3>2
    <3>5. YieldsRecord(auditLog[f][n]) =>
           \E k \in DOMAIN reported' :
             /\ reported'[k].file = f /\ reported'[k].gen = auditGen[f]
             /\ reported'[k].line = n /\ reported'[k].session = session
             /\ reported'[k].outcome = AuditOutcome(auditLog[f][n])
      BY <1>r, <3>3
    <3>6. UNCHANGED <<auditLog, auditGen>>
      BY <1>2
    <3>7. /\ f \in AuditFiles /\ c \in AuditPosition /\ n \in Nat
          /\ AuditPlaced(f, c) /\ AuditTold(f, c) /\ c.gen = auditGen[f]
          /\ 2 * n = c.offset + 2
      BY <1>1, <1>6, <3>1
    <3> QED
      BY <1>9, <3>4, <3>5, <3>6, <3>7, NextIsTold, Zenon
  <2> QED
    BY <2>1, <2>2
<1>12. OneAuditCursor(auditCursors)'
  BY <1>0, <1>5 DEF AuditGood, OneAuditCursor
<1>13. AuditKept(auditCursors)'
  <2>1. ASSUME NEW g \in AuditFiles, NEW x \in auditCursors[g]
        PROVE  AuditPlaced(g, x)' /\ AuditTold(g, x)'
    <3>1. x \in AuditPosition /\ AuditPlaced(g, x) /\ AuditTold(g, x)
      BY <1>0, <2>1 DEF AuditGood, AuditKept, AuditTyped
    <3> QED
      BY <1>2, <1>9, <3>1, StillKept
  <2>2. ASSUME NEW x, x = d
        PROVE  AuditPlaced(f, x)' /\ AuditTold(f, x)'
    BY <1>10, <1>11, <2>2 DEF AuditPlaced, AuditTold
  <2> QED
    BY <1>5, <2>1, <2>2 DEF AuditKept
<1>14. AuditAhead(auditClaims, auditCursors)'
  <2>1. ASSUME \E k \in auditClaims : AuditDirOf[k] = AuditDirOf[f]
        PROVE  claimedAt[f] <= (d.offset + 3) \div 2 /\ (d.gen # auditGen[f] => claimedAt[f] = 1)
    <3>1. claimedAt[f] <= (c.offset + 3) \div 2 /\ (c.gen # auditGen[f] => claimedAt[f] = 1)
      BY <1>0, <1>1, <2>1 DEF AuditGood, AuditAhead
    <3>0. claimedAt[f] \in Nat
      BY <1>0, <1>1 DEF AuditTyped
    <3>2. (c.offset + 3) \div 2 <= (2 * n + 3) \div 2
      BY <1>1, <1>6
    <3>3. claimedAt[f] <= (2 * n + 3) \div 2
      BY <1>6, <3>0, <3>1, <3>2
    <3> QED
      BY <1>4, <3>1, <3>3
  <2> QED
    BY <1>0, <1>2, <1>5, <2>1 DEF AuditGood, AuditAhead
<1>15. AuditGood(auditClaims, auditCursors)'
  BY <1>12, <1>13, <1>14 DEF AuditGood
<1>16. AuditGood(auditDisk.claims, auditDisk.cursors)'
  BY <1>2, <1>9, <1>15, DiskFollows
<1>17. AuditScanned'
  <2>1. auditCursors'[f] # {} /\ auditScan.at = f
    BY <1>r, <1>5
  <2> QED
    BY <1>0, <1>2, <2>1 DEF AuditScanned, AuditClaimsOn
<1>18. auditUp # "down"
  BY <1>r, <1>0, <1>2 DEF AuditScanned
<1>19. AuditBehind'
  <2>1. \A k \in DOMAIN reported :
          /\ reported[k].run <= auditRun /\ reported[k].gen <= auditGen[reported[k].file]
          /\ reported[k].run = auditRun /\ reported[k].gen = auditGen[reported[k].file] =>
               \E x \in auditCursors'[reported[k].file] :
                 2 * reported[k].line <= x.offset /\ x.offset <= AuditSize(reported[k].file)
    <3> SUFFICES ASSUME NEW k \in DOMAIN reported, reported[k].run = auditRun,
                        reported[k].gen = auditGen[reported[k].file]
                 PROVE  \E x \in auditCursors'[reported[k].file] :
                          2 * reported[k].line <= x.offset /\ x.offset <= AuditSize(reported[k].file)
      BY <1>0 DEF AuditBehind
    <3>1. PICK x \in auditCursors[reported[k].file] :
            2 * reported[k].line <= x.offset /\ x.offset <= AuditSize(reported[k].file)
      BY <1>0, <1>18 DEF AuditBehind
    <3>2. reported[k] \in AuditRecord
      BY <1>7
    <3>3. reported[k].file \in AuditFiles /\ reported[k].line \in Nat
      BY <3>2 DEF AuditRecord
    <3>4. CASE reported[k].file = f
      <4>1. 2 * reported[k].line <= c.offset
        BY <1>1, <3>1, <3>4
      <4>2. 2 * reported[k].line <= 2 * n
        BY <1>1, <1>6, <3>3, <4>1
      <4> QED
        BY <1>1, <1>4, <1>5, <3>4, <4>2
    <3>5. CASE reported[k].file # f
      BY <1>5, <3>1, <3>3, <3>5
    <3> QED
      BY <3>4, <3>5
  <2>2. /\ r.run <= auditRun /\ r.gen <= auditGen[r.file]
        /\ \E x \in auditCursors'[r.file] : 2 * r.line <= x.offset /\ x.offset <= AuditSize(r.file)
    <3>1. auditRun <= auditRun /\ auditGen[f] <= auditGen[f] /\ 2 * n <= 2 * n
      BY <1>0, <1>1, <1>6 DEF AuditTyped
    <3> QED
      BY <1>1, <1>3, <1>4, <1>5, <3>1
  <2>3. \A k \in DOMAIN reported' : reported'[k] = r \/ (k \in DOMAIN reported /\ reported'[k] = reported[k])
    BY <1>7, <1>8
  <2>4. \A g : AuditSize(g)' = AuditSize(g)
    BY <1>2 DEF AuditSize
  <2> QED
    BY <1>2, <2>1, <2>2, <2>3, <2>4 DEF AuditBehind
<1>20. AuditOnce'
  <2>1. ASSUME NEW k \in DOMAIN reported, reported' = Append(reported, r)
        PROVE  ~ (/\ reported[k].file = f /\ reported[k].gen = auditGen[f]
                  /\ reported[k].line = n /\ reported[k].run = auditRun)
    <3> SUFFICES ASSUME reported[k].file = f, reported[k].gen = auditGen[f],
                        reported[k].line = n, reported[k].run = auditRun
                 PROVE  FALSE
      OBVIOUS
    <3>1. \E x \in auditCursors[f] : 2 * n <= x.offset
      BY <1>0, <1>18 DEF AuditBehind
    <3>2. 2 * n <= c.offset
      BY <1>1, <3>1
    <3> QED
      BY <1>1, <1>6, <3>2
  <2>2. CASE reported' = reported
    BY <1>0, <2>2 DEF AuditOnce
  <2>3. CASE reported' = Append(reported, r)
    <3>1. \A k \in DOMAIN reported' : (k \in DOMAIN reported /\ reported'[k] = reported[k])
                                      \/ (k = Len(reported) + 1 /\ reported'[k] = r)
      BY <1>8, <2>3
    <3> QED
      BY <1>0, <1>3, <2>1, <2>3, <3>1 DEF AuditOnce
  <2> QED
    BY <1>7, <2>2, <2>3
<1>21. HalfIsALine'
  BY <1>2 DEF AuditInv, HalfIsALine
<1> QED
  BY <1>15, <1>16, <1>17, <1>19, <1>20, <1>21 DEF AuditInv

-----------------------------------------------------------------------------
(* The life of the process.                                                 *)

LEMMA StopAuditInv ==
  ASSUME AuditInv, AuditTyped', StopAudit
  PROVE  AuditInv'
<1>1. /\ UNCHANGED <<auditLog, auditHalf, auditGen, claimedAt, reported, auditRun>>
      /\ auditUp' = "down" /\ auditScan' = NoAuditScan /\ auditClaims' = {}
      /\ auditCursors' = AuditBlank.cursors /\ auditDisk' \in {auditDisk, AuditTorn}
  BY DEF StopAudit, auditAgentVars
<1>2. \A f \in AuditFiles : auditCursors'[f] = {}
  BY <1>1 DEF AuditBlank, AuditTorn
<1>3. AuditGood(auditClaims, auditCursors)'
  BY <1>1, <1>2 DEF AuditGood, OneAuditCursor, AuditKept, AuditAhead
<1>4. AuditGood(auditDisk.claims, auditDisk.cursors)'
  <2>1. ReportsGrow
    BY <1>1 DEF ReportsGrow
  <2> QED
    BY <1>1, <1>3, <2>1, DiskFollows
<1>5. AuditScanned'
  BY <1>1 DEF AuditScanned, NoAuditScan
<1>6. AuditBehind'
  BY <1>1 DEF AuditInv, AuditBehind
<1>7. HalfIsALine' /\ AuditOnce'
  BY <1>1 DEF AuditInv, HalfIsALine, AuditOnce
<1> QED
  BY <1>3, <1>4, <1>5, <1>6, <1>7 DEF AuditInv

LEMMA StartAuditInv ==
  ASSUME AuditInv, AuditTyped', StartAudit
  PROVE  AuditInv'
<1>1. /\ UNCHANGED <<auditLog, auditHalf, auditGen, claimedAt, auditScan, auditDisk, reported>>
      /\ auditUp = "down" /\ auditRun' = auditRun + 1
      /\ auditClaims' = auditDisk.claims /\ auditCursors' = auditDisk.cursors
  BY DEF StartAudit, auditAgentVars
<1>2. ReportsGrow
  BY <1>1 DEF ReportsGrow
<1>3. AuditGood(auditClaims, auditCursors)'
  <2>1. \A f \in AuditFiles : \A c \in auditDisk.cursors[f] : c \in AuditPosition
    BY DEF AuditInv, AuditTyped
  <2>2. AuditKept(auditCursors)'
    BY <1>1, <1>2, <2>1, StillKept DEF AuditInv, AuditGood, AuditKept
  <2>3. OneAuditCursor(auditCursors)' /\ AuditAhead(auditClaims, auditCursors)'
    BY <1>1 DEF AuditInv, AuditGood, OneAuditCursor, AuditAhead
  <2> QED
    BY <2>2, <2>3 DEF AuditGood
<1>4. AuditGood(auditDisk.claims, auditDisk.cursors)'
  BY <1>1, <1>2, <1>3, DiskFollows
<1>5. AuditScanned'
  BY <1>1 DEF AuditInv, AuditScanned
<1>6. AuditBehind'
  <2>0. reported \in Seq(AuditRecord) /\ auditRun \in Nat
    BY DEF AuditInv, AuditTyped
  <2>1. \A k \in DOMAIN reported : reported[k].run \in Nat /\ reported[k].run <= auditRun /\ auditRun \in Nat
    <3>1. \A k \in DOMAIN reported : reported[k] \in AuditRecord
      BY <2>0
    <3>2. \A k \in DOMAIN reported : reported[k].run \in Nat
      BY <3>1 DEF AuditRecord
    <3>3. \A k \in DOMAIN reported : reported[k].run <= auditRun
      BY DEF AuditInv, AuditBehind
    <3> QED
      BY <2>0, <3>2, <3>3
  <2>2. \A k \in DOMAIN reported : reported[k].run <= auditRun + 1 /\ reported[k].run # auditRun + 1
    BY <2>1
  <2> QED
    BY <1>1, <2>2 DEF AuditInv, AuditBehind
<1>7. HalfIsALine' /\ AuditOnce'
  BY <1>1 DEF AuditInv, HalfIsALine, AuditOnce
<1> QED
  BY <1>3, <1>4, <1>5, <1>6, <1>7 DEF AuditInv

-----------------------------------------------------------------------------
(* The agent writes, or its log is replaced.                                *)

\* A log grows, or its contents are counted anew.
AuditGrows(f) ==
  \/ /\ auditGen'[f] = auditGen[f] /\ LogKeeps(f, Len(auditLog[f]))
     /\ AuditSize(f) <= AuditSize(f)' /\ AuditSize(f)' \in Nat
     /\ claimedAt'[f] = claimedAt[f]
  \/ auditGen'[f] = auditGen[f] + 1 /\ claimedAt'[f] = 1

LEMMA GrownKept ==
  ASSUME AuditInv, ReportsGrow, NEW f \in AuditFiles, AuditGrows(f),
         NEW c \in AuditPosition, AuditPlaced(f, c), AuditTold(f, c)
  PROVE  AuditPlaced(f, c)' /\ AuditTold(f, c)'
<1>1. /\ auditGen[f] \in Nat /\ c.gen \in Nat /\ c.offset \in Nat
      /\ AuditSize(f) \in Nat /\ Len(auditLog[f]) \in Nat
      /\ AuditSize(f) <= 2 * Len(auditLog[f])
  <2>1. auditGen[f] \in Nat
    BY DEF AuditInv, AuditTyped
  <2>2. c.gen \in Nat /\ c.offset \in Nat
    BY DEF AuditPosition
  <2>3. /\ AuditSize(f) \in Nat /\ Len(auditLog[f]) \in Nat
        /\ AuditSize(f) = 2 * Len(auditLog[f]) \/ AuditSize(f) = 2 * Len(auditLog[f]) - 1
    BY AuditSizeOf DEF AuditInv
  <2> QED
    BY <2>1, <2>2, <2>3
<1>2. CASE auditGen'[f] = auditGen[f] + 1
  <2>1. c.gen <= auditGen[f] + 1 /\ c.gen # auditGen[f] + 1
    BY <1>1 DEF AuditPlaced
  <2> QED
    BY <1>2, <2>1 DEF AuditPlaced, AuditTold
<1>3. CASE auditGen'[f] # auditGen[f] + 1
  <2>1. /\ auditGen'[f] = auditGen[f] /\ LogKeeps(f, Len(auditLog[f]))
        /\ AuditSize(f) <= AuditSize(f)' /\ AuditSize(f)' \in Nat
    BY <1>3 DEF AuditGrows
  <2>2. CASE c.gen = auditGen[f]
    <3>1. c.offset <= AuditSize(f)
      BY <2>2 DEF AuditPlaced
    <3>2. c.offset <= AuditSize(f)'
      BY <1>1, <2>1, <3>1
    <3>3. c.offset \div 2 <= Len(auditLog[f]) /\ c.offset \div 2 \in Nat
      BY <1>1, <3>1
    <3>4. LogKeeps(f, c.offset \div 2)
      BY <1>1, <2>1, <3>3 DEF LogKeeps
    <3>5. AuditTold(f, c)'
      BY <3>4, PromisesKept
    <3> QED
      BY <2>1, <3>2, <3>5 DEF AuditPlaced
  <2>3. CASE c.gen # auditGen[f]
    BY <2>1, <2>3 DEF AuditPlaced, AuditTold
  <2> QED
    BY <2>2, <2>3
<1> QED
  BY <1>2, <1>3

LEMMA GrownGood ==
  ASSUME AuditInv, ReportsGrow, \A f \in AuditFiles : AuditGrows(f),
         NEW claims, NEW cs \in [AuditFiles -> SUBSET AuditPosition], AuditGood(claims, cs)
  PROVE  AuditGood(claims, cs)'
<1>1. OneAuditCursor(cs)'
  BY DEF AuditGood, OneAuditCursor
<1>2. AuditKept(cs)'
  BY GrownKept DEF AuditGood, AuditKept
<1>3. ASSUME NEW f \in AuditFiles, NEW k \in claims, AuditDirOf[k] = AuditDirOf[f]
      PROVE  /\ cs[f] = {} => claimedAt'[f] = 1
             /\ \A c \in cs[f] : /\ claimedAt'[f] <= (c.offset + 3) \div 2
                                 /\ c.gen # auditGen'[f] => claimedAt'[f] = 1
  <2>1. /\ cs[f] = {} => claimedAt[f] = 1
        /\ \A c \in cs[f] : /\ claimedAt[f] <= (c.offset + 3) \div 2
                            /\ c.gen # auditGen[f] => claimedAt[f] = 1
    BY <1>3 DEF AuditGood, AuditAhead
  <2>2. AuditGrows(f)
    OBVIOUS
  <2>3. CASE auditGen'[f] = auditGen[f] /\ claimedAt'[f] = claimedAt[f]
    BY <2>1, <2>3
  <2>4. CASE claimedAt'[f] = 1
    <3>1. ASSUME NEW c \in cs[f] PROVE 1 <= (c.offset + 3) \div 2
      <4>1. c.offset \in Nat
        BY <3>1 DEF AuditPosition
      <4> QED
        BY <4>1
    <3> QED
      BY <2>4, <3>1
  <2> QED
    BY <2>2, <2>3, <2>4 DEF AuditGrows
<1>4. AuditAhead(claims, cs)'
  BY <1>3 DEF AuditAhead
<1> QED
  BY <1>1, <1>2, <1>4 DEF AuditGood

LEMMA AgentSteps ==
  ASSUME AuditInv, AuditTyped', NEW f \in AuditFiles,
         \/ \E e \in AuditEntries : BeginAuditLine(f, e)
         \/ EndAuditLine(f) \/ SwapAuditLog(f)
  PROVE  AuditInv'
<1>0. AuditTyped /\ HalfIsALine
  BY DEF AuditInv
<1>1. UNCHANGED <<auditUp, auditScan, auditClaims, auditCursors, auditDisk, reported, auditRun>>
  BY DEF BeginAuditLine, EndAuditLine, SwapAuditLog, auditMonitorVars
<1>2. ReportsGrow
  BY <1>1 DEF ReportsGrow
<1>3. \A g \in AuditFiles : g # f =>
        /\ auditLog'[g] = auditLog[g] /\ auditHalf'[g] = auditHalf[g]
        /\ auditGen'[g] = auditGen[g] /\ claimedAt'[g] = claimedAt[g]
  BY <1>0 DEF BeginAuditLine, EndAuditLine, SwapAuditLog, AuditTyped
<1>4. /\ auditLog[f] \in Seq(AuditEntries) /\ Len(auditLog[f]) \in Nat
      /\ auditHalf[f] => Len(auditLog[f]) >= 1
  <2>1. auditLog[f] \in Seq(AuditEntries)
    BY <1>0 DEF AuditTyped
  <2>2. auditHalf[f] => auditLog[f] # <<>>
    BY <1>0 DEF HalfIsALine
  <2> QED
    BY <2>1, <2>2
<1>5. HalfIsALine'
  <2>1. auditHalf'[f] => auditLog'[f] # <<>>
    <3>1. ASSUME NEW e \in AuditEntries, BeginAuditLine(f, e) PROVE auditLog'[f] # <<>>
      BY <1>0, <1>4, <3>1 DEF BeginAuditLine, AuditTyped
    <3>2. CASE EndAuditLine(f)
      BY <1>0, <3>2 DEF EndAuditLine, AuditTyped
    <3>3. CASE SwapAuditLog(f)
      BY <1>0, <3>3 DEF SwapAuditLog, AuditTyped
    <3> QED
      BY <3>1, <3>2, <3>3
  <2> QED
    BY <1>0, <1>3, <2>1 DEF HalfIsALine
<1>7. AuditGrows(f)
  <2>1. ASSUME NEW e \in AuditEntries, BeginAuditLine(f, e) PROVE AuditGrows(f)
    <3>1. /\ auditLog'[f] = Append(auditLog[f], e) /\ auditHalf'[f] = TRUE /\ ~auditHalf[f]
          /\ auditGen'[f] = auditGen[f] /\ claimedAt'[f] = claimedAt[f]
      BY <1>0, <2>1 DEF BeginAuditLine, AuditTyped
    <3>2. LogKeeps(f, Len(auditLog[f])) /\ Len(auditLog'[f]) = Len(auditLog[f]) + 1
      BY <1>4, <3>1 DEF LogKeeps
    <3>3. AuditSize(f) = 2 * Len(auditLog[f]) /\ AuditSize(f)' = 2 * (Len(auditLog[f]) + 1) - 1
      <4>1. AuditSize(f) = 2 * Len(auditLog[f]) - 0 /\ AuditSize(f)' = 2 * Len(auditLog'[f]) - 1
        BY <3>1 DEF AuditSize
      <4> QED
        BY <1>4, <3>2, <4>1
    <3>4. AuditSize(f) <= AuditSize(f)' /\ AuditSize(f)' \in Nat
      BY <1>4, <3>3
    <3> QED
      BY <3>1, <3>2, <3>4 DEF AuditGrows
  <2>2. CASE EndAuditLine(f)
    <3>1. /\ auditLog'[f] = auditLog[f] /\ auditHalf'[f] = FALSE /\ auditHalf[f]
          /\ auditGen'[f] = auditGen[f] /\ claimedAt'[f] = claimedAt[f]
      BY <1>0, <2>2 DEF EndAuditLine, AuditTyped
    <3>2. AuditSize(f) = 2 * Len(auditLog[f]) - 1 /\ AuditSize(f)' = 2 * Len(auditLog[f]) - 0
      BY <3>1 DEF AuditSize
    <3>3. AuditSize(f) <= AuditSize(f)' /\ AuditSize(f)' \in Nat
      BY <1>4, <3>2
    <3> QED
      BY <3>1, <3>3 DEF AuditGrows, LogKeeps
  <2>3. CASE SwapAuditLog(f)
    BY <1>0, <2>3 DEF SwapAuditLog, AuditTyped, AuditGrows
  <2> QED
    BY <2>1, <2>2, <2>3
<1>8. \A g \in AuditFiles : AuditGrows(g)
  <2>1. ASSUME NEW g \in AuditFiles, g # f PROVE AuditGrows(g)
    <3>1. AuditSize(g)' = AuditSize(g) /\ AuditSize(g) \in Nat
      BY <1>0, <1>3, <2>1, AuditSizeOf DEF AuditSize
    <3>2. AuditSize(g) <= AuditSize(g)'
      BY <3>1
    <3> QED
      BY <1>3, <2>1, <3>1, <3>2 DEF AuditGrows, LogKeeps
  <2> QED
    BY <1>7, <2>1
<1>9. AuditGood(auditClaims, auditCursors)' /\ AuditGood(auditDisk.claims, auditDisk.cursors)'
  <2>1. /\ auditCursors \in [AuditFiles -> SUBSET AuditPosition]
        /\ auditDisk.cursors \in [AuditFiles -> SUBSET AuditPosition]
        /\ AuditGood(auditClaims, auditCursors) /\ AuditGood(auditDisk.claims, auditDisk.cursors)
    BY DEF AuditInv, AuditTyped
  <2>2. ASSUME NEW claims, NEW cs \in [AuditFiles -> SUBSET AuditPosition], AuditGood(claims, cs)
        PROVE  AuditGood(claims, cs)'
    BY <1>2, <1>8, <2>2, GrownGood
  <2>3. \A claims, cs : claims = auditClaims /\ cs = auditCursors => AuditGood(claims, cs)'
    BY <2>1, <2>2
  <2>4. \A claims, cs : claims = auditDisk.claims /\ cs = auditDisk.cursors => AuditGood(claims, cs)'
    BY <2>1, <2>2
  <2> QED
    BY <1>1, <2>3, <2>4 DEF AuditGood, OneAuditCursor, AuditKept, AuditAhead
<1>10. AuditBehind'
  <2> SUFFICES ASSUME NEW k \in DOMAIN reported
               PROVE  /\ reported[k].run <= auditRun
                      /\ reported[k].gen <= auditGen'[reported[k].file]
                      /\ auditUp # "down" /\ reported[k].run = auditRun
                           /\ reported[k].gen = auditGen'[reported[k].file] =>
                           \E c \in auditCursors[reported[k].file] :
                             2 * reported[k].line <= c.offset /\ c.offset <= AuditSize(reported[k].file)'
    BY <1>1 DEF AuditBehind
  <2>1. reported[k] \in AuditRecord
    BY <1>0 DEF AuditTyped
  <2> DEFINE g == reported[k].file
  <2>2. g \in AuditFiles /\ reported[k].line \in Nat /\ reported[k].gen \in Nat /\ auditGen[g] \in Nat
    BY <1>0, <2>1 DEF AuditRecord, AuditTyped
  <2>3. /\ reported[k].run <= auditRun /\ reported[k].gen <= auditGen[g]
        /\ auditUp # "down" /\ reported[k].run = auditRun /\ reported[k].gen = auditGen[g] =>
             \E c \in auditCursors[g] : 2 * reported[k].line <= c.offset /\ c.offset <= AuditSize(g)
    BY DEF AuditInv, AuditBehind
  <2>4. \A c \in auditCursors[g] : c.offset \in Nat
    BY <1>0, <2>2 DEF AuditTyped, AuditPosition
  <2>5. AuditSize(g) \in Nat
    BY <1>0, <2>2, AuditSizeOf
  <2> HIDE DEF g
  <2>6. CASE auditGen'[g] = auditGen[g] + 1
    <3>1. reported[k].gen <= auditGen'[g] /\ reported[k].gen # auditGen'[g]
      BY <2>2, <2>3, <2>6
    <3> QED
      BY <2>3, <3>1 DEF g
  <2>7. CASE auditGen'[g] = auditGen[g] /\ AuditSize(g) <= AuditSize(reported[k].file)'
             /\ AuditSize(reported[k].file)' \in Nat
    <3>1. \A c \in auditCursors[g] : c.offset <= AuditSize(g) => c.offset <= AuditSize(reported[k].file)'
      BY <2>4, <2>5, <2>7
    <3> QED
      BY <2>3, <2>7, <3>1 DEF g
  <2>8. AuditGrows(reported[k].file)
    BY <1>8, <2>2 DEF g
  <2> QED
    BY <2>6, <2>7, <2>8 DEF AuditGrows, g
<1>11. AuditScanned' /\ AuditOnce'
  BY <1>1 DEF AuditInv, AuditScanned, AuditClaimsOn, AuditOnce
<1> QED
  BY <1>5, <1>9, <1>10, <1>11 DEF AuditInv

-----------------------------------------------------------------------------
(* What the OpenAgent monitor promises.                                     *)

LEMMA AuditStep == AuditInv /\ [AuditNext]_auditVars => AuditInv'
<1> SUFFICES ASSUME AuditInv, [AuditNext]_auditVars PROVE AuditInv'
  OBVIOUS
<1>1. CASE AuditNext
  <2>1. AuditTyped'
    BY <1>1, AuditTypedStep
  <2> QED
    BY <1>1, <2>1, AuditSteadySteps, EnableAuditInv, EnableAuditFailsInv, OpenAuditLogInv,
       ConsumeAuditLineInv, StopAuditInv, StartAuditInv, AgentSteps DEF AuditNext
<1>2. CASE UNCHANGED auditVars
  <2>1. /\ UNCHANGED <<auditLog, auditHalf, auditGen, claimedAt, auditUp, auditCursors,
                       reported, auditRun, auditScan, auditClaims, auditDisk>>
    BY <1>2 DEF auditVars
  <2>2. AuditTyped' /\ AuditScanned'
    BY <1>2 DEF AuditInv, AuditTyped, AuditScanned, AuditClaimsOn, auditVars
  <2> QED
    BY <2>1, <2>2, AuditSteady
<1> QED
  BY <1>1, <1>2

LEMMA AuditInvariant == AuditSpec => []AuditInv
<1> QED
  BY AuditInitInv, AuditStep, PTL DEF AuditSpec

\* The types of the variables of the OpenAgent monitor.
THEOREM AuditTypesHold == AuditSpec => []AuditTypeOK
<1>1. AuditInv => AuditTypeOK
  <2> SUFFICES ASSUME AuditInv PROVE AuditTypeOK
    OBVIOUS
  <2>1. AuditTyped /\ AuditScanned
    BY DEF AuditInv
  <2>2. ASSUME NEW f \in AuditFiles PROVE Cardinality(auditCursors[f]) <= 1
    <3>1. CASE auditCursors[f] = {}
      <4>1. Cardinality(auditCursors[f]) = 0
        BY <3>1, FS_EmptySet
      <4> QED
        BY <4>1
    <3>2. CASE auditCursors[f] # {}
      <4>1. PICK c : c \in auditCursors[f]
        BY <3>2
      <4>2. auditCursors[f] = {c}
        BY <4>1 DEF AuditInv, AuditGood, OneAuditCursor
      <4>3. Cardinality(auditCursors[f]) = 1
        BY <4>2, FS_Singleton
      <4> QED
        BY <4>3
    <3> QED
      BY <3>1, <3>2
  <2>3. auditScan.todo \cup ({auditScan.at} \ {NoAudit})
          \subseteq {f \in AuditFiles : AuditClaimsOn(AuditDirOf[f]) # {}}
    BY <2>1 DEF AuditTyped, AuditScanned
  <2> QED
    BY <2>1, <2>2, <2>3 DEF AuditTypeOK, AuditTyped
<1> QED
  BY <1>1, AuditInvariant, PTL

\* Patching never replays what the agent logged before its directory was last
\* claimed: a line is only recorded from a position at or after that line.
THEOREM NothingIsReplayed == AuditSpec => NoHistory
<1> DEFINE NewLines == \A i \in Len(reported) + 1 .. Len(reported') :
                         reported'[i].line >= claimedAt[reported'[i].file]
<1>1. AuditInv /\ [AuditNext]_auditVars => [NewLines]_auditVars
  <2> SUFFICES ASSUME AuditInv, AuditNext PROVE NewLines
    OBVIOUS
  <2>1. AuditTyped /\ reported \in Seq(AuditRecord) /\ Len(reported) \in Nat
    BY DEF AuditInv, AuditTyped
  <2>2. CASE UNCHANGED reported
    <3>1. Len(reported) + 1 .. Len(reported') = {}
      BY <2>1, <2>2
    <3> QED
      BY <3>1
  <2>3. CASE ConsumeAuditLine
    <3>r. SUFFICES ASSUME NEW f, f = auditScan.at, NEW c, c = AuditCursor(f),
                          NEW n, n = AuditLineAt(c.offset), NEW e, e = auditLog[f][n]
                   PROVE  NewLines
      OBVIOUS
    <3>1. /\ f \in AuditFiles /\ auditCursors[f] = {c} /\ c \in AuditPosition
          /\ n \in 1..Len(auditLog[f])
          /\ 2 * n = c.offset + 2 \/ 2 * n = c.offset + 1
          /\ reported' = IF c.offset % 2 = 0 /\ YieldsRecord(e)
                         THEN Append(reported, AuditRecordOf(f, c, e)) ELSE reported
      BY <2>3, <3>r, AuditLineRecords
    <3>2. f # NoAudit
      BY <2>3, <3>r DEF ConsumeAuditLine
    <3>3. \E k \in auditClaims : AuditDirOf[k] = AuditDirOf[f]
      BY <3>r, <3>2 DEF AuditInv, AuditScanned, AuditClaimsOn
    <3>4. claimedAt[f] <= (c.offset + 3) \div 2 /\ claimedAt[f] \in Nat
      BY <2>1, <3>1, <3>3 DEF AuditInv, AuditGood, AuditAhead, AuditTyped
    <3>5. CASE reported' = Append(reported, AuditRecordOf(f, c, e)) /\ c.offset % 2 = 0
      <4>1. n \in Nat /\ c.offset \in Nat
        BY <2>1, <3>1 DEF AuditTyped, AuditPosition
      <4>2. (c.offset + 3) \div 2 = n
        BY SMTT(40), <3>1, <3>5, <4>1
      <4>3. n >= claimedAt[f]
        BY <3>4, <4>1, <4>2
      <4>4. AuditRecordOf(f, c, e).line = n /\ AuditRecordOf(f, c, e).file = f
        BY <3>r DEF AuditRecordOf
      <4>5. \A r : reported' = Append(reported, r) =>
              /\ Len(reported') = Len(reported) + 1
              /\ reported'[Len(reported) + 1] = r
        BY <2>1
      <4>6. Len(reported') = Len(reported) + 1 /\ reported'[Len(reported) + 1] = AuditRecordOf(f, c, e)
        BY <3>5, <4>5
      <4>7. \A i \in Len(reported) + 1 .. Len(reported') : i = Len(reported) + 1
        BY <2>1, <4>6
      <4> QED
        BY <4>3, <4>4, <4>6, <4>7
    <3> QED
      BY <2>2, <3>1, <3>5
  <2> QED
    BY <2>2, <2>3 DEF AuditNext, EnableAudit, EnableAuditFails, DisableAudit, BeginAuditPoll,
       CloseAuditLog, EndAuditPoll, OpenAuditLog, EndAuditLine, SwapAuditLog, BeginAuditLine,
       StopAudit, StartAudit
<1> QED
  BY <1>1, AuditInvariant, PTL DEF AuditSpec, NoHistory

\* What a log says from where it was seeded to the cursor is reported, in the
\* session it names last and, if denied, as denied, and once in each run.
THEOREM EveryEventIsReported == AuditSpec => []EventsAreReported
<1>1. AuditInv => EventsAreReported
  BY DEF AuditInv, AuditGood, AuditKept, AuditTold, AuditFirst, AuditOnce, EventsAreReported
<1> QED
  BY <1>1, AuditInvariant, PTL

-----------------------------------------------------------------------------
(* The refinement of LogTail by the OpenAgent monitor.                      *)

AuditSizes == [f \in AuditFiles |-> AuditSize(f)]
AuditTailOf(disk) ==
  [pos |-> AuditPositions(disk.cursors), followed |-> AuditFollowed(disk.claims)]

LEMMA BlankIsNowhere ==
  /\ AuditPositions(AuditBlank.cursors) = AT!Nowhere
  /\ AuditFollowed({}) = {}
  /\ AuditTailOf(AuditTorn) = AT!NothingSaved /\ AuditTailOf(AuditBlank) = AT!NothingSaved
<1>1. /\ \A f \in AuditFiles : AuditTorn.cursors[f] = {}
      /\ AuditBlank.cursors = AuditTorn.cursors /\ AuditTorn.claims = {} /\ AuditBlank.claims = {}
  BY DEF AuditTorn, AuditBlank
<1>2. AuditPositions(AuditTorn.cursors) = AT!Nowhere
  BY <1>1 DEF AuditPositions, AT!Nowhere
<1>3. AuditFollowed({}) = {}
  BY DEF AuditFollowed
<1> QED
  BY <1>1, <1>2, <1>3 DEF AuditTailOf, AT!NothingSaved

LEMMA AuditInitTail == AuditInit => AT!Init
<1> SUFFICES ASSUME AuditInit PROVE AT!Init
  OBVIOUS
<1>1. \A f \in AuditFiles : AuditSize(f) = 0
  BY DEF AuditInit, AuditSize
<1>2. AuditSizes = AT!Nowhere
  BY <1>1 DEF AuditSizes, AT!Nowhere
<1> QED
  BY <1>2, BlankIsNowhere DEF AuditInit, AT!Init, AuditSizes, AuditTailOf

LEMMA AuditSizesKept ==
  ASSUME UNCHANGED <<auditLog, auditHalf>>
  PROVE  AuditSizes' = AuditSizes
BY DEF AuditSizes, AuditSize

LEMMA AuditPositionOfOne ==
  ASSUME NEW cs, NEW f \in AuditFiles, NEW c, cs[f] = {c}
  PROVE  AuditPositions(cs)[f] = c.offset
<1>1. (CHOOSE d \in {c} : TRUE) = c
  OBVIOUS
<1> QED
  BY <1>1 DEF AuditPositions

LEMMA AuditSamePosition ==
  ASSUME NEW cs, NEW ds, NEW f \in AuditFiles, cs[f] = ds[f]
  PROVE  AuditPositions(cs)[f] = AuditPositions(ds)[f]
<1>1. (CHOOSE c \in cs[f] : TRUE) = (CHOOSE c \in ds[f] : TRUE)
  BY Zenon
<1> QED
  BY <1>1 DEF AuditPositions

\* A log whose cursors are replaced by one is where that one is; the others
\* are where they were.
LEMMA AuditOneMoved ==
  ASSUME NEW cs \in [AuditFiles -> SUBSET AuditPosition], NEW f \in AuditFiles, NEW d
  PROVE  AuditPositions([cs EXCEPT ![f] = {d}]) = [AuditPositions(cs) EXCEPT ![f] = d.offset]
<1> DEFINE ds == [cs EXCEPT ![f] = {d}]
<1>1. ds[f] = {d} /\ \A g \in AuditFiles : g # f => ds[g] = cs[g]
  OBVIOUS
<1> HIDE DEF ds
<1>2. AuditPositions(ds)[f] = d.offset
  BY <1>1, AuditPositionOfOne
<1>3. \A g \in AuditFiles : g # f => AuditPositions(ds)[g] = AuditPositions(cs)[g]
  BY <1>1, AuditSamePosition
<1>4. /\ AuditPositions(ds) = [g \in AuditFiles |-> AuditPositions(ds)[g]]
      /\ AuditPositions(cs) = [g \in AuditFiles |-> AuditPositions(cs)[g]]
  BY DEF AuditPositions
<1> QED
  BY <1>2, <1>3, <1>4 DEF ds

\* Seeding puts logs at their ends and leaves the others where they are.
AuditSkip(logs) ==
  [f \in AuditFiles |-> IF f \in logs THEN AuditSizes[f] ELSE AuditPositions(auditCursors)[f]]

LEMMA AuditSeededAt ==
  ASSUME AuditInv, NEW logs \in SUBSET AuditFiles
  PROVE  AuditPositions(AuditSeeded(logs)) = AuditSkip(logs)
<1>1. \A f \in AuditFiles :
        AuditSeeded(logs)[f] = IF f \in logs THEN {AuditCursorFor(f, TRUE)} ELSE auditCursors[f]
  BY DEF AuditSeeded
<1>2. ASSUME NEW f \in AuditFiles PROVE AuditPositions(AuditSeeded(logs))[f] = AuditSkip(logs)[f]
  <2>1. CASE f \in logs
    <3> DEFINE s == AuditCursorFor(f, TRUE)
    <3>1. AuditSeeded(logs)[f] = {s}
      BY <1>1, <2>1
    <3>2. s.offset = AuditSize(f)
      BY SeededAtEnd
    <3> HIDE DEF s
    <3>3. AuditPositions(AuditSeeded(logs))[f] = AuditSize(f)
      BY <3>1, <3>2, AuditPositionOfOne
    <3> QED
      BY <2>1, <3>3 DEF AuditSkip, AuditSizes
  <2>2. CASE f \notin logs
    <3>1. AuditPositions(AuditSeeded(logs))[f] = AuditPositions(auditCursors)[f]
      BY <1>1, <2>2, AuditSamePosition
    <3> QED
      BY <2>2, <3>1 DEF AuditSkip
  <2> QED
    BY <2>1, <2>2
<1>3. AuditPositions(AuditSeeded(logs)) = [f \in AuditFiles |-> AuditPositions(AuditSeeded(logs))[f]]
  BY DEF AuditPositions
<1>4. AuditSkip(logs) = [f \in AuditFiles |-> AuditSkip(logs)[f]]
  BY DEF AuditSkip
<1> QED
  BY <1>2, <1>3, <1>4

\* What a save, or a failed one, leaves of the positions on disk.
LEMMA AuditSavedTail ==
  ASSUME NEW claims, NEW cs, AuditSaved(claims, cs)
  PROVE  AuditTailOf(auditDisk') = [pos |-> AuditPositions(cs), followed |-> AuditFollowed(claims)]
BY DEF AuditSaved, AuditTailOf

LEMMA AuditFailedTail ==
  ASSUME AuditSaveFailed
  PROVE  AuditTailOf(auditDisk') \in {AuditTailOf(auditDisk), AT!NothingSaved}
BY BlankIsNowhere DEF AuditSaveFailed

\* Patching skips to the end of logs nobody follows.
LEMMA EnableAuditTail ==
  ASSUME AuditInv, NEW c \in AuditClaims, EnableAudit(c) \/ EnableAuditFails(c)
  PROVE  AT!Follow
<1>1. AuditSizes' = AuditSizes /\ auditUp' = auditUp /\ auditUp # "down"
  BY AuditSizesKept DEF EnableAudit, EnableAuditFails, AuditQuiet, auditAgentVars
<1>2. AuditFollowed(auditClaims') \subseteq AuditFiles
  BY DEF AuditFollowed
<1>3. auditClaims \subseteq auditClaims' => AuditFollowed(auditClaims) \subseteq AuditFollowed(auditClaims')
  BY DEF AuditFollowed
<1>4. \E logs \in SUBSET (AuditFiles \ AuditFollowed(auditClaims)) :
        AuditPositions(auditCursors') = AuditSkip(logs)
  <2>1. CASE auditCursors' = auditCursors
    <3>1. AuditPositions(auditCursors) = AuditSkip({})
      BY DEF AuditPositions, AuditSkip
    <3> QED
      BY <2>1, <3>1
  <2>2. ASSUME NEW logs \in SUBSET AuditLogsIn(AuditDirOf[c]), AuditClaimsOn(AuditDirOf[c]) = {},
               auditCursors' = AuditSeeded(logs)
        PROVE  \E ls \in SUBSET (AuditFiles \ AuditFollowed(auditClaims)) :
                 AuditPositions(auditCursors') = AuditSkip(ls)
    <3>1. logs \in SUBSET (AuditFiles \ AuditFollowed(auditClaims)) /\ logs \in SUBSET AuditFiles
      BY <2>2 DEF AuditLogsIn, AuditClaimsOn, AuditFollowed
    <3> QED
      BY <2>2, <3>1, AuditSeededAt
  <2>3. \/ auditCursors' = auditCursors
        \/ /\ AuditClaimsOn(AuditDirOf[c]) = {}
           /\ \E logs \in SUBSET AuditLogsIn(AuditDirOf[c]) : auditCursors' = AuditSeeded(logs)
    BY DEF EnableAudit, EnableAuditFails
  <2> QED
    BY <2>1, <2>2, <2>3
<1>5. \/ /\ auditClaims \subseteq auditClaims'
         /\ AuditTailOf(auditDisk') =
              [pos |-> AuditPositions(auditCursors'), followed |-> AuditFollowed(auditClaims')]
      \/ auditClaims' = auditClaims /\ AuditTailOf(auditDisk') \in {AuditTailOf(auditDisk), AT!NothingSaved}
  <2>1. CASE EnableAudit(c)
    <3>1. CASE AuditSaved(auditClaims', auditCursors') /\ auditClaims' = auditClaims \cup {c}
      BY <3>1, AuditSavedTail
    <3>2. CASE AuditSaveFailed /\ UNCHANGED auditClaims
      BY <3>2, AuditFailedTail
    <3> QED
      BY <2>1, <3>1, <3>2 DEF EnableAudit, AuditSaved
  <2>2. CASE EnableAuditFails(c)
    BY <2>2 DEF EnableAuditFails
  <2> QED
    BY <2>1, <2>2
<1> QED
  BY <1>1, <1>2, <1>3, <1>4, <1>5 DEF AT!Follow, AuditSizes, AuditTailOf, AuditSkip

\* Opening a log rewinds one that shrank, or finds the position it has.
LEMMA OpenAuditTail ==
  ASSUME AuditInv, NEW f \in AuditFiles, OpenAuditLog(f)
  PROVE  AT!Rewind(f) \/ UNCHANGED AT!tail
<1> DEFINE d == AuditCursorFor(f, FALSE)
<1>0. auditCursors \in [AuditFiles -> SUBSET AuditPosition] /\ OneAuditCursor(auditCursors)
  BY DEF AuditInv, AuditTyped, AuditGood
<1>1. /\ UNCHANGED <<auditUp, auditClaims, auditDisk>> /\ auditUp # "down"
      /\ AuditSizes' = AuditSizes
      /\ auditCursors' = [auditCursors EXCEPT ![f] = {d}]
  BY AuditSizesKept DEF OpenAuditLog, auditAgentVars, AuditInv, AuditScanned
<1>2. f \in AuditFollowed(auditClaims)
  BY DEF OpenAuditLog, AuditClaimsOn, AuditFollowed
<1>3. AuditPositions(auditCursors') = [AuditPositions(auditCursors) EXCEPT ![f] = d.offset]
  BY <1>0, <1>1, AuditOneMoved
<1>4. CASE d \in auditCursors[f] \/ (auditCursors[f] = {} /\ d.offset = 0)
  <2>1. AuditPositions(auditCursors)[f] = d.offset
    <3>1. CASE d \in auditCursors[f]
      <4>1. auditCursors[f] = {d}
        BY <1>0, <3>1 DEF OneAuditCursor
      <4> HIDE DEF d
      <4> QED
        BY <4>1, AuditPositionOfOne
    <3>2. CASE auditCursors[f] = {} /\ d.offset = 0
      BY <3>2 DEF AuditPositions
    <3> QED
      BY <1>4, <3>1, <3>2
  <2>2. AuditPositions(auditCursors') = AuditPositions(auditCursors)
    BY <1>3, <2>1 DEF AuditPositions
  <2> QED
    BY <1>1, <2>2 DEF AT!tail, AuditSizes, AuditTailOf
<1>5. ASSUME d.offset = 0, NEW c \in auditCursors[f], c.offset > AuditSize(f)
      PROVE  AT!Rewind(f)
  <2>1. auditCursors[f] = {c} /\ c.offset \in Nat
    BY <1>0, <1>5 DEF OneAuditCursor, AuditPosition
  <2>2. AuditPositions(auditCursors)[f] = c.offset
    BY <2>1, AuditPositionOfOne
  <2>3. AuditSizes[f] < AuditPositions(auditCursors)[f]
    <3>1. AuditSize(f) \in Nat /\ AuditSizes[f] = AuditSize(f)
      BY AuditSizeOf DEF AuditInv, AuditSizes
    <3> QED
      BY <1>5, <2>1, <2>2, <3>1
  <2>4. AuditPositions(auditCursors') = [AuditPositions(auditCursors) EXCEPT ![f] = 0]
    BY <1>3, <1>5
  <2> QED
    BY <1>1, <1>2, <2>3, <2>4 DEF AT!Rewind, AuditSizes, AuditTailOf
<1> QED
  BY <1>4, <1>5, OpenedAt

\* A line read moves the position over text of a followed log.
LEMMA ConsumeAuditTail ==
  ASSUME AuditInv, ConsumeAuditLine
  PROVE  AT!Read(auditScan.at)
<1>r. SUFFICES ASSUME NEW f, f = auditScan.at, NEW c, c = AuditCursor(f),
                      NEW n, n = AuditLineAt(c.offset), NEW e, e = auditLog[f][n],
                      NEW d, d = [c EXCEPT !.offset = 2 * n,
                                           !.session = IF c.offset % 2 = 1 THEN c.session
                                                       ELSE SessionAfter(c, {e})]
               PROVE  AT!Read(f)
  OBVIOUS
<1>1. /\ f \in AuditFiles /\ auditCursors[f] = {c} /\ c \in AuditPosition
      /\ n \in 1..Len(auditLog[f])
      /\ 2 * n = c.offset + 2 \/ 2 * n = c.offset + 1
      /\ 2 * n <= AuditSize(f)
      /\ auditCursors' = [auditCursors EXCEPT ![f] = {d}]
  BY <1>r, AuditLineRecords
<1>2. /\ UNCHANGED <<auditUp, auditClaims, auditDisk>> /\ AuditSizes' = AuditSizes
      /\ f # NoAudit
  BY <1>r, AuditSizesKept DEF ConsumeAuditLine, auditAgentVars
<1>3. auditUp # "down" /\ f \in AuditFollowed(auditClaims)
  BY <1>r, <1>1, <1>2 DEF AuditInv, AuditScanned, AuditClaimsOn, AuditFollowed
<1>4. d.offset = 2 * n /\ c.offset \in Nat
  BY <1>r, <1>1 DEF AuditPosition
<1>5. AuditPositions(auditCursors') = [AuditPositions(auditCursors) EXCEPT ![f] = 2 * n]
  <2>1. auditCursors \in [AuditFiles -> SUBSET AuditPosition]
    BY DEF AuditInv, AuditTyped
  <2>2. AuditPositions(auditCursors') = [AuditPositions(auditCursors) EXCEPT ![f] = d.offset]
    BY <1>1, <2>1, AuditOneMoved
  <2> QED
    BY <1>4, <2>2
<1>6. AuditPositions(auditCursors)[f] = c.offset
  BY <1>1, AuditPositionOfOne
<1>7. 2 * n \in AuditPositions(auditCursors)[f] + 1 .. AuditSizes[f]
  <2>1. AuditSize(f) \in Nat /\ AuditSizes[f] = AuditSize(f) /\ Len(auditLog[f]) \in Nat
    BY <1>1, AuditSizeOf DEF AuditInv, AuditSizes
  <2>2. 2 * n \in c.offset + 1 .. AuditSize(f)
    BY <1>1, <1>4, <2>1
  <2> QED
    BY <1>6, <2>1, <2>2
<1> QED
  BY <1>2, <1>3, <1>5, <1>7 DEF AT!Read, AuditSizes, AuditTailOf

\* Unpatching, the rest of a poll, a stop and a start.
LEMMA AuditQuietTail ==
  ASSUME AuditInv,
         \/ \E c \in AuditClaims : DisableAudit(c)
         \/ BeginAuditPoll \/ CloseAuditLog \/ EndAuditPoll
  PROVE  AT!Unfollow \/ AT!Save \/ UNCHANGED AT!tail
<1>1. UNCHANGED <<auditUp, auditCursors>> /\ AuditSizes' = AuditSizes
  BY AuditSizesKept DEF DisableAudit, BeginAuditPoll, CloseAuditLog, EndAuditPoll, auditAgentVars,
     auditMonitorVars
<1>2. ASSUME NEW c \in AuditClaims, DisableAudit(c) PROVE AT!Unfollow
  <2>1. auditUp # "down"
    BY <1>2 DEF DisableAudit, AuditQuiet
  <2>2. \/ /\ auditClaims' \subseteq auditClaims
           /\ AuditTailOf(auditDisk') =
                [pos |-> AuditPositions(auditCursors), followed |-> AuditFollowed(auditClaims')]
        \/ auditClaims' = auditClaims /\ AuditTailOf(auditDisk') \in {AuditTailOf(auditDisk), AT!NothingSaved}
    BY <1>2, AuditSavedTail, AuditFailedTail DEF DisableAudit
  <2>3. auditClaims' \subseteq auditClaims => AuditFollowed(auditClaims') \subseteq AuditFollowed(auditClaims)
    BY DEF AuditFollowed
  <2> QED
    BY <1>1, <2>1, <2>2, <2>3 DEF AT!Unfollow, AuditSizes, AuditTailOf
<1>3. CASE EndAuditPoll
  <2>1. auditUp # "down" /\ auditClaims' = auditClaims
    BY <1>3 DEF EndAuditPoll, AuditInv, AuditScanned
  <2>2. AuditTailOf(auditDisk') \in
          {[pos |-> AuditPositions(auditCursors), followed |-> AuditFollowed(auditClaims)],
           AuditTailOf(auditDisk), AT!NothingSaved}
    <3>1. CASE auditDisk' = auditDisk
      BY <3>1
    <3>2. CASE AuditSaved(auditClaims, auditCursors)
      BY <3>2, AuditSavedTail
    <3>3. CASE AuditSaveFailed
      BY <3>3, AuditFailedTail
    <3> QED
      BY <1>3, <3>1, <3>2, <3>3 DEF EndAuditPoll
  <2> QED
    BY <1>1, <2>1, <2>2 DEF AT!Save, AT!SaveOutcomes, AuditSizes, AuditTailOf
<1>4. CASE BeginAuditPoll \/ CloseAuditLog
  <2>1. UNCHANGED <<auditClaims, auditDisk>>
    BY <1>4 DEF BeginAuditPoll, CloseAuditLog, auditMonitorVars
  <2> QED
    BY <1>1, <2>1 DEF AT!tail, AuditSizes, AuditTailOf
<1> QED
  BY <1>2, <1>3, <1>4

LEMMA AuditLifeTail ==
  ASSUME AuditInv, StopAudit \/ StartAudit
  PROVE  AT!Stop \/ AT!Restart
<1>1. AuditSizes' = AuditSizes
  BY AuditSizesKept DEF StopAudit, StartAudit, auditAgentVars
<1>2. CASE StopAudit
  <2>1. AuditTailOf(auditDisk') \in {AuditTailOf(auditDisk), AT!NothingSaved}
    BY <1>2, BlankIsNowhere DEF StopAudit
  <2>2. /\ AuditPositions(auditCursors') = AT!Nowhere /\ AuditFollowed(auditClaims') = {}
        /\ auditUp' = "down"
    BY <1>2, BlankIsNowhere DEF StopAudit
  <2> QED
    BY <1>1, <2>1, <2>2 DEF AT!Stop, AuditSizes, AuditTailOf
<1>3. CASE StartAudit
  <2>1. /\ auditUp = "down" /\ auditUp' # "down" /\ auditDisk' = auditDisk
        /\ auditClaims' = auditDisk.claims /\ auditCursors' = auditDisk.cursors
    BY <1>3 DEF StartAudit
  <2> QED
    BY <1>1, <2>1 DEF AT!Restart, AuditSizes, AuditTailOf
<1> QED
  BY <1>2, <1>3

LEMMA AuditAgentTail ==
  ASSUME AuditInv, NEW f \in AuditFiles,
         EndAuditLine(f) \/ SwapAuditLog(f) \/ \E e \in AuditEntries : BeginAuditLine(f, e)
  PROVE  AT!Write(f) \/ AT!Truncate(f)
<1>0. /\ auditLog \in [AuditFiles -> Seq(AuditEntries)] /\ auditHalf \in [AuditFiles -> BOOLEAN]
      /\ auditLog[f] \in Seq(AuditEntries) /\ Len(auditLog[f]) \in Nat
  BY DEF AuditInv, AuditTyped
<1>1. UNCHANGED <<auditUp, auditClaims, auditCursors, auditDisk>>
  BY DEF EndAuditLine, SwapAuditLog, BeginAuditLine, auditMonitorVars
<1>2. ASSUME NEW g \in AuditFiles, g # f PROVE AuditSize(g)' = AuditSize(g)
  <2>1. auditLog'[g] = auditLog[g] /\ auditHalf'[g] = auditHalf[g]
    BY <1>0, <1>2 DEF EndAuditLine, SwapAuditLog, BeginAuditLine
  <2> QED
    BY <2>1 DEF AuditSize
<1>3. CASE SwapAuditLog(f)
  <2>1. auditLog'[f] = <<>> /\ ~auditHalf'[f]
    BY <1>0, <1>3 DEF SwapAuditLog
  <2>2. AuditSize(f)' = 0
    BY <2>1 DEF AuditSize
  <2>3. AuditSizes' = [AuditSizes EXCEPT ![f] = 0]
    BY <1>2, <2>2 DEF AuditSizes
  <2> QED
    BY <1>1, <2>3 DEF AT!Truncate, AuditSizes, AuditTailOf
<1>4. CASE EndAuditLine(f) \/ \E e \in AuditEntries : BeginAuditLine(f, e)
  <2>1. AuditSize(f)' = AuditSize(f) + 1
    <3>1. ASSUME NEW e \in AuditEntries, BeginAuditLine(f, e) PROVE AuditSize(f)' = AuditSize(f) + 1
      <4>1. auditLog'[f] = Append(auditLog[f], e) /\ auditHalf'[f] /\ ~auditHalf[f]
        BY <1>0, <3>1 DEF BeginAuditLine
      <4>2. Len(auditLog'[f]) = Len(auditLog[f]) + 1
        BY <1>0, <4>1
      <4> QED
        BY <1>0, <4>1, <4>2 DEF AuditSize
    <3>2. CASE EndAuditLine(f)
      <4>1. auditLog'[f] = auditLog[f] /\ ~auditHalf'[f] /\ auditHalf[f]
        BY <1>0, <3>2 DEF EndAuditLine
      <4> QED
        BY <1>0, <4>1 DEF AuditSize
    <3> QED
      BY <1>4, <3>1, <3>2
  <2>2. AuditSizes' = [AuditSizes EXCEPT ![f] = @ + 1]
    BY <1>2, <2>1 DEF AuditSizes
  <2> QED
    BY <1>1, <2>2 DEF AT!Write, AuditSizes, AuditTailOf
<1> QED
  BY <1>3, <1>4

LEMMA AuditTailStep == AuditInv /\ [AuditNext]_auditVars => [AT!Next]_(AT!tail)
<1> SUFFICES ASSUME AuditInv, [AuditNext]_auditVars PROVE [AT!Next]_(AT!tail)
  OBVIOUS
<1>1. CASE \E c \in AuditClaims : EnableAudit(c) \/ EnableAuditFails(c)
  BY <1>1, EnableAuditTail DEF AT!Next
<1>2. CASE \/ \E c \in AuditClaims : DisableAudit(c)
           \/ BeginAuditPoll \/ CloseAuditLog \/ EndAuditPoll
  BY <1>2, AuditQuietTail DEF AT!Next
<1>3. CASE ConsumeAuditLine
  <2>1. auditScan.at \in AuditFiles
    BY <1>3, AuditLineRecords
  <2> QED
    BY <1>3, <2>1, ConsumeAuditTail DEF AT!Next
<1>4. CASE \E f \in AuditFiles : OpenAuditLog(f)
  BY <1>4, OpenAuditTail DEF AT!Next
<1>5. CASE \E f \in AuditFiles : \/ EndAuditLine(f) \/ SwapAuditLog(f)
                                 \/ \E e \in AuditEntries : BeginAuditLine(f, e)
  BY <1>5, AuditAgentTail DEF AT!Next
<1>6. CASE StopAudit \/ StartAudit
  BY <1>6, AuditLifeTail DEF AT!Next
<1>7. CASE UNCHANGED auditVars
  <2>1. UNCHANGED <<auditUp, auditClaims, auditCursors, auditDisk>> /\ AuditSizes' = AuditSizes
    BY <1>7, AuditSizesKept DEF auditVars
  <2> QED
    BY <2>1 DEF AT!tail, AuditSizes, AuditTailOf
<1> QED
  BY <1>1, <1>2, <1>3, <1>4, <1>5, <1>6, <1>7 DEF AuditNext

\* The monitor is a log tail over the audit logs: whatever is patched and
\* unpatched, saved or not, and however often it stops, it never jumps over
\* text of a log in a claimed directory and resumes at a position it saved.
THEOREM AuditIsATail == AuditSpec => AuditImplementsTail
<1> QED
  BY AuditInvariant, AuditInitTail, AuditTailStep, PTL DEF AuditSpec, AuditImplementsTail, AT!Spec

-----------------------------------------------------------------------------
(***************************************************************************)
(* The Cowork monitor: the invariant.                                      *)
(***************************************************************************)

CoworkSaid == UNION {CoworkEntries[f] : f \in CoworkLogs}
CoworkIds == {e.id : e \in CoworkSaid}
CoworkCall == [id : CoworkIds, install : Installs, line : Nat]
CoworkRecord == [file : CoworkLogs, gen : Nat, line : Nat, install : Installs, call : Nat, life : Nat]
CoworkPosition == [at : Nat, gen : Nat, seed : Nat]

CoworkTyped ==
  /\ coworkLog \in [CoworkLogs -> Seq(CoworkSaid)]
  /\ coworkHalf \in [CoworkLogs -> BOOLEAN]
  /\ coworkGen \in [CoworkLogs -> Nat]
  /\ watchedAt \in [CoworkLogs -> Nat]
  /\ aiguard \in BOOLEAN /\ watching \in BOOLEAN
  /\ targets \in SUBSET Installs
  /\ targetsDisk \in [targets : SUBSET Installs, torn : BOOLEAN]
  /\ roots \in [Profiles -> SUBSET Installs]
  /\ offsets \in [CoworkLogs -> CoworkPosition]
  /\ calls \in SUBSET CoworkCall
  /\ coworkScan \in [todo : SUBSET CoworkLogs, at : CoworkLogs \cup {NoLog}, on : BOOLEAN]
  /\ told \in Seq(CoworkRecord)
  /\ life \in Nat /\ coworkFaults \in 0..MaxCoworkFaults

\* Logs are no longer than their bound, and no position is beyond it.
CoworkShort ==
  \A f \in CoworkLogs : /\ Len(coworkLog[f]) <= MaxCoworkLines
                        /\ offsets[f].at <= 2 * MaxCoworkLines
                        /\ coworkHalf[f] => coworkLog[f] # <<>>

\* Only a running monitor has roots, all of them patched; a poll visits logs
\* under them.
CoworkRooted ==
  /\ \A p \in Profiles : roots[p] \subseteq targets
  /\ ~watching => \A p \in Profiles : roots[p] = {}
  /\ watching => aiguard
  /\ coworkScan.on => watching
  /\ ~coworkScan.on => coworkScan.todo = {} /\ coworkScan.at = NoLog
  /\ \A f \in CoworkLogs : f \in coworkScan.todo \/ f = coworkScan.at => roots[ProfileOf[f]] # {}

CoworkPlaced ==
  \A f \in CoworkLogs : /\ offsets[f].gen <= coworkGen[f]
                        /\ offsets[f].gen = coworkGen[f] => offsets[f].at <= CoworkSize(f)

\* Where a profile is watched the next whole line was begun since; a log that
\* has changed since, or was not there, is new from its top.
CoworkAhead ==
  \A f \in CoworkLogs : roots[ProfileOf[f]] # {} =>
    /\ watchedAt[f] <= (offsets[f].at + 3) \div 2
    /\ offsets[f].gen # coworkGen[f] => watchedAt[f] = 1

\* A pending call is the only one of its id, and was told in this life.
CallsTold ==
  /\ \A c, d \in calls : c.id = d.id => c = d
  /\ \A c \in calls : \E j \in DOMAIN told : /\ told[j].install = c.install
                                             /\ told[j].line = c.line
                                             /\ told[j].life = life

CoworkInv ==
  /\ CoworkTyped /\ CoworkShort /\ CoworkRooted /\ CoworkPlaced /\ CoworkAhead /\ CallsTold

-----------------------------------------------------------------------------
(* The records of one line.                                                 *)

LEMMA CoworkSizeOf ==
  ASSUME CoworkTyped, CoworkShort, NEW f \in CoworkLogs
  PROVE  /\ CoworkSize(f) \in Nat /\ Len(coworkLog[f]) \in Nat
         /\ CoworkSize(f) = 2 * Len(coworkLog[f])
              \/ (CoworkSize(f) = 2 * Len(coworkLog[f]) - 1 /\ Len(coworkLog[f]) >= 1 /\ coworkHalf[f])
<1>1. coworkLog[f] \in Seq(CoworkSaid) /\ Len(coworkLog[f]) \in Nat
  BY DEF CoworkTyped
<1>2. CASE coworkHalf[f]
  <2>1. CoworkSize(f) = 2 * Len(coworkLog[f]) - 1
    BY <1>2 DEF CoworkSize
  <2>2. Len(coworkLog[f]) >= 1
    BY <1>1, <1>2 DEF CoworkShort
  <2> QED
    BY <1>1, <1>2, <2>1, <2>2
<1>3. CASE ~coworkHalf[f]
  <2>1. CoworkSize(f) = 2 * Len(coworkLog[f])
    BY <1>1, <1>3 DEF CoworkSize
  <2> QED
    BY <1>1, <2>1
<1> QED
  BY <1>2, <1>3

LEMMA LineOfOffset ==
  ASSUME NEW o \in Nat
  PROVE  /\ CoworkLineAt(o) \in Nat /\ 1 <= CoworkLineAt(o)
         /\ \/ o % 2 = 0 /\ 2 * CoworkLineAt(o) = o + 2
            \/ o % 2 = 1 /\ 2 * CoworkLineAt(o) = o + 1
  BY DEF CoworkLineAt

CoworkRecordOf(f, line, install, call) ==
  [file |-> f, gen |-> coworkGen[f], line |-> line, install |-> install, call |-> call, life |-> life]

\* A line is told once or not at all: under a root of its profile, or for a
\* result under the call that was pending.
LEMMA CoworkLineRecords ==
  ASSUME CoworkInv, ConsumeTranscriptLine,
         NEW f, f = coworkScan.at, NEW n, n = CoworkLineAt(offsets[f].at)
  PROVE  /\ f \in CoworkLogs /\ roots[ProfileOf[f]] # {} /\ watching
         /\ n \in 1..Len(coworkLog[f]) /\ coworkLog[f][n] \in CoworkSaid
         /\ 2 * n = offsets[f].at + 2 \/ 2 * n = offsets[f].at + 1
         /\ 2 * n <= CoworkSize(f)
         /\ offsets' = [offsets EXCEPT ![f].at = 2 * n]
         /\ \/ told' = told /\ calls' \subseteq calls
            \/ \E t \in roots[ProfileOf[f]] :
                 /\ offsets[f].at % 2 = 0
                 /\ told' = Append(told, CoworkRecordOf(f, n, t, 0))
                 /\ \/ calls' = calls
                    \/ calls' = {c \in calls : c.id # coworkLog[f][n].id}
                                  \cup {[id |-> coworkLog[f][n].id, install |-> t, line |-> n]}
            \/ \E c \in calls :
                 /\ offsets[f].at % 2 = 0
                 /\ told' = Append(told, CoworkRecordOf(f, n, c.install, c.line))
                 /\ calls' \subseteq calls
<1> DEFINE e == coworkLog[f][n]
           here == CHOOSE t \in roots[ProfileOf[f]] : TRUE
           mine == {c \in calls : c.id = e.id}
           read == IF offsets[f].at % 2 = 1 THEN [records |-> {}, calls |-> calls]
                   ELSE TranscriptRecords(f, n, e)
<1>0. CoworkTyped /\ CoworkShort /\ CoworkRooted /\ CallsTold
  BY DEF CoworkInv
<1>1. /\ f # NoLog /\ WholeCoworkLine(f, offsets[f].at)
      /\ offsets' = [offsets EXCEPT ![f].at = 2 * n]
      /\ told' = told \o SetToSeq(read.records) /\ calls' = read.calls
  BY ZenonT(60) DEF ConsumeTranscriptLine
<1>2. f \in CoworkLogs /\ roots[ProfileOf[f]] # {} /\ watching
  BY <1>0, <1>1 DEF CoworkTyped, CoworkRooted
<1>3. here \in roots[ProfileOf[f]]
  BY <1>2
<1>4. /\ coworkLog[f] \in Seq(CoworkSaid) /\ Len(coworkLog[f]) \in Nat
      /\ coworkHalf[f] \in BOOLEAN /\ offsets[f].at \in Nat /\ told \in Seq(CoworkRecord)
  BY <1>0, <1>2 DEF CoworkTyped, CoworkPosition
<1>5. n \in Nat /\ (2 * n = offsets[f].at + 2 \/ 2 * n = offsets[f].at + 1) /\ 1 <= n
  <2>1. PICK o \in Nat : o = offsets[f].at
    BY <1>4
  <2>2. /\ n \in Nat /\ 1 <= n
        /\ \/ o % 2 = 0 /\ 2 * n = o + 2
           \/ o % 2 = 1 /\ 2 * n = o + 1
    BY <2>1, LineOfOffset
  <2> QED
    BY <2>1, <2>2
<1>6. n <= Len(coworkLog[f]) /\ 2 * n <= CoworkSize(f)
  <2>1. n < Len(coworkLog[f]) \/ (n = Len(coworkLog[f]) /\ ~coworkHalf[f])
    BY <1>1 DEF WholeCoworkLine
  <2>2. /\ CoworkSize(f) \in Nat
        /\ \/ CoworkSize(f) = 2 * Len(coworkLog[f])
           \/ CoworkSize(f) = 2 * Len(coworkLog[f]) - 1 /\ coworkHalf[f]
    BY <1>0, <1>2, CoworkSizeOf
  <2> QED
    BY SMTT(40), <1>4, <1>5, <2>1, <2>2
<1>7. n \in 1..Len(coworkLog[f]) /\ e \in CoworkSaid
  BY <1>4, <1>5, <1>6
<1>8. /\ read.records = {} => told' = told
      /\ \A r : read.records = {r} => told' = Append(told, r)
  <2>1. told \o <<>> = told /\ \A r : told \o <<r>> = Append(told, r)
    BY <1>4
  <2> HIDE DEF read
  <2> QED
    BY <1>1, <2>1, ListsOfOne
<1>9. CASE offsets[f].at % 2 = 1
  BY <1>1, <1>2, <1>5, <1>6, <1>7, <1>8, <1>9
<1>10. CASE offsets[f].at % 2 # 1
  <2>0. offsets[f].at % 2 = 0 /\ read = TranscriptRecords(f, n, e)
    BY <1>4, <1>10
  <2>1. CASE e.kind \in {"text", "tool_use"}
    <3>1. read.records = {CoworkRecordOf(f, n, here, 0)}
      BY ZenonT(60), <2>0, <2>1 DEF TranscriptRecords, CoworkRecordOf
    <3>2. \/ read.calls = calls
          \/ read.calls = (calls \ mine) \cup {[id |-> e.id, install |-> here, line |-> n]}
      BY <2>0, <2>1 DEF TranscriptRecords
    <3>3. calls \ mine = {c \in calls : c.id # e.id}
      OBVIOUS
    <3>4. told' = Append(told, CoworkRecordOf(f, n, here, 0))
      BY <1>8, <3>1
    <3> HIDE DEF read, here, mine, e
    <3> QED
      BY ZenonT(60), <1>1, <1>2, <1>3, <1>5, <1>6, <1>7, <2>0, <3>2, <3>3, <3>4 DEF e
  <2>2. CASE e.kind \notin {"text", "tool_use"}
    <3>1. read.records = {CoworkRecordOf(f, n, c.install, c.line) : c \in mine} /\ read.calls = calls \ mine
      BY ZenonT(60), <2>0, <2>2 DEF TranscriptRecords, CoworkRecordOf
    <3>2. CASE mine = {}
      <4>1. read.records = {}
        BY SMTT(40), <3>1, <3>2
      <4>2. told' = told /\ calls' \subseteq calls
        BY ZenonT(60), <1>1, <1>8, <3>1, <4>1
      <4> QED
        BY <1>1, <1>2, <1>5, <1>6, <1>7, <4>2
    <3>3. CASE mine # {}
      <4>1. PICK c \in calls : mine = {c}
        BY <1>0, <3>3 DEF CallsTold
      <4>2. read.records = {CoworkRecordOf(f, n, c.install, c.line)}
        BY SMTT(40), <3>1, <4>1
      <4>3. told' = Append(told, CoworkRecordOf(f, n, c.install, c.line)) /\ calls' \subseteq calls
        BY <1>1, <1>8, <3>1, <4>2
      <4> HIDE DEF read, here, mine, e
      <4> QED
        BY <1>1, <1>2, <1>5, <1>6, <1>7, <2>0, <4>1, <4>3 DEF e
    <3> QED
      BY SMTT(40), <3>2, <3>3
  <2> QED
    BY SMTT(40), <2>1, <2>2
<1> QED
  BY SMTT(40), <1>9, <1>10

-----------------------------------------------------------------------------
(* The installations a monitor watches.                                     *)

LEMMA CoworkInitInv == CoworkInit => CoworkInv
<1> SUFFICES ASSUME CoworkInit PROVE CoworkInv
  OBVIOUS
<1>1. \A f \in CoworkLogs : /\ coworkLog[f] = <<>> /\ ~coworkHalf[f] /\ coworkGen[f] = 0
                            /\ offsets[f] = [at |-> 0, gen |-> 0, seed |-> 0]
  BY DEF CoworkInit, NoOffsets
<1>2. \A p \in Profiles : roots[p] = {}
  BY DEF CoworkInit, NoRoots
<1>3. coworkScan.todo = {} /\ coworkScan.at = NoLog /\ ~coworkScan.on
  BY DEF CoworkInit, NoCoworkScan
<1>4. CoworkTyped
  <2>1. <<>> \in Seq(CoworkSaid) /\ told \in Seq(CoworkRecord)
    BY DEF CoworkInit
  <2>2. /\ coworkLog \in [CoworkLogs -> Seq(CoworkSaid)]
        /\ coworkHalf \in [CoworkLogs -> BOOLEAN]
        /\ coworkGen \in [CoworkLogs -> Nat] /\ watchedAt \in [CoworkLogs -> Nat]
    BY <2>1 DEF CoworkInit
  <2>3. roots \in [Profiles -> SUBSET Installs] /\ offsets \in [CoworkLogs -> CoworkPosition]
    BY DEF CoworkInit, NoRoots, NoOffsets, CoworkPosition
  <2>4. targetsDisk \in [targets : SUBSET Installs, torn : BOOLEAN]
    BY DEF CoworkInit, TornTargets
  <2>5. coworkScan \in [todo : SUBSET CoworkLogs, at : CoworkLogs \cup {NoLog}, on : BOOLEAN]
    BY DEF CoworkInit, NoCoworkScan
  <2>6. coworkFaults \in 0..MaxCoworkFaults /\ life \in Nat
    BY CoworkAssumption DEF CoworkInit
  <2> QED
    BY <2>1, <2>2, <2>3, <2>4, <2>5, <2>6 DEF CoworkInit, CoworkTyped
<1>5. CoworkShort
  BY <1>1, CoworkAssumption DEF CoworkShort
<1>6. CoworkRooted
  <2>1. \A f \in CoworkLogs : f # NoLog /\ f \notin coworkScan.todo
    BY <1>3, CoworkAssumption
  <2> QED
    BY <1>2, <1>3, <2>1 DEF CoworkRooted, CoworkInit
<1>7. CoworkPlaced
  <2>1. ASSUME NEW f \in CoworkLogs PROVE CoworkSize(f) = 0
    <3>1. coworkLog[f] = <<>> /\ Len(<<>>) = 0 /\ ~coworkHalf[f]
      BY <1>1
    <3> QED
      BY <3>1 DEF CoworkSize
  <2> QED
    BY <1>1, <2>1 DEF CoworkPlaced
<1>8. CoworkAhead
  BY <1>2, CoworkAssumption DEF CoworkAhead
<1>9. CallsTold
  BY DEF CallsTold, CoworkInit
<1> QED
  BY <1>4, <1>5, <1>6, <1>7, <1>8, <1>9 DEF CoworkInv

\* A profile newly watched is watched from the end of its logs, from the top of
\* those that are not there yet, and from the top of those it could not look at.
LEMMA SetTargetsAhead ==
  ASSUME CoworkInv, NEW ts \in SUBSET Installs, NEW before, NEW offs,
         \/ before = roots /\ offs = offsets
         \/ before = NoRoots /\ offs = NoOffsets,
         SetTargets(ts, before, offs),
         UNCHANGED <<coworkLog, coworkHalf, coworkGen>>
  PROVE  /\ roots' \in [Profiles -> SUBSET Installs]
         /\ \A p \in Profiles : roots'[p] \subseteq ts
         /\ offsets' \in [CoworkLogs -> CoworkPosition]
         /\ watchedAt' \in [CoworkLogs -> Nat]
         /\ coworkFaults' \in 0..MaxCoworkFaults
         /\ CoworkShort' /\ CoworkPlaced' /\ CoworkAhead'
<1>0. CoworkTyped /\ CoworkShort /\ CoworkPlaced /\ CoworkAhead
  BY DEF CoworkInv
<1>1. PICK next \in RootsOf(ts) :
        \E blind \in SUBSET CoworkLogsIn({p \in Profiles : before[p] = {} /\ next[p] # {}}) :
          /\ IF blind = {} THEN UNCHANGED coworkFaults ELSE CoworkFault
          /\ roots' = next
          /\ offsets' = [f \in CoworkLogs |->
               IF f \in CoworkLogsIn({p \in Profiles : before[p] = {} /\ next[p] # {}}) \ blind
               THEN CoworkOffset(CoworkSize(f), f) ELSE offs[f]]
          /\ watchedAt' = [f \in CoworkLogs |->
               IF f \in blind THEN 1
               ELSE IF ProfileOf[f] \in {p \in Profiles : before[p] = {} /\ next[p] # {}}
                    THEN Len(coworkLog[f]) + 1
               ELSE watchedAt[f]]
  BY DEF SetTargets
<1> DEFINE fresh == {p \in Profiles : before[p] = {} /\ next[p] # {}}
<1>2. PICK blind \in SUBSET CoworkLogsIn(fresh) :
        /\ IF blind = {} THEN UNCHANGED coworkFaults ELSE CoworkFault
        /\ roots' = next
        /\ offsets' = [f \in CoworkLogs |->
             IF f \in CoworkLogsIn(fresh) \ blind THEN CoworkOffset(CoworkSize(f), f) ELSE offs[f]]
        /\ watchedAt' = [f \in CoworkLogs |->
             IF f \in blind THEN 1
             ELSE IF ProfileOf[f] \in fresh THEN Len(coworkLog[f]) + 1
             ELSE watchedAt[f]]
  BY <1>1
<1>3. next \in [Profiles -> SUBSET ts]
  BY DEF RootsOf
<1>4. /\ roots' \in [Profiles -> SUBSET Installs]
      /\ \A p \in Profiles : roots'[p] \subseteq ts
  BY <1>2, <1>3
<1>5. coworkFaults' \in 0..MaxCoworkFaults
  BY <1>0, <1>2, CoworkAssumption DEF CoworkFault, CoworkTyped
<1>6. ASSUME NEW f \in CoworkLogs
      PROVE  /\ offsets'[f] \in CoworkPosition /\ watchedAt'[f] \in Nat
             /\ offsets'[f].at <= 2 * MaxCoworkLines
             /\ offsets'[f].gen <= coworkGen[f]
             /\ offsets'[f].gen = coworkGen[f] => offsets'[f].at <= CoworkSize(f)
             /\ roots'[ProfileOf[f]] # {} =>
                  /\ watchedAt'[f] <= (offsets'[f].at + 3) \div 2
                  /\ offsets'[f].gen # coworkGen[f] => watchedAt'[f] = 1
  <2>1. /\ coworkGen[f] \in Nat /\ watchedAt[f] \in Nat /\ ProfileOf[f] \in Profiles
        /\ MaxCoworkLines \in Nat
    BY <1>0, CoworkAssumption DEF CoworkTyped
  <2>2. /\ CoworkSize(f) \in Nat /\ Len(coworkLog[f]) \in Nat
        /\ CoworkSize(f) = 2 * Len(coworkLog[f]) \/ CoworkSize(f) = 2 * Len(coworkLog[f]) - 1
        /\ Len(coworkLog[f]) <= MaxCoworkLines
    BY <1>0, CoworkSizeOf DEF CoworkShort
  <2>3. /\ offs[f] \in CoworkPosition /\ offs[f].at <= 2 * MaxCoworkLines
        /\ offs[f].gen <= coworkGen[f]
        /\ offs[f].gen = coworkGen[f] => offs[f].at <= CoworkSize(f)
    <3>1. CASE offs = offsets
      BY <1>0, <3>1 DEF CoworkTyped, CoworkShort, CoworkPlaced
    <3>2. CASE offs = NoOffsets
      <4>1. offs[f] = [at |-> 0, gen |-> 0, seed |-> 0]
        BY <3>2 DEF NoOffsets
      <4> QED
        BY <2>1, <2>2, <4>1 DEF CoworkPosition
    <3> QED
      BY <3>1, <3>2
  <2>4. PICK o \in Nat : o = offs[f].at
    BY <2>3 DEF CoworkPosition
  <2>5. 1 <= (o + 3) \div 2
    BY <2>4
  <2>6. CASE f \in blind
    <3>1. offsets'[f] = offs[f] /\ watchedAt'[f] = 1
      BY <1>2, <2>6
    <3> QED
      BY <2>3, <2>4, <2>5, <3>1
  <2>7. CASE f \in CoworkLogsIn(fresh) \ blind
    <3>1. offsets'[f] = [at |-> CoworkSize(f), gen |-> coworkGen[f], seed |-> CoworkSize(f)]
      BY <1>2, <2>7 DEF CoworkOffset
    <3>2. watchedAt'[f] = Len(coworkLog[f]) + 1
      BY <1>2, <2>7 DEF CoworkLogsIn
    <3>3. Len(coworkLog[f]) + 1 <= (CoworkSize(f) + 3) \div 2
      BY <2>2
    <3> HIDE DEF fresh
    <3> QED
      BY SMTT(40), <2>1, <2>2, <3>1, <3>2, <3>3 DEF CoworkPosition
  <2>8. CASE f \notin CoworkLogsIn(fresh) /\ ProfileOf[f] \in fresh
    <3>1. coworkLog[f] = <<>>
      BY <2>8 DEF CoworkLogsIn
    <3>2. coworkGen[f] = 0
      BY <2>1, <2>8 DEF CoworkLogsIn
    <3>3. offsets'[f] = offs[f]
      BY <1>2, <2>8
    <3>4. watchedAt'[f] = 1
      BY <1>2, <2>8, <3>1
    <3> HIDE DEF fresh
    <3> QED
      BY <2>3, <2>4, <2>5, <3>3, <3>4
  <2>9. CASE f \notin CoworkLogsIn(fresh) /\ ProfileOf[f] \notin fresh
    <3>1. offsets'[f] = offs[f] /\ watchedAt'[f] = watchedAt[f]
      BY <1>2, <2>9
    <3>2. ASSUME roots'[ProfileOf[f]] # {}
          PROVE  offs = offsets /\ roots[ProfileOf[f]] # {}
      BY <1>2, <2>1, <2>9, <3>2 DEF NoRoots
    <3>3. roots'[ProfileOf[f]] # {} =>
            /\ watchedAt[f] <= (offs[f].at + 3) \div 2
            /\ offs[f].gen # coworkGen[f] => watchedAt[f] = 1
      BY <1>0, <3>2 DEF CoworkAhead
    <3> HIDE DEF fresh
    <3> QED
      BY <2>1, <2>3, <3>1, <3>3
  <2> QED
    BY <2>6, <2>7, <2>8, <2>9
<1>7. offsets' \in [CoworkLogs -> CoworkPosition] /\ watchedAt' \in [CoworkLogs -> Nat]
  <2>1. /\ offsets' = [f \in CoworkLogs |-> offsets'[f]]
        /\ watchedAt' = [f \in CoworkLogs |-> watchedAt'[f]]
    BY <1>2
  <2> HIDE DEF fresh
  <2> QED
    BY <1>6, <2>1
<1>8. CoworkShort'
  BY <1>0, <1>6 DEF CoworkShort
<1>9. CoworkPlaced'
  BY <1>6 DEF CoworkPlaced, CoworkSize
<1>10. CoworkAhead'
  BY <1>6 DEF CoworkAhead
<1> QED
  BY <1>4, <1>5, <1>7, <1>8, <1>9, <1>10

LEMMA TargetsSetInv ==
  ASSUME CoworkInv, NEW ts \in SUBSET Installs, NEW before, NEW offs,
         \/ before = roots /\ offs = offsets
         \/ before = NoRoots /\ offs = NoOffsets,
         SetTargets(ts, before, offs),
         UNCHANGED <<coworkLog, coworkHalf, coworkGen, coworkScan, told>>,
         ~coworkScan.on, aiguard' = TRUE, watching' = TRUE, targets' = ts,
         targetsDisk' \in [targets : SUBSET Installs, torn : BOOLEAN],
         \/ calls' = calls /\ life' = life
         \/ calls' = {} /\ life' = life + 1
  PROVE  CoworkInv'
<1>0. CoworkTyped /\ CoworkRooted /\ CallsTold
  BY DEF CoworkInv
<1>1. /\ roots' \in [Profiles -> SUBSET Installs]
      /\ \A p \in Profiles : roots'[p] \subseteq ts
      /\ offsets' \in [CoworkLogs -> CoworkPosition]
      /\ watchedAt' \in [CoworkLogs -> Nat]
      /\ coworkFaults' \in 0..MaxCoworkFaults
      /\ CoworkShort' /\ CoworkPlaced' /\ CoworkAhead'
  BY SetTargetsAhead, Zenon
<1>2. CoworkTyped'
  BY <1>0, <1>1 DEF CoworkTyped
<1>3. CoworkRooted'
  <2>1. coworkScan'.todo = {} /\ coworkScan'.at = NoLog /\ ~coworkScan'.on
    BY <1>0 DEF CoworkRooted
  <2>2. \A f \in CoworkLogs : f # NoLog
    BY CoworkAssumption
  <2> QED
    BY <1>1, <2>1, <2>2 DEF CoworkRooted
<1>4. CallsTold'
  BY <1>0 DEF CallsTold
<1> QED
  BY <1>1, <1>2, <1>3, <1>4 DEF CoworkInv

\* Without a monitor nothing is promised.
LEMMA TranscriptStopped ==
  ASSUME CoworkInv, StopTranscript,
         UNCHANGED <<coworkLog, coworkHalf, coworkGen, told>>,
         aiguard' \in BOOLEAN, targets' \in SUBSET Installs,
         targetsDisk' \in [targets : SUBSET Installs, torn : BOOLEAN],
         coworkScan' \in [todo : SUBSET CoworkLogs, at : CoworkLogs \cup {NoLog}, on : BOOLEAN],
         ~coworkScan'.on, coworkScan'.todo = {}, coworkScan'.at = NoLog,
         coworkFaults' \in 0..MaxCoworkFaults
  PROVE  CoworkInv'
<1>0. CoworkTyped /\ CoworkShort
  BY DEF CoworkInv
<1>1. \A f \in CoworkLogs : offsets'[f] = [at |-> 0, gen |-> 0, seed |-> 0]
  BY DEF StopTranscript, NoOffsets
<1>2. \A p \in Profiles : roots'[p] = {}
  BY DEF StopTranscript, NoRoots
<1>3. /\ watching' = FALSE /\ calls' = {} /\ watchedAt' = watchedAt /\ life' = life
  BY DEF StopTranscript
<1>4. CoworkTyped'
  <2>1. roots' \in [Profiles -> SUBSET Installs] /\ offsets' \in [CoworkLogs -> CoworkPosition]
    BY DEF StopTranscript, NoRoots, NoOffsets, CoworkPosition
  <2> QED
    BY <1>0, <1>3, <2>1 DEF CoworkTyped
<1>5. CoworkShort'
  BY <1>0, <1>1, CoworkAssumption DEF CoworkShort
<1>6. CoworkRooted'
  <2>1. \A f \in CoworkLogs : f # NoLog
    BY CoworkAssumption
  <2> QED
    BY <1>2, <1>3, <2>1 DEF CoworkRooted
<1>7. CoworkPlaced'
  <2>1. \A f \in CoworkLogs : coworkGen[f] \in Nat /\ CoworkSize(f) \in Nat
    BY <1>0, CoworkSizeOf DEF CoworkTyped
  <2>2. \A f \in CoworkLogs : CoworkSize(f)' = CoworkSize(f) /\ coworkGen'[f] = coworkGen[f]
    BY DEF CoworkSize
  <2> HIDE DEF CoworkSize
  <2> QED
    BY <1>1, <2>1, <2>2 DEF CoworkPlaced
<1>8. CoworkAhead'
  BY <1>2, CoworkAssumption DEF CoworkAhead
<1>9. CallsTold'
  BY <1>3 DEF CallsTold
<1> QED
  BY <1>4, <1>5, <1>6, <1>7, <1>8, <1>9 DEF CoworkInv

\* A step that leaves the logs and the positions alone.
LEMMA CoworkSteady ==
  ASSUME CoworkInv,
         UNCHANGED <<coworkLog, coworkHalf, coworkGen, watchedAt, aiguard, watching, roots,
                     offsets, calls, life, told>>,
         targets' \in SUBSET Installs, \A p \in Profiles : roots[p] \subseteq targets',
         targetsDisk' \in [targets : SUBSET Installs, torn : BOOLEAN],
         coworkScan' \in [todo : SUBSET CoworkLogs, at : CoworkLogs \cup {NoLog}, on : BOOLEAN],
         coworkScan'.on => watching,
         ~coworkScan'.on => coworkScan'.todo = {} /\ coworkScan'.at = NoLog,
         \A f \in CoworkLogs :
           f \in coworkScan'.todo \/ f = coworkScan'.at => roots[ProfileOf[f]] # {},
         coworkFaults' \in 0..MaxCoworkFaults
  PROVE  CoworkInv'
<1>0. CoworkTyped /\ CoworkShort /\ CoworkRooted /\ CoworkPlaced /\ CoworkAhead /\ CallsTold
  BY DEF CoworkInv
<1>1. CoworkTyped'
  BY <1>0 DEF CoworkTyped
<1>2. CoworkShort' /\ CoworkAhead' /\ CallsTold'
  BY <1>0 DEF CoworkShort, CoworkAhead, CallsTold
<1>3. CoworkRooted'
  BY <1>0 DEF CoworkRooted
<1>4. CoworkPlaced'
  BY <1>0 DEF CoworkPlaced, CoworkSize
<1> QED
  BY <1>1, <1>2, <1>3, <1>4 DEF CoworkInv

LEMMA CoworkTargetSteps ==
  ASSUME CoworkInv,
         (\E i \in Installs : EnableCowork(i) \/ DisableCowork(i)) \/ StartCowork \/ StopCowork
  PROVE  CoworkInv'
<1>0. CoworkTyped /\ CoworkRooted
  BY DEF CoworkInv
<1>1. TornTargets \in [targets : SUBSET Installs, torn : BOOLEAN]
  BY DEF TornTargets
<1>2. ASSUME CoworkFault PROVE coworkFaults' \in 0..MaxCoworkFaults
  BY <1>0, <1>2, CoworkAssumption DEF CoworkFault, CoworkTyped
<1>3. \A f \in CoworkLogs : f # NoLog
  BY CoworkAssumption
<1>4. ASSUME ~coworkScan.on PROVE coworkScan.todo = {} /\ coworkScan.at = NoLog
  BY <1>0, <1>4 DEF CoworkRooted
<1>5. ASSUME CoworkQuiet, SaveTargetsFails,
             UNCHANGED <<coworkLog, coworkHalf, coworkGen, aiguard, coworkScan, told>>
      PROVE  CoworkInv'
  <2>1. UNCHANGED <<watchedAt, watching, roots, offsets, calls, life, targets>>
    BY <1>5 DEF SaveTargetsFails, transcriptVars
  <2>2. targetsDisk' \in [targets : SUBSET Installs, torn : BOOLEAN]
    BY <1>0, <1>1, <1>5 DEF SaveTargetsFails, CoworkTyped
  <2>3. coworkFaults' \in 0..MaxCoworkFaults
    BY <1>2, <1>5 DEF SaveTargetsFails
  <2>4. /\ coworkScan' = coworkScan /\ ~coworkScan.on /\ targets' \in SUBSET Installs
        /\ coworkScan \in [todo : SUBSET CoworkLogs, at : CoworkLogs \cup {NoLog}, on : BOOLEAN]
    BY <1>0, <1>5, <2>1 DEF CoworkTyped, CoworkQuiet
  <2>5. \A p \in Profiles : roots[p] \subseteq targets'
    BY <1>0, <2>1 DEF CoworkRooted
  <2> QED
    BY <1>3, <1>4, <1>5, <2>1, <2>2, <2>3, <2>4, <2>5, CoworkSteady
<1>6. ASSUME NEW ts \in SUBSET Installs, CoworkQuiet, targets' = ts, SaveTargets(ts), Retarget(ts),
             UNCHANGED <<coworkLog, coworkHalf, coworkGen, aiguard, coworkScan, told>>
      PROVE  CoworkInv'
  <2>1. /\ targetsDisk' \in [targets : SUBSET Installs, torn : BOOLEAN]
        /\ aiguard' = TRUE /\ ~coworkScan.on
    BY <1>0, <1>6 DEF SaveTargets, CoworkQuiet, CoworkTyped
  <2>2. CASE watching
    <3>1. SetTargets(ts, roots, offsets) /\ watching' = TRUE /\ calls' = calls /\ life' = life
      BY <1>0, <1>6, <2>2 DEF Retarget, CoworkTyped
    <3> QED
      BY <1>6, <2>1, <3>1, TargetsSetInv
  <2>3. CASE ~watching
    <3>1. /\ SetTargets(ts, NoRoots, NoOffsets) /\ watching' = TRUE
          /\ calls' = {} /\ life' = life + 1
      BY <1>6, <2>3 DEF Retarget, NewTranscriptMonitor
    <3> QED
      BY <1>6, <2>1, <3>1, TargetsSetInv
  <2> QED
    BY <2>2, <2>3
<1>7. ASSUME NEW i \in Installs, EnableCowork(i) PROVE CoworkInv'
  <2>1. /\ CoworkQuiet
        /\ UNCHANGED <<coworkLog, coworkHalf, coworkGen, aiguard, coworkScan, told>>
        /\ \/ /\ targets' = targets \cup {i}
              /\ SaveTargets(targets') /\ Retarget(targets')
           \/ SaveTargetsFails
    BY <1>7 DEF EnableCowork
  <2>2. targets \cup {i} \in SUBSET Installs
    BY <1>0 DEF CoworkTyped
  <2> QED
    BY <1>5, <1>6, <2>1, <2>2
<1>8. ASSUME NEW i \in Installs, DisableCowork(i) PROVE CoworkInv'
  <2>1. /\ CoworkQuiet
        /\ UNCHANGED <<coworkLog, coworkHalf, coworkGen, aiguard, coworkScan, told>>
    BY <1>8 DEF DisableCowork
  <2>2. CASE SaveTargetsFails
    BY <1>5, <2>1, <2>2
  <2>3. CASE ~SaveTargetsFails
    <3>1. /\ targets' = targets \ {i} /\ SaveTargets(targets')
          /\ IF ~watching THEN UNCHANGED <<transcriptVars, watchedAt, coworkFaults>>
             ELSE IF targets' = {} THEN StopTranscript /\ UNCHANGED coworkFaults
             ELSE Retarget(targets')
      BY <1>8, <2>3 DEF DisableCowork
    <3>2. targets' \in SUBSET Installs
      BY <1>0, <3>1 DEF CoworkTyped
    <3>3. /\ targetsDisk' \in [targets : SUBSET Installs, torn : BOOLEAN]
          /\ aiguard' = aiguard /\ coworkScan' = coworkScan /\ ~coworkScan.on
          /\ coworkScan \in [todo : SUBSET CoworkLogs, at : CoworkLogs \cup {NoLog}, on : BOOLEAN]
          /\ coworkFaults \in 0..MaxCoworkFaults /\ aiguard \in BOOLEAN
      BY <1>0, <2>1, <3>1, <3>2 DEF SaveTargets, CoworkQuiet, CoworkTyped
    <3>4. CASE ~watching
      <4>1. /\ UNCHANGED <<watchedAt, watching, roots, offsets, calls, life>>
            /\ coworkFaults' = coworkFaults
        BY <3>1, <3>4 DEF transcriptVars
      <4>2. \A p \in Profiles : roots[p] \subseteq targets'
        BY <1>0, <3>4 DEF CoworkRooted
      <4> QED
        BY <1>3, <1>4, <2>1, <3>2, <3>3, <4>1, <4>2, CoworkSteady
    <3>5. CASE watching /\ targets' = {}
      BY <1>4, <2>1, <3>1, <3>2, <3>3, <3>5, TranscriptStopped
    <3>6. CASE watching /\ targets' # {}
      BY <1>6, <2>1, <3>1, <3>2, <3>6
    <3> QED
      BY <3>4, <3>5, <3>6
  <2> QED
    BY <2>2, <2>3
<1>9. CASE StartCowork
  <2>1. /\ ~aiguard /\ aiguard' = TRUE /\ targets' = targetsDisk.targets
        /\ IF targets' = {} THEN UNCHANGED <<transcriptVars, watchedAt, coworkFaults>>
           ELSE NewTranscriptMonitor(targets')
        /\ UNCHANGED <<coworkLog, coworkHalf, coworkGen, targetsDisk, coworkScan, told>>
    BY <1>9 DEF StartCowork
  <2>2. ~watching /\ ~coworkScan.on /\ \A p \in Profiles : roots[p] = {}
    BY <1>0, <2>1 DEF CoworkRooted
  <2>3. targets' \in SUBSET Installs /\ targetsDisk' = targetsDisk
        /\ targetsDisk \in [targets : SUBSET Installs, torn : BOOLEAN]
    BY <1>0, <2>1 DEF CoworkTyped
  <2>4. CASE targets' = {}
    <3>1. UNCHANGED <<watchedAt, watching, roots, offsets, calls, life>>
          /\ coworkFaults' = coworkFaults
      BY <2>1, <2>4 DEF transcriptVars
    <3>2. CoworkTyped' /\ CoworkShort' /\ CoworkAhead' /\ CallsTold'
      BY <1>0, <2>1, <2>3, <3>1 DEF CoworkInv, CoworkTyped, CoworkShort, CoworkAhead, CallsTold
    <3>3. CoworkRooted'
      BY <1>0, <2>1, <2>2, <3>1 DEF CoworkRooted
    <3>4. CoworkPlaced'
      BY <2>1, <3>1 DEF CoworkInv, CoworkPlaced, CoworkSize
    <3> QED
      BY <3>2, <3>3, <3>4 DEF CoworkInv
  <2>5. CASE targets' # {}
    <3>1. /\ SetTargets(targets', NoRoots, NoOffsets) /\ watching' = TRUE
          /\ calls' = {} /\ life' = life + 1
      BY <2>1, <2>5 DEF NewTranscriptMonitor
    <3> QED
      BY <2>1, <2>2, <2>3, <3>1, TargetsSetInv
  <2> QED
    BY <2>4, <2>5
<1>10. CASE StopCowork
  <2>1. /\ CoworkFault /\ StopTranscript /\ aiguard' \in BOOLEAN
        /\ UNCHANGED <<coworkLog, coworkHalf, coworkGen, told>>
        /\ targets' \in SUBSET Installs
    BY <1>10 DEF StopCowork
  <2>2. targetsDisk' \in [targets : SUBSET Installs, torn : BOOLEAN]
    BY <1>0, <1>1, <1>10 DEF StopCowork, CoworkTyped
  <2>3. /\ coworkScan' \in [todo : SUBSET CoworkLogs, at : CoworkLogs \cup {NoLog}, on : BOOLEAN]
        /\ ~coworkScan'.on /\ coworkScan'.todo = {} /\ coworkScan'.at = NoLog
    BY <1>10 DEF StopCowork, NoCoworkScan
  <2> QED
    BY <1>2, <2>1, <2>2, <2>3, TranscriptStopped
<1> QED
  BY <1>7, <1>8, <1>9, <1>10

-----------------------------------------------------------------------------
(* A poll.                                                                  *)

LEMMA CoworkScanSteps ==
  ASSUME CoworkInv, BeginCoworkPoll \/ CloseTranscript \/ EndCoworkPoll
  PROVE  CoworkInv'
<1>0. CoworkTyped /\ CoworkRooted
  BY DEF CoworkInv
<1>1. ASSUME CoworkFault \/ UNCHANGED coworkFaults PROVE coworkFaults' \in 0..MaxCoworkFaults
  BY <1>0, <1>1, CoworkAssumption DEF CoworkFault, CoworkTyped
<1>2. /\ UNCHANGED <<coworkLog, coworkHalf, coworkGen, watchedAt, aiguard, watching, roots,
                     offsets, calls, life, told, targets, targetsDisk>>
      /\ CoworkFault \/ UNCHANGED coworkFaults
  <2>1. CASE BeginCoworkPoll
    BY <2>1 DEF BeginCoworkPoll, claudeVars, transcriptVars
  <2>2. CASE CloseTranscript
    BY <2>2 DEF CloseTranscript, claudeVars, transcriptVars
  <2>3. CASE EndCoworkPoll
    BY <2>3 DEF EndCoworkPoll, claudeVars, transcriptVars
  <2> QED
    BY <2>1, <2>2, <2>3
<1>3. /\ targets' \in SUBSET Installs /\ targetsDisk' = targetsDisk
      /\ targetsDisk \in [targets : SUBSET Installs, torn : BOOLEAN]
      /\ \A p \in Profiles : roots[p] \subseteq targets'
  BY <1>0, <1>2 DEF CoworkTyped, CoworkRooted
<1>4. \A f \in CoworkLogs : f # NoLog
  BY CoworkAssumption
<1>5. /\ coworkScan' \in [todo : SUBSET CoworkLogs, at : CoworkLogs \cup {NoLog}, on : BOOLEAN]
      /\ coworkScan'.on => watching
      /\ ~coworkScan'.on => coworkScan'.todo = {} /\ coworkScan'.at = NoLog
      /\ \A f \in CoworkLogs :
           f \in coworkScan'.todo \/ f = coworkScan'.at => roots[ProfileOf[f]] # {}
  <2>1. CASE BeginCoworkPoll
    <3>1. PICK todo \in SUBSET CoworkLogsIn({p \in Profiles : roots[p] # {}}) :
            coworkScan' = [todo |-> todo, at |-> NoLog, on |-> TRUE]
      BY <2>1 DEF BeginCoworkPoll
    <3>2. todo \in SUBSET CoworkLogs /\ \A f \in todo : roots[ProfileOf[f]] # {}
      BY DEF CoworkLogsIn
    <3>3. watching
      BY <2>1 DEF BeginCoworkPoll
    <3> QED
      BY <1>4, <3>1, <3>2, <3>3
  <2>2. CASE CloseTranscript
    <3>1. coworkScan' = [coworkScan EXCEPT !.at = NoLog] /\ coworkScan.at # NoLog
      BY <2>2 DEF CloseTranscript
    <3>2. coworkScan'.todo = coworkScan.todo /\ coworkScan'.on = coworkScan.on
          /\ coworkScan'.at = NoLog
          /\ coworkScan' \in [todo : SUBSET CoworkLogs, at : CoworkLogs \cup {NoLog}, on : BOOLEAN]
      BY <1>0, <3>1 DEF CoworkTyped
    <3> QED
      BY <1>0, <1>4, <3>2 DEF CoworkRooted
  <2>3. CASE EndCoworkPoll
    BY <1>4, <2>3 DEF EndCoworkPoll, NoCoworkScan
  <2> QED
    BY <2>1, <2>2, <2>3
<1> QED
  BY <1>1, <1>2, <1>3, <1>5, CoworkSteady

LEMMA OpenTranscriptInv ==
  ASSUME CoworkInv, NEW f \in CoworkLogs, OpenTranscript(f)
  PROVE  CoworkInv'
<1>0. CoworkTyped /\ CoworkShort /\ CoworkRooted /\ CoworkPlaced /\ CoworkAhead /\ CallsTold
  BY DEF CoworkInv
<1>1. /\ UNCHANGED <<coworkLog, coworkHalf, coworkGen, watchedAt, aiguard, targets, targetsDisk,
                     watching, roots, calls, life, told, coworkFaults>>
      /\ coworkScan.on /\ f \in coworkScan.todo
      /\ coworkScan' = [coworkScan EXCEPT !.todo = @ \ {f}, !.at = f]
      /\ offsets' = [offsets EXCEPT
           ![f] = IF CoworkSize(f) < offsets[f].at THEN CoworkOffset(0, f) ELSE offsets[f]]
  BY DEF OpenTranscript, claudeVars
<1>2. /\ coworkScan' \in [todo : SUBSET CoworkLogs, at : CoworkLogs \cup {NoLog}, on : BOOLEAN]
      /\ coworkScan'.todo \subseteq coworkScan.todo /\ coworkScan'.at = f /\ coworkScan'.on
  BY <1>0, <1>1 DEF CoworkTyped
<1>3. ASSUME NEW g \in CoworkLogs
      PROVE  \/ offsets'[g] = offsets[g]
             \/ /\ offsets'[g] \in CoworkPosition
                /\ offsets'[g].at = 0 /\ offsets'[g].gen = coworkGen[g]
                /\ roots[ProfileOf[g]] # {} => watchedAt[g] = 1
  <2>1. CASE g = f /\ CoworkSize(f) < offsets[f].at
    <3>1. offsets'[g] = [at |-> 0, gen |-> coworkGen[g], seed |-> 0]
      BY <1>0, <1>1, <2>1 DEF CoworkTyped, CoworkOffset
    <3>2. offsets[f].gen # coworkGen[f]
      <4>1. CoworkSize(f) \in Nat /\ offsets[f].at \in Nat
        BY <1>0, CoworkSizeOf DEF CoworkTyped, CoworkPosition
      <4> QED
        BY <1>0, <2>1, <4>1 DEF CoworkPlaced
    <3>3. coworkGen[g] \in Nat
      BY <1>0 DEF CoworkTyped
    <3>4. /\ offsets'[g] \in CoworkPosition
          /\ offsets'[g].at = 0 /\ offsets'[g].gen = coworkGen[g]
      BY <3>1, <3>3 DEF CoworkPosition
    <3>5. roots[ProfileOf[g]] # {} => watchedAt[g] = 1
      BY <1>0, <2>1, <3>2 DEF CoworkAhead
    <3> QED
      BY <3>4, <3>5
  <2>2. CASE ~(g = f /\ CoworkSize(f) < offsets[f].at)
    BY <1>0, <1>1, <2>2 DEF CoworkTyped
  <2> QED
    BY <2>1, <2>2
<1>4. /\ \A g \in CoworkLogs : coworkGen[g] \in Nat /\ CoworkSize(g) \in Nat
      /\ MaxCoworkLines \in Nat
  BY <1>0, CoworkSizeOf, CoworkAssumption DEF CoworkTyped
<1>5. CoworkTyped'
  <2>1. offsets' \in [CoworkLogs -> CoworkPosition]
    <3>1. offsets' = [g \in CoworkLogs |-> offsets'[g]]
      BY <1>0, <1>1 DEF CoworkTyped
    <3>2. \A g \in CoworkLogs : offsets'[g] \in CoworkPosition
      BY <1>0, <1>3 DEF CoworkTyped
    <3> QED
      BY <3>1, <3>2
  <2> QED
    BY <1>0, <1>1, <1>2, <2>1 DEF CoworkTyped
<1>6. CoworkShort'
  BY <1>0, <1>1, <1>3, <1>4 DEF CoworkShort
<1>7. CoworkRooted'
  BY <1>0, <1>1, <1>2 DEF CoworkRooted
<1>8. CoworkPlaced'
  <2>1. \A g \in CoworkLogs : CoworkSize(g)' = CoworkSize(g)
    BY <1>1 DEF CoworkSize
  <2> QED
    BY <1>0, <1>1, <1>3, <1>4, <2>1 DEF CoworkPlaced
<1>9. CoworkAhead'
  <2>1. ASSUME NEW g \in CoworkLogs, roots[ProfileOf[g]] # {}
        PROVE  /\ watchedAt[g] <= (offsets'[g].at + 3) \div 2
               /\ offsets'[g].gen # coworkGen[g] => watchedAt[g] = 1
    <3>1. CASE offsets'[g] = offsets[g]
      BY <1>0, <2>1, <3>1 DEF CoworkAhead
    <3>2. CASE offsets'[g] # offsets[g]
      <4>1. offsets'[g].at = 0 /\ offsets'[g].gen = coworkGen[g] /\ watchedAt[g] = 1
        BY <1>3, <2>1, <3>2
      <4> QED
        BY <4>1
    <3> QED
      BY <3>1, <3>2
  <2> QED
    BY <1>1, <2>1 DEF CoworkAhead
<1>10. CallsTold'
  BY <1>0, <1>1 DEF CallsTold
<1> QED
  BY <1>5, <1>6, <1>7, <1>8, <1>9, <1>10 DEF CoworkInv

\* A step that tells at most one record more.
LEMMA ConsumeTranscriptInv ==
  ASSUME CoworkInv, ConsumeTranscriptLine
  PROVE  CoworkInv'
<1> SUFFICES ASSUME NEW f, f = coworkScan.at, NEW n, n = CoworkLineAt(offsets[f].at)
             PROVE  CoworkInv'
  OBVIOUS
<1>0. CoworkTyped /\ CoworkShort /\ CoworkRooted /\ CoworkPlaced /\ CoworkAhead /\ CallsTold
  BY DEF CoworkInv
<1>1. /\ f \in CoworkLogs /\ roots[ProfileOf[f]] # {}
      /\ n \in 1..Len(coworkLog[f]) /\ coworkLog[f][n] \in CoworkSaid
      /\ 2 * n = offsets[f].at + 2 \/ 2 * n = offsets[f].at + 1
      /\ 2 * n <= CoworkSize(f)
      /\ offsets' = [offsets EXCEPT ![f].at = 2 * n]
  BY CoworkLineRecords
<1>2. \/ told' = told /\ calls' \subseteq calls
      \/ \E t \in roots[ProfileOf[f]] :
           /\ offsets[f].at % 2 = 0
           /\ told' = Append(told, CoworkRecordOf(f, n, t, 0))
           /\ \/ calls' = calls
              \/ calls' = {c \in calls : c.id # coworkLog[f][n].id}
                            \cup {[id |-> coworkLog[f][n].id, install |-> t, line |-> n]}
      \/ \E c \in calls :
           /\ offsets[f].at % 2 = 0
           /\ told' = Append(told, CoworkRecordOf(f, n, c.install, c.line))
           /\ calls' \subseteq calls
  BY SMTT(40), CoworkLineRecords
<1>3. UNCHANGED <<coworkLog, coworkHalf, coworkGen, watchedAt, aiguard, targets, targetsDisk,
                  watching, roots, life, coworkScan, coworkFaults>>
  BY DEF ConsumeTranscriptLine, claudeVars
<1>4. /\ n \in Nat /\ CoworkSize(f) \in Nat /\ MaxCoworkLines \in Nat
      /\ CoworkSize(f) <= 2 * MaxCoworkLines /\ coworkGen[f] \in Nat /\ life \in Nat
      /\ offsets[f] \in CoworkPosition
  <2>1. /\ CoworkSize(f) \in Nat /\ Len(coworkLog[f]) \in Nat
        /\ CoworkSize(f) = 2 * Len(coworkLog[f]) \/ CoworkSize(f) = 2 * Len(coworkLog[f]) - 1
    BY <1>0, <1>1, CoworkSizeOf
  <2>2. /\ Len(coworkLog[f]) <= MaxCoworkLines /\ MaxCoworkLines \in Nat /\ n \in Nat
    BY <1>0, <1>1, CoworkAssumption DEF CoworkShort
  <2>3. coworkGen[f] \in Nat /\ offsets[f] \in CoworkPosition /\ life \in Nat
    BY <1>0, <1>1 DEF CoworkTyped
  <2> QED
    BY <2>1, <2>2, <2>3
<1>6. ASSUME NEW t \in Installs, NEW l \in Nat
      PROVE  CoworkRecordOf(f, n, t, l) \in CoworkRecord
  BY <1>1, <1>4 DEF CoworkRecordOf, CoworkRecord
<1>7. /\ \A t \in roots[ProfileOf[f]] : t \in Installs
      /\ \A c \in calls : c.install \in Installs /\ c.line \in Nat
      /\ told \in Seq(CoworkRecord) /\ calls \in SUBSET CoworkCall
  <2>1. roots[ProfileOf[f]] \in SUBSET Installs
    BY <1>0, <1>1, CoworkAssumption DEF CoworkTyped
  <2> QED
    BY <1>0, <2>1 DEF CoworkTyped, CoworkCall
<1>8. \A g \in CoworkLogs : offsets'[g] = IF g = f THEN [offsets[f] EXCEPT !.at = 2 * n]
                                          ELSE offsets[g]
  BY <1>0, <1>1 DEF CoworkTyped
<1>9. /\ offsets'[f].at = 2 * n /\ offsets'[f].gen = offsets[f].gen
      /\ offsets'[f] \in CoworkPosition
  <2>1. PICK p \in CoworkPosition : p = offsets[f]
    BY <1>4
  <2>2. offsets'[f] = [p EXCEPT !.at = 2 * n]
    BY SMTT(40), <1>1, <1>8, <2>1
  <2>3. PICK m \in Nat : m = 2 * n
    BY <1>4
  <2> QED
    BY <2>1, <2>2, <2>3 DEF CoworkPosition
<1>10. told' \in Seq(CoworkRecord) /\ calls' \in SUBSET CoworkCall
  <2>1. CASE told' = told /\ calls' \subseteq calls
    BY SMTT(40), <1>7, <2>1
  <2>2. ASSUME NEW t \in roots[ProfileOf[f]],
               told' = Append(told, CoworkRecordOf(f, n, t, 0)),
               \/ calls' = calls
               \/ calls' = {c \in calls : c.id # coworkLog[f][n].id}
                             \cup {[id |-> coworkLog[f][n].id, install |-> t, line |-> n]}
        PROVE  told' \in Seq(CoworkRecord) /\ calls' \in SUBSET CoworkCall
    <3>1. t \in Installs /\ CoworkRecordOf(f, n, t, 0) \in CoworkRecord
      BY <1>6, <1>7
    <3>2. [id |-> coworkLog[f][n].id, install |-> t, line |-> n] \in CoworkCall
      BY <1>1, <1>4, <3>1 DEF CoworkCall, CoworkIds
    <3> QED
      BY <1>7, <2>2, <3>1, <3>2
  <2>3. ASSUME NEW c \in calls,
               told' = Append(told, CoworkRecordOf(f, n, c.install, c.line)),
               calls' \subseteq calls
        PROVE  told' \in Seq(CoworkRecord) /\ calls' \in SUBSET CoworkCall
    BY <1>6, <1>7, <2>3
  <2> QED
    BY <1>2, <2>1, <2>2, <2>3
<1>11. CoworkTyped'
  <2>1. offsets' \in [CoworkLogs -> CoworkPosition]
    <3>1. offsets' = [g \in CoworkLogs |-> offsets'[g]]
      BY <1>0, <1>1 DEF CoworkTyped
    <3>2. \A g \in CoworkLogs : offsets'[g] \in CoworkPosition
      BY <1>0, <1>8, <1>9 DEF CoworkTyped
    <3> QED
      BY <3>1, <3>2
  <2> QED
    BY <1>0, <1>3, <1>10, <2>1 DEF CoworkTyped
<1>12. CoworkShort'
  BY <1>0, <1>1, <1>3, <1>4, <1>8, <1>9 DEF CoworkShort
<1>13. CoworkRooted'
  BY <1>0, <1>3 DEF CoworkRooted
<1>14. CoworkPlaced'
  <2>1. \A g \in CoworkLogs : CoworkSize(g)' = CoworkSize(g)
    BY <1>3 DEF CoworkSize
  <2> QED
    BY <1>0, <1>1, <1>3, <1>8, <1>9, <2>1 DEF CoworkPlaced
<1>15. CoworkAhead'
  <2>1. watchedAt[f] <= (offsets'[f].at + 3) \div 2
    <3>1. PICK o \in Nat : o = offsets[f].at
      BY <1>4 DEF CoworkPosition
    <3>2. (o + 3) \div 2 <= (2 * n + 3) \div 2
      <4>1. 2 * n = o + 2 \/ 2 * n = o + 1
        BY <1>1, <3>1
      <4> QED
        BY <1>4, <4>1
    <3>3. watchedAt[f] <= (o + 3) \div 2 /\ watchedAt[f] \in Nat
      BY <1>0, <1>1, <3>1 DEF CoworkAhead, CoworkTyped
    <3> QED
      BY <1>4, <1>9, <3>2, <3>3
  <2>2. \A g \in CoworkLogs : offsets'[g].gen = offsets[g].gen
                               /\ (g # f => offsets'[g].at = offsets[g].at)
    BY <1>8, <1>9
  <2> QED
    BY <1>0, <1>1, <1>3, <2>1, <2>2 DEF CoworkAhead
<1>16. CallsTold'
  <2>1. \A c \in calls : \E j \in DOMAIN told : /\ told[j].install = c.install
                                                /\ told[j].line = c.line
                                                /\ told[j].life = life
    BY <1>0 DEF CallsTold
  <2>2. \A c, d \in calls : c.id = d.id => c = d
    BY <1>0 DEF CallsTold
  <2>3. CASE told' = told /\ calls' \subseteq calls
    BY <1>3, <2>1, <2>2, <2>3 DEF CallsTold
  <2>4. ASSUME NEW r \in CoworkRecord, told' = Append(told, r)
        PROVE  /\ Len(told') = Len(told) + 1 /\ told'[Len(told) + 1] = r
               /\ Len(told) + 1 \in DOMAIN told'
               /\ \A j \in DOMAIN told : j \in DOMAIN told' /\ told'[j] = told[j]
    BY <1>7, <2>4
  <2>5. ASSUME NEW r \in CoworkRecord, told' = Append(told, r), calls' \subseteq calls
        PROVE  CallsTold'
    <3>1. \A j \in DOMAIN told : j \in DOMAIN told' /\ told'[j] = told[j]
      BY <2>4, <2>5
    <3>2. \A c \in calls' : \E j \in DOMAIN told' : /\ told'[j].install = c.install
                                                    /\ told'[j].line = c.line
                                                    /\ told'[j].life = life
      BY SMTT(40), <2>1, <2>5, <3>1
    <3> QED
      BY <1>3, <2>2, <2>5, <3>2 DEF CallsTold
  <2>6. ASSUME NEW t \in roots[ProfileOf[f]],
               told' = Append(told, CoworkRecordOf(f, n, t, 0)),
               \/ calls' = calls
               \/ calls' = {c \in calls : c.id # coworkLog[f][n].id}
                             \cup {[id |-> coworkLog[f][n].id, install |-> t, line |-> n]}
        PROVE  CallsTold'
    <3>1. CoworkRecordOf(f, n, t, 0) \in CoworkRecord
      BY <1>6, <1>7
    <3>2. CASE calls' = calls
      BY <2>5, <2>6, <3>1, <3>2
    <3>3. CASE calls' = {c \in calls : c.id # coworkLog[f][n].id}
                             \cup {[id |-> coworkLog[f][n].id, install |-> t, line |-> n]}
      <4>1. PICK d : d = [id |-> coworkLog[f][n].id, install |-> t, line |-> n]
        OBVIOUS
      <4>2. d.id = coworkLog[f][n].id /\ d.install = t /\ d.line = n
        BY <4>1
      <4>3. \A c \in calls' : (c \in calls /\ c.id # d.id) \/ c = d
        BY <3>3, <4>1, <4>2
      <4>4. \A c, e \in calls' : c.id = e.id => c = e
        BY <2>2, <4>3
      <4>5. PICK k : k = Len(told) + 1
        BY SMTT(40)
      <4>6. /\ k \in DOMAIN told' /\ told'[k] = CoworkRecordOf(f, n, t, 0)
            /\ \A j \in DOMAIN told : j \in DOMAIN told' /\ told'[j] = told[j]
        BY <2>4, <2>6, <3>1, <4>5
      <4>7. told'[k].install = d.install /\ told'[k].line = d.line /\ told'[k].life = life
        BY <4>2, <4>6 DEF CoworkRecordOf
      <4>8. \A c \in calls' : \E j \in DOMAIN told' : /\ told'[j].install = c.install
                                                      /\ told'[j].line = c.line
                                                      /\ told'[j].life = life
        BY <2>1, <4>3, <4>6, <4>7
      <4> QED
        BY <1>3, <4>4, <4>8 DEF CallsTold
    <3> QED
      BY <2>6, <3>2, <3>3
  <2>7. ASSUME NEW c \in calls,
               told' = Append(told, CoworkRecordOf(f, n, c.install, c.line)),
               calls' \subseteq calls
        PROVE  CallsTold'
    BY <1>6, <1>7, <2>5, <2>7
  <2> QED
    BY <1>2, <2>3, <2>6, <2>7
<1> QED
  BY <1>11, <1>12, <1>13, <1>14, <1>15, <1>16 DEF CoworkInv

-----------------------------------------------------------------------------
(* Claude.                                                                  *)

\* Lines only grow, and a line is only completed.
LEMMA CoworkLineInv ==
  ASSUME CoworkInv, NEW f \in CoworkLogs,
         EndCoworkLine(f) \/ \E e \in CoworkEntries[f] : BeginCoworkLine(f, e)
  PROVE  CoworkInv'
<1>0. CoworkTyped /\ CoworkShort /\ CoworkRooted /\ CoworkPlaced /\ CoworkAhead /\ CallsTold
  BY DEF CoworkInv
<1>1. UNCHANGED <<coworkGen, watchedAt, aiguard, targets, targetsDisk, watching, roots, offsets,
                  calls, life, coworkScan, told, coworkFaults>>
  <2>1. CASE EndCoworkLine(f)
    BY <2>1 DEF EndCoworkLine, transcriptVars
  <2>2. CASE \E e \in CoworkEntries[f] : BeginCoworkLine(f, e)
    BY <2>2 DEF BeginCoworkLine, transcriptVars
  <2> QED
    BY <2>1, <2>2
<1>2. /\ coworkLog' \in [CoworkLogs -> Seq(CoworkSaid)]
      /\ coworkHalf' \in [CoworkLogs -> BOOLEAN]
      /\ \A g \in CoworkLogs : /\ Len(coworkLog'[g]) <= MaxCoworkLines
                               /\ coworkHalf'[g] => coworkLog'[g] # <<>>
                               /\ CoworkSize(g) <= CoworkSize(g)'
  <2>0. /\ \A g \in CoworkLogs : CoworkSize(g) \in Nat /\ Len(coworkLog[g]) \in Nat
        /\ MaxCoworkLines \in Nat
    BY <1>0, CoworkSizeOf, CoworkAssumption
  <2>1. CASE EndCoworkLine(f)
    <3>1. /\ coworkLog' = coworkLog /\ coworkHalf[f]
          /\ coworkHalf' = [coworkHalf EXCEPT ![f] = FALSE]
      BY <2>1 DEF EndCoworkLine
    <3>2. coworkHalf' \in [CoworkLogs -> BOOLEAN]
      BY <1>0, <3>1 DEF CoworkTyped
    <3>3. \A g \in CoworkLogs : coworkHalf'[g] => coworkHalf[g]
      BY <1>0, <3>1 DEF CoworkTyped
    <3>4. ASSUME NEW g \in CoworkLogs PROVE CoworkSize(g) <= CoworkSize(g)'
      <4>1. CASE g = f
        <5>1. ~coworkHalf'[g] /\ coworkHalf[g]
          BY <1>0, <3>1, <4>1 DEF CoworkTyped
        <5> QED
          BY <2>0, <3>1, <5>1 DEF CoworkSize
      <4>2. CASE g # f
        <5>1. coworkHalf'[g] = coworkHalf[g]
          BY <1>0, <3>1, <4>2 DEF CoworkTyped
        <5> QED
          BY <2>0, <3>1, <5>1 DEF CoworkSize
      <4> QED
        BY <4>1, <4>2
    <3> QED
      BY <1>0, <3>1, <3>2, <3>3, <3>4 DEF CoworkTyped, CoworkShort
  <2>2. ASSUME NEW e \in CoworkEntries[f], BeginCoworkLine(f, e)
        PROVE  /\ coworkLog' \in [CoworkLogs -> Seq(CoworkSaid)]
               /\ coworkHalf' \in [CoworkLogs -> BOOLEAN]
               /\ \A g \in CoworkLogs : /\ Len(coworkLog'[g]) <= MaxCoworkLines
                                        /\ coworkHalf'[g] => coworkLog'[g] # <<>>
                                        /\ CoworkSize(g) <= CoworkSize(g)'
    <3>1. /\ ~coworkHalf[f] /\ Len(coworkLog[f]) < MaxCoworkLines
          /\ coworkLog' = [coworkLog EXCEPT ![f] = Append(coworkLog[f], e)]
          /\ coworkHalf' = [coworkHalf EXCEPT ![f] = TRUE]
      BY <2>2 DEF BeginCoworkLine
    <3>2. /\ coworkLog[f] \in Seq(CoworkSaid)
          /\ Append(coworkLog[f], e) \in Seq(CoworkSaid)
          /\ Len(Append(coworkLog[f], e)) = Len(coworkLog[f]) + 1
          /\ Append(coworkLog[f], e) # <<>>
      <4>1. coworkLog[f] \in Seq(CoworkSaid) /\ e \in CoworkSaid
        BY <1>0 DEF CoworkTyped, CoworkSaid
      <4>2. Append(coworkLog[f], e) \in Seq(CoworkSaid)
            /\ Len(Append(coworkLog[f], e)) = Len(coworkLog[f]) + 1 /\ Len(coworkLog[f]) \in Nat
        BY <4>1
      <4>3. Len(<<>>) = 0
        OBVIOUS
      <4> QED
        BY <4>1, <4>2, <4>3
    <3>3. /\ coworkLog' \in [CoworkLogs -> Seq(CoworkSaid)]
          /\ coworkHalf' \in [CoworkLogs -> BOOLEAN]
      BY <1>0, <3>1, <3>2 DEF CoworkTyped
    <3>4. ASSUME NEW g \in CoworkLogs
          PROVE  /\ Len(coworkLog'[g]) <= MaxCoworkLines
                 /\ coworkHalf'[g] => coworkLog'[g] # <<>>
                 /\ CoworkSize(g) <= CoworkSize(g)'
      <4>1. CASE g = f
        <5>1. coworkLog'[g] = Append(coworkLog[g], e) /\ coworkHalf'[g] = TRUE /\ ~coworkHalf[g]
          BY <1>0, <3>1, <4>1 DEF CoworkTyped
        <5>2. Len(coworkLog'[g]) = Len(coworkLog[g]) + 1
          BY <3>2, <4>1, <5>1
        <5>3. CoworkSize(g) = 2 * Len(coworkLog[g])
          BY <2>0, <5>1 DEF CoworkSize
        <5>4. CoworkSize(g)' = 2 * Len(coworkLog'[g]) - 1
          BY <5>1 DEF CoworkSize
        <5> QED
          BY <2>0, <3>1, <3>2, <4>1, <5>1, <5>2, <5>3, <5>4
      <4>2. CASE g # f
        <5>1. coworkLog'[g] = coworkLog[g] /\ coworkHalf'[g] = coworkHalf[g]
          BY <1>0, <3>1, <4>2 DEF CoworkTyped
        <5>2. CoworkSize(g)' = CoworkSize(g)
          BY <5>1 DEF CoworkSize
        <5> QED
          BY <1>0, <2>0, <5>1, <5>2 DEF CoworkShort
      <4> QED
        BY <4>1, <4>2
    <3> QED
      BY <3>3, <3>4
  <2> QED
    BY <2>1, <2>2
<1>3. CoworkTyped'
  BY <1>0, <1>1, <1>2 DEF CoworkTyped
<1>4. CoworkShort'
  BY <1>0, <1>1, <1>2 DEF CoworkShort
<1>5. CoworkPlaced'
  <2>1. \A g \in CoworkLogs : CoworkSize(g) \in Nat /\ CoworkSize(g)' \in Nat
                              /\ offsets[g].at \in Nat
    <3>1. \A g \in CoworkLogs : CoworkSize(g) \in Nat
      BY <1>0, CoworkSizeOf
    <3>2. \A g \in CoworkLogs : CoworkSize(g)' \in Nat
      <4>1. ASSUME NEW g \in CoworkLogs PROVE CoworkSize(g)' \in Nat
        <5>1. /\ Len(coworkLog'[g]) \in Nat /\ coworkHalf'[g] \in BOOLEAN
              /\ coworkHalf'[g] => Len(coworkLog'[g]) # 0
          BY <1>2
        <5> QED
          BY <5>1 DEF CoworkSize
      <4> QED
        BY <4>1
    <3>3. \A g \in CoworkLogs : offsets[g].at \in Nat
      BY <1>0 DEF CoworkTyped, CoworkPosition
    <3> QED
      BY <3>1, <3>2, <3>3
  <2>2. ASSUME NEW g \in CoworkLogs, offsets[g].gen = coworkGen[g]
        PROVE  offsets[g].at <= CoworkSize(g)'
    <3>1. offsets[g].at <= CoworkSize(g) /\ CoworkSize(g) <= CoworkSize(g)'
      BY <1>0, <1>2, <2>2 DEF CoworkPlaced
    <3> HIDE DEF CoworkSize
    <3> QED
      BY <2>1, <3>1
  <2> QED
    BY <1>0, <1>1, <2>2 DEF CoworkPlaced
<1>6. CoworkRooted' /\ CoworkAhead' /\ CallsTold'
  BY <1>0, <1>1 DEF CoworkRooted, CoworkAhead, CallsTold
<1> QED
  BY <1>3, <1>4, <1>5, <1>6 DEF CoworkInv

LEMMA SwapCoworkInv ==
  ASSUME CoworkInv, NEW f \in CoworkLogs, SwapCoworkLog(f)
  PROVE  CoworkInv'
<1>0. CoworkTyped /\ CoworkShort /\ CoworkRooted /\ CoworkPlaced /\ CoworkAhead /\ CallsTold
  BY DEF CoworkInv
<1>1. /\ coworkLog' = [coworkLog EXCEPT ![f] = <<>>]
      /\ coworkHalf' = [coworkHalf EXCEPT ![f] = FALSE]
      /\ coworkGen' = [coworkGen EXCEPT ![f] = coworkGen[f] + 1]
      /\ watchedAt' = [watchedAt EXCEPT ![f] = 1]
      /\ UNCHANGED <<aiguard, targets, targetsDisk, watching, roots, offsets, calls, life,
                     coworkScan, told, coworkFaults>>
  BY DEF SwapCoworkLog, transcriptVars
<1>2. /\ coworkLog' \in [CoworkLogs -> Seq(CoworkSaid)]
      /\ coworkHalf' \in [CoworkLogs -> BOOLEAN]
      /\ coworkGen' \in [CoworkLogs -> Nat] /\ watchedAt' \in [CoworkLogs -> Nat]
  BY <1>0, <1>1 DEF CoworkTyped
<1>3. /\ coworkLog'[f] = <<>> /\ coworkHalf'[f] = FALSE /\ watchedAt'[f] = 1
      /\ coworkGen'[f] = coworkGen[f] + 1 /\ coworkGen[f] \in Nat
      /\ \A g \in CoworkLogs : g # f =>
           /\ coworkLog'[g] = coworkLog[g] /\ coworkHalf'[g] = coworkHalf[g]
           /\ coworkGen'[g] = coworkGen[g] /\ watchedAt'[g] = watchedAt[g]
           /\ CoworkSize(g)' = CoworkSize(g)
  <2>1. /\ coworkLog'[f] = <<>> /\ coworkHalf'[f] = FALSE /\ watchedAt'[f] = 1
        /\ coworkGen'[f] = coworkGen[f] + 1 /\ coworkGen[f] \in Nat
        /\ \A g \in CoworkLogs : g # f =>
             /\ coworkLog'[g] = coworkLog[g] /\ coworkHalf'[g] = coworkHalf[g]
             /\ coworkGen'[g] = coworkGen[g] /\ watchedAt'[g] = watchedAt[g]
    BY <1>0, <1>1 DEF CoworkTyped
  <2>2. ASSUME NEW g \in CoworkLogs, g # f PROVE CoworkSize(g)' = CoworkSize(g)
    BY <2>1, <2>2 DEF CoworkSize
  <2> QED
    BY <2>1, <2>2
<1>4. \A g \in CoworkLogs : offsets[g] \in CoworkPosition
  BY <1>0 DEF CoworkTyped
<1>5. CoworkTyped'
  BY <1>0, <1>1, <1>2 DEF CoworkTyped
<1>6. CoworkShort'
  <2>1. MaxCoworkLines \in Nat /\ Len(<<>>) = 0
    BY CoworkAssumption
  <2> QED
    BY <1>0, <1>1, <1>3, <2>1 DEF CoworkShort
<1>7. CoworkRooted' /\ CallsTold'
  BY <1>0, <1>1 DEF CoworkRooted, CallsTold
<1>8. CoworkPlaced'
  <2>1. offsets[f].gen <= coworkGen[f] /\ offsets[f].gen \in Nat
    BY <1>0, <1>4 DEF CoworkPlaced, CoworkPosition
  <2>2. offsets[f].gen <= coworkGen'[f] /\ offsets[f].gen # coworkGen'[f]
    BY <1>3, <2>1
  <2> QED
    BY <1>0, <1>1, <1>3, <2>2 DEF CoworkPlaced
<1>9. CoworkAhead'
  <2>1. 1 <= (offsets[f].at + 3) \div 2
    <3>1. PICK o \in Nat : o = offsets[f].at
      BY <1>4 DEF CoworkPosition
    <3> QED
      BY <3>1
  <2> QED
    BY <1>0, <1>1, <1>3, <2>1 DEF CoworkAhead
<1> QED
  BY <1>5, <1>6, <1>7, <1>8, <1>9 DEF CoworkInv

-----------------------------------------------------------------------------
LEMMA CoworkStep == CoworkInv /\ [CoworkNext]_coworkVars => CoworkInv'
<1> SUFFICES ASSUME CoworkInv, [CoworkNext]_coworkVars PROVE CoworkInv'
  OBVIOUS
<1>1. CASE (\E i \in Installs : EnableCowork(i) \/ DisableCowork(i)) \/ StartCowork \/ StopCowork
  BY <1>1, CoworkTargetSteps, Zenon
<1>2. CASE BeginCoworkPoll \/ CloseTranscript \/ EndCoworkPoll
  BY <1>2, CoworkScanSteps
<1>3. CASE ConsumeTranscriptLine
  BY <1>3, ConsumeTranscriptInv
<1>4. CASE \E f \in CoworkLogs : OpenTranscript(f)
  BY <1>4, OpenTranscriptInv
<1>5. CASE \E f \in CoworkLogs : EndCoworkLine(f) \/ \E e \in CoworkEntries[f] : BeginCoworkLine(f, e)
  BY <1>5, CoworkLineInv
<1>6. CASE \E f \in CoworkLogs : SwapCoworkLog(f)
  BY <1>6, SwapCoworkInv
<1>7. CASE UNCHANGED coworkVars
  BY <1>7 DEF coworkVars, CoworkInv, CoworkTyped, CoworkShort, CoworkRooted, CoworkPlaced,
              CoworkAhead, CallsTold, CoworkSize
<1> QED
  BY <1>1, <1>2, <1>3, <1>4, <1>5, <1>6, <1>7 DEF CoworkNext

LEMMA CoworkInvariant == CoworkSpec => []CoworkInv
  BY CoworkInitInv, CoworkStep, PTL DEF CoworkSpec

\* The variables of the Cowork monitor keep their types: what is watched is
\* patched, positions stay within the bound, a tool-use id is pending once.
THEOREM CoworkTypesHold == CoworkSpec => []CoworkTypeOK
<1>1. CoworkInv => CoworkTypeOK
  <2> SUFFICES ASSUME CoworkInv PROVE CoworkTypeOK
    OBVIOUS
  <2>0. CoworkTyped /\ CoworkShort /\ CoworkRooted /\ CallsTold
    BY DEF CoworkInv
  <2>1. \A f \in CoworkLogs : offsets[f].at \in 0 .. 2 * MaxCoworkLines
    BY <2>0, CoworkAssumption DEF CoworkTyped, CoworkPosition, CoworkShort
  <2>2. UNION {roots[p] : p \in Profiles} \subseteq targets
    BY <2>0 DEF CoworkRooted
  <2>3. coworkScan.todo \cup ({coworkScan.at} \ {NoLog}) \subseteq CoworkLogs
    BY SMTT(40), <2>0 DEF CoworkTyped
  <2> QED
    BY <2>0, <2>1, <2>2, <2>3 DEF CoworkTypeOK, CoworkTyped, CallsTold
<1> QED
  BY <1>1, CoworkInvariant, PTL

\* The record of a line names a root's target or the target of a pending call,
\* which was told before.
LEMMA CoworkNewRecord ==
  ASSUME CoworkInv, ConsumeTranscriptLine,
         NEW f, f = coworkScan.at, NEW n, n = CoworkLineAt(offsets[f].at)
  PROVE  \/ told' = told
         \/ \E i \in Installs, l \in Nat :
              /\ offsets[f].at % 2 = 0
              /\ told' = Append(told, CoworkRecordOf(f, n, i, l))
              /\ \/ i \in targets
                 \/ \E j \in DOMAIN told : /\ told[j].install = i
                                           /\ told[j].line = l
                                           /\ told[j].life = life
<1>0. CoworkTyped /\ CoworkRooted /\ CallsTold
  BY DEF CoworkInv
<1>1. f \in CoworkLogs
  BY CoworkLineRecords
<1>2. \/ told' = told /\ calls' \subseteq calls
      \/ \E t \in roots[ProfileOf[f]] :
           /\ offsets[f].at % 2 = 0
           /\ told' = Append(told, CoworkRecordOf(f, n, t, 0))
           /\ \/ calls' = calls
              \/ calls' = {c \in calls : c.id # coworkLog[f][n].id}
                            \cup {[id |-> coworkLog[f][n].id, install |-> t, line |-> n]}
      \/ \E c \in calls :
           /\ offsets[f].at % 2 = 0
           /\ told' = Append(told, CoworkRecordOf(f, n, c.install, c.line))
           /\ calls' \subseteq calls
  BY CoworkLineRecords
<1>3. /\ \A t \in roots[ProfileOf[f]] : t \in Installs /\ t \in targets
      /\ \A c \in calls : c.install \in Installs /\ c.line \in Nat
  <2>1. ProfileOf[f] \in Profiles
    BY <1>1, CoworkAssumption
  <2> QED
    BY <1>0, <2>1 DEF CoworkTyped, CoworkRooted, CoworkCall
<1>4. CASE told' = told
  BY <1>4
<1>5. ASSUME NEW t \in roots[ProfileOf[f]], offsets[f].at % 2 = 0,
             told' = Append(told, CoworkRecordOf(f, n, t, 0))
      PROVE  \E i \in Installs, l \in Nat :
               /\ offsets[f].at % 2 = 0
               /\ told' = Append(told, CoworkRecordOf(f, n, i, l))
               /\ \/ i \in targets
                  \/ \E j \in DOMAIN told : /\ told[j].install = i
                                            /\ told[j].line = l
                                            /\ told[j].life = life
  BY <1>3, <1>5
<1>6. ASSUME NEW c \in calls, offsets[f].at % 2 = 0,
             told' = Append(told, CoworkRecordOf(f, n, c.install, c.line))
      PROVE  \E i \in Installs, l \in Nat :
               /\ offsets[f].at % 2 = 0
               /\ told' = Append(told, CoworkRecordOf(f, n, i, l))
               /\ \/ i \in targets
                  \/ \E j \in DOMAIN told : /\ told[j].install = i
                                            /\ told[j].line = l
                                            /\ told[j].life = life
  <2>1. \E j \in DOMAIN told : /\ told[j].install = c.install
                               /\ told[j].line = c.line
                               /\ told[j].life = life
    BY <1>0 DEF CallsTold
  <2> QED
    BY <1>3, <1>6, <2>1
<1> QED
  BY <1>2, <1>4, <1>5, <1>6

\* A Cowork record is of a line begun since its profile is watched, and names
\* an installation that is patched or the one its call named
\* (transcript_windows.go:123-125): no earlier session is imported.
THEOREM OnlyNewLinesAreTold == CoworkSpec => OnlyWatchedLines
<1> DEFINE New == \A k \in Len(told) + 1 .. Len(told') :
                    LET r == told'[k]
                    IN /\ r.line >= watchedAt[r.file]
                       /\ \/ r.install \in targets
                          \/ \E j \in DOMAIN told : /\ told[j].install = r.install
                                                    /\ told[j].line = r.call
                                                    /\ told[j].life = r.life
<1>1. CoworkInv /\ [CoworkNext]_coworkVars => [New]_coworkVars
  <2> SUFFICES ASSUME CoworkInv, [CoworkNext]_coworkVars PROVE New \/ UNCHANGED coworkVars
    OBVIOUS
  <2>0. /\ CoworkTyped /\ CoworkRooted /\ CoworkAhead /\ CallsTold /\ Len(told) \in Nat
        /\ told \in Seq(CoworkRecord)
    BY DEF CoworkInv, CoworkTyped
  <2>1. CASE told' = told
    BY <2>0, <2>1
  <2>2. CASE ConsumeTranscriptLine
    <3> SUFFICES ASSUME NEW f, f = coworkScan.at, NEW n, n = CoworkLineAt(offsets[f].at)
                 PROVE  New
      OBVIOUS
    <3>1. f \in CoworkLogs /\ roots[ProfileOf[f]] # {} /\ n \in 1..Len(coworkLog[f])
      BY <2>2, CoworkLineRecords
    <3>2. \/ told' = told
          \/ \E i \in Installs, l \in Nat :
               /\ offsets[f].at % 2 = 0
               /\ told' = Append(told, CoworkRecordOf(f, n, i, l))
               /\ \/ i \in targets
                  \/ \E j \in DOMAIN told : /\ told[j].install = i
                                            /\ told[j].line = l
                                            /\ told[j].life = life
      BY <2>2, CoworkNewRecord
    <3>3. ASSUME NEW i \in Installs, NEW l \in Nat, offsets[f].at % 2 = 0,
                 told' = Append(told, CoworkRecordOf(f, n, i, l)),
                 \/ i \in targets
                 \/ \E j \in DOMAIN told : /\ told[j].install = i
                                           /\ told[j].line = l
                                           /\ told[j].life = life
          PROVE  New
      <4>1. PICK r : r = CoworkRecordOf(f, n, i, l)
        OBVIOUS
      <4>2. r.file = f /\ r.line = n /\ r.install = i /\ r.call = l /\ r.life = life
        BY <4>1 DEF CoworkRecordOf
      <4>3. told' = Append(told, r) /\ Len(told') = Len(told) + 1 /\ told'[Len(told) + 1] = r
        BY <2>0, <3>3, <4>1
      <4>4. \A k \in Len(told) + 1 .. Len(told') : told'[k] = r
        BY <2>0, <4>3
      <4>5. n >= watchedAt[f]
        <5>1. PICK o \in Nat : o = offsets[f].at
          BY <2>0, <3>1 DEF CoworkTyped, CoworkPosition
        <5>2. watchedAt[f] <= (o + 3) \div 2 /\ watchedAt[f] \in Nat
          BY <2>0, <3>1, <5>1 DEF CoworkAhead, CoworkTyped
        <5>3. n \in Nat /\ o % 2 = 0 /\ 2 * n = o + 2
          BY <3>3, <5>1, LineOfOffset
        <5> QED
          BY <5>2, <5>3
      <4> HIDE DEF CoworkRecordOf
      <4> QED
        BY <3>3, <4>2, <4>4, <4>5
    <3> QED
      BY SMTT(40), <2>1, <3>2, <3>3
  <2>3. CASE told' # told /\ ~ConsumeTranscriptLine
    <3>1. CASE \E i \in Installs : EnableCowork(i) \/ DisableCowork(i)
      BY <2>3, <3>1 DEF EnableCowork, DisableCowork
    <3>2. CASE StartCowork \/ StopCowork
      BY <2>3, <3>2 DEF StartCowork, StopCowork
    <3>3. CASE BeginCoworkPoll \/ CloseTranscript \/ EndCoworkPoll
      BY <2>3, <3>3 DEF BeginCoworkPoll, CloseTranscript, EndCoworkPoll
    <3>4. CASE \E f \in CoworkLogs : OpenTranscript(f) \/ EndCoworkLine(f) \/ SwapCoworkLog(f)
      BY <2>3, <3>4 DEF OpenTranscript, EndCoworkLine, SwapCoworkLog
    <3>5. CASE \E f \in CoworkLogs : \E e \in CoworkEntries[f] : BeginCoworkLine(f, e)
      BY <2>3, <3>5 DEF BeginCoworkLine
    <3>6. CASE UNCHANGED coworkVars
      BY <3>6
    <3> QED
      BY <2>3, <3>1, <3>2, <3>3, <3>4, <3>5, <3>6 DEF CoworkNext
  <2> QED
    BY <2>1, <2>2, <2>3
<1>2. [][New]_coworkVars => OnlyWatchedLines
  BY PTL DEF OnlyWatchedLines
<1> QED
  BY <1>1, <1>2, CoworkInvariant, PTL DEF CoworkSpec

-----------------------------------------------------------------------------
(***************************************************************************)
(* What a log says is told, once in each life of the monitor.  The pending *)
(* calls are kept by tool-use id alone, so that a result is sure to find   *)
(* its call only where no two logs share an id.                            *)
(***************************************************************************)

IdsOfOneLog ==
  \A f, g \in CoworkLogs : f # g =>
    \A d \in CoworkEntries[f], e \in CoworkEntries[g] : d.id # e.id

CoworkFirst(o) == (o.seed + 3) \div 2

LineTold(f, i) ==
  \E k \in DOMAIN told : /\ told[k].file = f /\ told[k].gen = coworkGen[f]
                         /\ told[k].line = i /\ told[k].life = life

LinesTold(f, first, last) ==
  \A i \in first .. last :
    (coworkLog[f][i].kind = "tool_result" => SawCall(f, first, i)) => LineTold(f, i)

\* The last call of an id among the lines first to last is pending.
CallsPending(f, first, last) ==
  \A j \in first .. last :
    /\ coworkLog[f][j].kind = "tool_use"
    /\ \A k \in j + 1 .. last : coworkLog[f][k].id # coworkLog[f][j].id
    => \E c \in calls : c.id = coworkLog[f][j].id

CoworkOwn ==
  \A f \in CoworkLogs : \A i \in DOMAIN coworkLog[f] : coworkLog[f][i] \in CoworkEntries[f]

\* Only a seed can lie in the middle of a line.
CoworkSeeded ==
  \A f \in CoworkLogs : /\ offsets[f].seed <= offsets[f].at
                        /\ offsets[f].at % 2 = 1 => offsets[f].at = offsets[f].seed

CoworkTold ==
  \A f \in CoworkLogs : offsets[f].gen = coworkGen[f] =>
    /\ LinesTold(f, CoworkFirst(offsets[f]), offsets[f].at \div 2)
    /\ CallsPending(f, CoworkFirst(offsets[f]), offsets[f].at \div 2)

\* What this life has told of the present contents lies behind the position.
CoworkBehind ==
  \A k \in DOMAIN told :
    /\ told[k].life <= life /\ told[k].gen <= coworkGen[told[k].file]
    /\ watching /\ told[k].life = life /\ told[k].gen = coworkGen[told[k].file] =>
         /\ 2 * told[k].line <= offsets[told[k].file].at
         /\ offsets[told[k].file].at <= CoworkSize(told[k].file)

CoworkOnce ==
  \A j, k \in DOMAIN told :
    /\ told[j].file = told[k].file /\ told[j].gen = told[k].gen
    /\ told[j].line = told[k].line /\ told[j].life = told[k].life
    => j = k

ToldInv == CoworkInv /\ CoworkOwn /\ CoworkSeeded /\ CoworkTold /\ CoworkBehind /\ CoworkOnce

LEMMA ToldInitInv == CoworkInit => ToldInv
<1> SUFFICES ASSUME CoworkInit PROVE ToldInv
  OBVIOUS
<1>1. CoworkInv
  BY CoworkInitInv
<1>2. \A f \in CoworkLogs : coworkLog[f] = <<>> /\ offsets[f] = [at |-> 0, gen |-> 0, seed |-> 0]
  BY DEF CoworkInit, NoOffsets
<1>3. told = <<>>
  BY DEF CoworkInit
<1>4. CoworkOwn /\ CoworkSeeded
  BY <1>2 DEF CoworkOwn, CoworkSeeded
<1>5. CoworkTold
  <2>1. \A f \in CoworkLogs : \A i \in CoworkFirst(offsets[f]) .. offsets[f].at \div 2 : FALSE
    BY <1>2 DEF CoworkFirst
  <2> QED
    BY <2>1 DEF CoworkTold, LinesTold, CallsPending
<1>6. CoworkBehind /\ CoworkOnce
  BY <1>3 DEF CoworkBehind, CoworkOnce
<1> QED
  BY <1>1, <1>4, <1>5, <1>6 DEF ToldInv

\* Nothing is promised of a log not yet read beyond its seed.
LEMMA NothingReadYet ==
  ASSUME NEW o \in CoworkPosition, o.at = o.seed
  PROVE  \A i \in CoworkFirst(o) .. o.at \div 2 : FALSE
<1>1. PICK s \in Nat : s = o.seed /\ s = o.at
  BY DEF CoworkPosition
<1>2. \A i \in (s + 3) \div 2 .. s \div 2 : FALSE
  BY <1>1
<1> QED
  BY <1>1, <1>2 DEF CoworkFirst

\* Lines that stay as they were stay told, and calls that stay stay pending.
LEMMA LinesStayTold ==
  ASSUME NEW f \in CoworkLogs, NEW first \in Nat, NEW last \in Nat,
         \A i \in first .. last : coworkLog'[f][i] = coworkLog[f][i],
         coworkGen'[f] = coworkGen[f], life' = life,
         \A k \in DOMAIN told : k \in DOMAIN told' /\ told'[k] = told[k],
         LinesTold(f, first, last)
  PROVE  LinesTold(f, first, last)'
<1>1. ASSUME NEW i \in first .. last, coworkLog'[f][i].kind = "tool_result" => SawCall(f, first, i)'
      PROVE  LineTold(f, i)'
  <2>1. ASSUME SawCall(f, first, i)' PROVE SawCall(f, first, i)
    <3>1. PICK j \in first .. i - 1 :
            /\ coworkLog'[f][j].kind = "tool_use" /\ coworkLog'[f][j].id = coworkLog'[f][i].id
            /\ \A k \in j + 1 .. i - 1 : coworkLog'[f][k].id # coworkLog'[f][i].id
      BY <2>1 DEF SawCall
    <3>2. j \in first .. last /\ \A k \in j + 1 .. i - 1 : k \in first .. last
      OBVIOUS
    <3> QED
      BY <3>1, <3>2 DEF SawCall
  <2>2. LineTold(f, i)
    BY <1>1, <2>1 DEF LinesTold
  <2> QED
    BY <2>2 DEF LineTold
<1> QED
  BY <1>1 DEF LinesTold

LEMMA CallsStayPending ==
  ASSUME NEW f \in CoworkLogs, NEW first \in Nat, NEW last \in Nat,
         \A i \in first .. last : coworkLog'[f][i] = coworkLog[f][i],
         \A c \in calls : (\E i \in first .. last : c.id = coworkLog[f][i].id) => c \in calls',
         CallsPending(f, first, last)
  PROVE  CallsPending(f, first, last)'
<1>1. ASSUME NEW j \in first .. last, coworkLog'[f][j].kind = "tool_use",
             \A k \in j + 1 .. last : coworkLog'[f][k].id # coworkLog'[f][j].id
      PROVE  \E c \in calls' : c.id = coworkLog'[f][j].id
  <2>1. \A k \in j + 1 .. last : k \in first .. last
    OBVIOUS
  <2>2. PICK c \in calls : c.id = coworkLog[f][j].id
    BY <1>1, <2>1 DEF CallsPending
  <2> QED
    BY <1>1, <2>2
<1> QED
  BY <1>1 DEF CallsPending

\* Where what is read lies.
LEMMA ReadWithin ==
  ASSUME CoworkInv, NEW f \in CoworkLogs
  PROVE  /\ CoworkFirst(offsets[f]) \in Nat /\ 1 <= CoworkFirst(offsets[f])
         /\ offsets[f].at \div 2 \in Nat
         /\ offsets[f].gen = coworkGen[f] => offsets[f].at \div 2 <= Len(coworkLog[f])
<1>1. PICK o \in Nat : o = offsets[f].at
  BY DEF CoworkInv, CoworkTyped, CoworkPosition
<1>2. PICK s \in Nat : s = offsets[f].seed
  BY DEF CoworkInv, CoworkTyped, CoworkPosition
<1>3. CoworkFirst(offsets[f]) \in Nat /\ 1 <= CoworkFirst(offsets[f])
  BY <1>2 DEF CoworkFirst
<1>4. o \div 2 \in Nat
  BY <1>1
<1>5. ASSUME offsets[f].gen = coworkGen[f] PROVE o \div 2 <= Len(coworkLog[f])
  <2>1. o <= CoworkSize(f)
    BY <1>1, <1>5 DEF CoworkInv, CoworkPlaced
  <2>2. /\ CoworkSize(f) \in Nat /\ Len(coworkLog[f]) \in Nat
        /\ CoworkSize(f) = 2 * Len(coworkLog[f]) \/ CoworkSize(f) = 2 * Len(coworkLog[f]) - 1
    BY CoworkSizeOf DEF CoworkInv
  <2> QED
    BY <1>1, <2>1, <2>2
<1> QED
  BY <1>1, <1>3, <1>4, <1>5

\* A step that reads no line: positions are kept, or begin anew.
LEMMA PositionsInv ==
  ASSUME ToldInv, CoworkInv', UNCHANGED <<coworkLog, coworkHalf, coworkGen, told>>,
         \A f \in CoworkLogs :
           \/ offsets'[f].at = offsets'[f].seed
           \/ offsets'[f] = offsets[f] /\ calls' = calls /\ life' = life,
         \/ life' = life + 1
         \/ life' = life /\ ~watching'
         \/ /\ life' = life /\ watching
            /\ \A f \in CoworkLogs : \/ offsets'[f] = offsets[f]
                                     \/ offsets'[f].at = CoworkSize(f)
                                     \/ CoworkSize(f) < offsets[f].at
  PROVE  ToldInv'
<1>0. CoworkInv /\ CoworkTyped /\ CoworkTyped' /\ told \in Seq(CoworkRecord) /\ life \in Nat
  BY DEF ToldInv, CoworkInv, CoworkTyped
<1>1. CoworkOwn' /\ CoworkOnce'
  BY DEF ToldInv, CoworkOwn, CoworkOnce
<1>2. \A f \in CoworkLogs : offsets[f] \in CoworkPosition /\ offsets'[f] \in CoworkPosition
  BY <1>0 DEF CoworkTyped
<1>3. CoworkSeeded'
  <2>1. ASSUME NEW f \in CoworkLogs
        PROVE  /\ offsets'[f].seed <= offsets'[f].at
               /\ offsets'[f].at % 2 = 1 => offsets'[f].at = offsets'[f].seed
    <3>1. CASE offsets'[f].at = offsets'[f].seed
      BY <1>2, <3>1 DEF CoworkPosition
    <3>2. CASE offsets'[f] = offsets[f]
      BY <3>2 DEF ToldInv, CoworkSeeded
    <3> QED
      BY <3>1, <3>2
  <2> QED
    BY <2>1 DEF CoworkSeeded
<1>4. CoworkTold'
  <2>1. ASSUME NEW f \in CoworkLogs, offsets'[f].gen = coworkGen'[f],
               NEW o, o = offsets'[f]
        PROVE  /\ LinesTold(f, CoworkFirst(o), o.at \div 2)'
               /\ CallsPending(f, CoworkFirst(o), o.at \div 2)'
    <3>1. CASE o.at = o.seed
      <4>1. \A i \in CoworkFirst(o) .. o.at \div 2 : FALSE
        BY <1>2, <2>1, <3>1, NothingReadYet
      <4> QED
        BY <4>1 DEF LinesTold, CallsPending
    <3>2. CASE o.at # o.seed
      <4>1. o = offsets[f] /\ calls' = calls /\ life' = life /\ coworkGen'[f] = coworkGen[f]
        BY <2>1, <3>2
      <4>2. /\ LinesTold(f, CoworkFirst(o), o.at \div 2)
            /\ CallsPending(f, CoworkFirst(o), o.at \div 2)
        BY <2>1, <4>1 DEF ToldInv, CoworkTold
      <4>3. CoworkFirst(o) \in Nat /\ o.at \div 2 \in Nat
        BY <1>0, <4>1, ReadWithin
      <4>4. PICK first \in Nat, last \in Nat : first = CoworkFirst(o) /\ last = o.at \div 2
        BY <4>3
      <4>5. LinesTold(f, first, last) /\ CallsPending(f, first, last)
        BY <4>2, <4>4
      <4>6. LinesTold(f, first, last)'
        BY <4>1, <4>5, LinesStayTold
      <4>7. CallsPending(f, first, last)'
        BY <4>1, <4>5, CallsStayPending
      <4> QED
        BY <4>4, <4>6, <4>7
    <3> QED
      BY <3>1, <3>2
  <2> QED
    BY <2>1 DEF CoworkTold
<1>5. CoworkBehind'
  <2>1. ASSUME NEW k \in DOMAIN told
        PROVE  /\ told[k].life <= life' /\ told[k].gen <= coworkGen[told[k].file]
               /\ watching' /\ told[k].life = life' /\ told[k].gen = coworkGen[told[k].file] =>
                    /\ 2 * told[k].line <= offsets'[told[k].file].at
                    /\ offsets'[told[k].file].at <= CoworkSize(told[k].file)
    <3>1. told[k] \in CoworkRecord
      BY <1>0
    <3>2. /\ told[k].file \in CoworkLogs /\ told[k].line \in Nat /\ told[k].life \in Nat
      BY <3>1 DEF CoworkRecord
    <3>3. /\ told[k].life <= life /\ told[k].gen <= coworkGen[told[k].file]
          /\ watching /\ told[k].life = life /\ told[k].gen = coworkGen[told[k].file] =>
               /\ 2 * told[k].line <= offsets[told[k].file].at
               /\ offsets[told[k].file].at <= CoworkSize(told[k].file)
      BY DEF ToldInv, CoworkBehind
    <3>4. /\ offsets[told[k].file].at \in Nat /\ CoworkSize(told[k].file) \in Nat
      BY <1>0, <1>2, <3>2, CoworkSizeOf DEF CoworkPosition, CoworkInv
    <3>5. CASE life' = life + 1 \/ (life' = life /\ ~watching')
      BY <1>0, <3>2, <3>3, <3>5
    <3>6. CASE life' = life /\ watching
                 /\ \A f \in CoworkLogs : \/ offsets'[f] = offsets[f]
                                          \/ offsets'[f].at = CoworkSize(f)
                                          \/ CoworkSize(f) < offsets[f].at
      BY <3>2, <3>3, <3>4, <3>6
    <3> QED
      BY <3>5, <3>6
  <2>2. \A f : CoworkSize(f)' = CoworkSize(f)
    BY DEF CoworkSize
  <2> QED
    BY <2>1, <2>2 DEF CoworkBehind
<1> QED
  BY <1>1, <1>3, <1>4, <1>5 DEF ToldInv

LEMMA ToldQuiet ==
  ASSUME ToldInv, CoworkInv',
         UNCHANGED <<coworkLog, coworkHalf, coworkGen, told, offsets, calls, life, watching>>
  PROVE  ToldInv'
<1>1. watching \in BOOLEAN
  BY DEF ToldInv, CoworkInv, CoworkTyped
<1> QED
  BY <1>1, PositionsInv

LEMMA SeedIsPosition ==
  ASSUME NEW at, NEW f
  PROVE  CoworkOffset(at, f).at = at /\ CoworkOffset(at, f).seed = at
  BY DEF CoworkOffset

\* A log is seeded at its end or keeps its position.
LEMMA SetTargetsPositions ==
  ASSUME NEW ts, NEW before, NEW offs, SetTargets(ts, before, offs), NEW f \in CoworkLogs
  PROVE  \/ offsets'[f] = offs[f]
         \/ offsets'[f] = CoworkOffset(CoworkSize(f), f)
<1>1. PICK seeded : offsets' = [g \in CoworkLogs |->
                      IF g \in seeded THEN CoworkOffset(CoworkSize(g), g) ELSE offs[g]]
  BY DEF SetTargets
<1> QED
  BY <1>1

LEMMA RetargetTold ==
  ASSUME ToldInv, CoworkInv', NEW ts, Retarget(ts),
         UNCHANGED <<coworkLog, coworkHalf, coworkGen, told>>
  PROVE  ToldInv'
<1>1. CASE watching
  <2>1. SetTargets(ts, roots, offsets) /\ calls' = calls /\ life' = life
    BY <1>1 DEF Retarget
  <2>2. \A f \in CoworkLogs : \/ offsets'[f] = offsets[f]
                              \/ offsets'[f] = CoworkOffset(CoworkSize(f), f)
    BY <2>1, SetTargetsPositions
  <2>3. \A f \in CoworkLogs : \/ offsets'[f] = offsets[f]
                              \/ /\ offsets'[f].at = CoworkSize(f)
                                 /\ offsets'[f].seed = CoworkSize(f)
    BY <2>2, SeedIsPosition
  <2> QED
    BY <1>1, <2>1, <2>3, PositionsInv
<1>2. CASE ~watching
  <2>1. SetTargets(ts, NoRoots, NoOffsets) /\ life' = life + 1
    BY <1>2 DEF Retarget, NewTranscriptMonitor
  <2>2. \A f \in CoworkLogs : \/ offsets'[f] = NoOffsets[f]
                              \/ offsets'[f] = CoworkOffset(CoworkSize(f), f)
    BY <2>1, SetTargetsPositions
  <2>3. \A f \in CoworkLogs : offsets'[f].at = offsets'[f].seed
    <3>1. \A f \in CoworkLogs : NoOffsets[f].at = NoOffsets[f].seed
      BY DEF NoOffsets
    <3> QED
      BY <2>2, <3>1, SeedIsPosition
  <2> QED
    BY <2>1, <2>3, PositionsInv
<1> QED
  BY <1>1, <1>2

LEMMA StopTold ==
  ASSUME ToldInv, CoworkInv', StopTranscript,
         UNCHANGED <<coworkLog, coworkHalf, coworkGen, told>>
  PROVE  ToldInv'
<1>1. \A f \in CoworkLogs : offsets'[f].at = offsets'[f].seed
  BY DEF StopTranscript, NoOffsets
<1>2. life' = life /\ ~watching'
  BY DEF StopTranscript
<1> QED
  BY <1>1, <1>2, PositionsInv

LEMMA TargetsTold ==
  ASSUME ToldInv, CoworkInv',
         (\E i \in Installs : EnableCowork(i) \/ DisableCowork(i)) \/ StartCowork \/ StopCowork
  PROVE  ToldInv'
<1>1. UNCHANGED <<coworkLog, coworkHalf, coworkGen, told>>
  BY DEF EnableCowork, DisableCowork, StartCowork, StopCowork
<1>2. ASSUME UNCHANGED transcriptVars PROVE ToldInv'
  BY <1>1, <1>2, ToldQuiet DEF transcriptVars
<1>3. ASSUME NEW ts, NewTranscriptMonitor(ts), ~watching PROVE ToldInv'
  <2>1. Retarget(ts)
    BY <1>3 DEF Retarget
  <2> QED
    BY <1>1, <2>1, RetargetTold
<1>4. ASSUME NEW i \in Installs, EnableCowork(i) PROVE ToldInv'
  <2>1. Retarget(targets') \/ UNCHANGED transcriptVars
    BY <1>4 DEF EnableCowork, SaveTargetsFails
  <2> QED
    BY <1>1, <1>2, <2>1, RetargetTold
<1>5. ASSUME NEW i \in Installs, DisableCowork(i) PROVE ToldInv'
  <2>1. Retarget(targets') \/ StopTranscript \/ UNCHANGED transcriptVars
    BY <1>5 DEF DisableCowork, SaveTargetsFails
  <2> QED
    BY <1>1, <1>2, <2>1, RetargetTold, StopTold
<1>6. CASE StartCowork
  <2>1. ~watching
    BY <1>6 DEF StartCowork, ToldInv, CoworkInv, CoworkRooted
  <2>2. NewTranscriptMonitor(targets') \/ UNCHANGED transcriptVars
    BY <1>6 DEF StartCowork
  <2> QED
    BY <1>2, <1>3, <2>1, <2>2
<1>7. CASE StopCowork
  BY <1>1, <1>7, StopTold DEF StopCowork
<1> QED
  BY <1>4, <1>5, <1>6, <1>7

LEMMA OpenTold ==
  ASSUME ToldInv, CoworkInv', NEW f \in CoworkLogs, OpenTranscript(f)
  PROVE  ToldInv'
<1>1. /\ UNCHANGED <<coworkLog, coworkHalf, coworkGen, told, calls, life, watching>>
      /\ coworkScan.on
      /\ offsets' = [offsets EXCEPT
           ![f] = IF CoworkSize(f) < offsets[f].at THEN CoworkOffset(0, f) ELSE offsets[f]]
  BY DEF OpenTranscript, claudeVars
<1>2. watching /\ offsets \in [CoworkLogs -> CoworkPosition]
  BY <1>1 DEF ToldInv, CoworkInv, CoworkRooted, CoworkTyped
<1>3. \A g \in CoworkLogs :
        \/ offsets'[g] = offsets[g]
        \/ CoworkSize(g) < offsets[g].at /\ offsets'[g] = CoworkOffset(0, g)
  BY <1>1, <1>2
<1>4. \A g \in CoworkLogs :
        \/ offsets'[g] = offsets[g]
        \/ CoworkSize(g) < offsets[g].at /\ offsets'[g].at = offsets'[g].seed
  BY <1>3, SeedIsPosition
<1> QED
  BY <1>1, <1>2, <1>4, PositionsInv

\* Lines only grow.
LEMMA WritingTold ==
  ASSUME ToldInv, CoworkInv', NEW f \in CoworkLogs,
         EndCoworkLine(f) \/ \E e \in CoworkEntries[f] : BeginCoworkLine(f, e)
  PROVE  ToldInv'
<1>0. CoworkInv /\ CoworkTyped /\ told \in Seq(CoworkRecord)
  BY DEF ToldInv, CoworkInv, CoworkTyped
<1>1. UNCHANGED <<coworkGen, watching, offsets, calls, life, told>>
  <2>1. CASE EndCoworkLine(f)
    BY <2>1 DEF EndCoworkLine, transcriptVars
  <2>2. CASE \E e \in CoworkEntries[f] : BeginCoworkLine(f, e)
    BY <2>2 DEF BeginCoworkLine, transcriptVars
  <2> QED
    BY <2>1, <2>2
<1>2. ASSUME NEW g \in CoworkLogs
      PROVE  /\ \A i \in DOMAIN coworkLog[g] : coworkLog'[g][i] = coworkLog[g][i]
             /\ \A i \in DOMAIN coworkLog'[g] : coworkLog'[g][i] \in CoworkEntries[g]
             /\ CoworkSize(g) <= CoworkSize(g)'
  <2>0. /\ coworkLog[g] \in Seq(CoworkSaid) /\ Len(coworkLog[g]) \in Nat /\ CoworkSize(g) \in Nat
        /\ coworkHalf[g] \in BOOLEAN
        /\ \A i \in DOMAIN coworkLog[g] : coworkLog[g][i] \in CoworkEntries[g]
    BY <1>0, CoworkSizeOf DEF CoworkTyped, ToldInv, CoworkInv, CoworkOwn
  <2>1. CASE EndCoworkLine(f)
    <3>1. coworkLog' = coworkLog /\ coworkHalf' = [coworkHalf EXCEPT ![f] = FALSE]
      BY <2>1 DEF EndCoworkLine
    <3>2. coworkHalf'[g] => coworkHalf[g]
      BY <1>0, <3>1 DEF CoworkTyped
    <3>3. CoworkSize(g) <= CoworkSize(g)'
      BY <2>0, <3>1, <3>2 DEF CoworkSize
    <3> QED
      BY <2>0, <3>1, <3>3
  <2>2. ASSUME NEW e \in CoworkEntries[f], BeginCoworkLine(f, e)
        PROVE  /\ \A i \in DOMAIN coworkLog[g] : coworkLog'[g][i] = coworkLog[g][i]
               /\ \A i \in DOMAIN coworkLog'[g] : coworkLog'[g][i] \in CoworkEntries[g]
               /\ CoworkSize(g) <= CoworkSize(g)'
    <3>1. /\ coworkLog' = [coworkLog EXCEPT ![f] = Append(coworkLog[f], e)]
          /\ coworkHalf' = [coworkHalf EXCEPT ![f] = TRUE] /\ ~coworkHalf[f]
      BY <2>2 DEF BeginCoworkLine
    <3>2. CASE g = f
      <4>1. coworkLog'[g] = Append(coworkLog[g], e) /\ coworkHalf'[g] = TRUE /\ ~coworkHalf[g]
        BY <1>0, <3>1, <3>2 DEF CoworkTyped
      <4>2. e \in CoworkSaid
        BY DEF CoworkSaid
      <4>3. /\ Len(coworkLog'[g]) = Len(coworkLog[g]) + 1
            /\ coworkLog'[g][Len(coworkLog[g]) + 1] = e
            /\ DOMAIN coworkLog'[g] = 1 .. Len(coworkLog[g]) + 1
            /\ DOMAIN coworkLog[g] = 1 .. Len(coworkLog[g])
            /\ \A i \in 1 .. Len(coworkLog[g]) : coworkLog'[g][i] = coworkLog[g][i]
        BY <2>0, <4>1, <4>2
      <4>4. CoworkSize(g) = 2 * Len(coworkLog[g]) /\ CoworkSize(g)' = 2 * Len(coworkLog'[g]) - 1
        <5>1. CoworkSize(g) = 2 * Len(coworkLog[g])
          BY <2>0, <4>1 DEF CoworkSize
        <5>2. CoworkSize(g)' = 2 * Len(coworkLog'[g]) - 1
          BY <4>1 DEF CoworkSize
        <5> QED
          BY <5>1, <5>2
      <4>5. \A i \in DOMAIN coworkLog'[g] : i \in DOMAIN coworkLog[g] \/ i = Len(coworkLog[g]) + 1
        BY <2>0, <4>3
      <4>6. CoworkSize(g) <= CoworkSize(g)'
        BY <2>0, <4>3, <4>4
      <4>7. \A i \in DOMAIN coworkLog'[g] : coworkLog'[g][i] \in CoworkEntries[g]
        BY <2>0, <3>2, <4>3, <4>5
      <4> QED
        BY <4>3, <4>6, <4>7
    <3>3. CASE g # f
      <4>1. coworkLog'[g] = coworkLog[g] /\ coworkHalf'[g] = coworkHalf[g]
        BY <1>0, <3>1, <3>3 DEF CoworkTyped
      <4>2. CoworkSize(g)' = CoworkSize(g)
        BY <4>1 DEF CoworkSize
      <4> QED
        BY <2>0, <4>1, <4>2
    <3> QED
      BY <3>2, <3>3
  <2> QED
    BY <2>1, <2>2
<1>3. CoworkOwn' /\ CoworkSeeded' /\ CoworkOnce'
  BY <1>1, <1>2 DEF ToldInv, CoworkOwn, CoworkSeeded, CoworkOnce
<1>4. CoworkTold'
  <2>1. ASSUME NEW g \in CoworkLogs, offsets[g].gen = coworkGen[g],
               NEW o, o = offsets[g]
        PROVE  /\ LinesTold(g, CoworkFirst(o), o.at \div 2)'
               /\ CallsPending(g, CoworkFirst(o), o.at \div 2)'
    <3>1. PICK first \in Nat, last \in Nat :
            first = CoworkFirst(o) /\ last = o.at \div 2 /\ 1 <= first /\ last <= Len(coworkLog[g])
      BY <1>0, <2>1, ReadWithin
    <3>2. \A i \in first .. last : coworkLog'[g][i] = coworkLog[g][i]
      <4>1. DOMAIN coworkLog[g] = 1 .. Len(coworkLog[g]) /\ Len(coworkLog[g]) \in Nat
        BY <1>0 DEF CoworkTyped
      <4> QED
        BY <1>2, <3>1, <4>1
    <3>3. LinesTold(g, first, last) /\ CallsPending(g, first, last)
      BY <2>1, <3>1 DEF ToldInv, CoworkTold
    <3>4. LinesTold(g, first, last)'
      BY <1>1, <3>2, <3>3, LinesStayTold
    <3>5. CallsPending(g, first, last)'
      BY <1>1, <3>2, <3>3, CallsStayPending
    <3> QED
      BY <3>1, <3>4, <3>5
  <2> QED
    BY <1>1, <2>1 DEF CoworkTold
<1>5. CoworkBehind'
  <2>1. ASSUME NEW k \in DOMAIN told, watching, told[k].life = life,
               told[k].gen = coworkGen[told[k].file]
        PROVE  offsets[told[k].file].at <= CoworkSize(told[k].file)'
    <3>1. told[k] \in CoworkRecord
      BY <1>0
    <3>2. PICK g \in CoworkLogs : g = told[k].file
      BY <3>1 DEF CoworkRecord
    <3>3. offsets[g].at <= CoworkSize(g) /\ CoworkSize(g) <= CoworkSize(g)'
      BY <1>2, <2>1, <3>2 DEF ToldInv, CoworkBehind
    <3>4. offsets[g].at \in Nat /\ CoworkSize(g) \in Nat
      BY <1>0, CoworkSizeOf DEF CoworkTyped, CoworkPosition, CoworkInv
    <3>5. CoworkSize(g)' \in Int
      <4>1. coworkLog'[g] \in Seq(CoworkSaid)
        BY DEF CoworkInv, CoworkTyped
      <4>2. Len(coworkLog'[g]) \in Nat
        BY <4>1
      <4> QED
        BY <4>2 DEF CoworkSize
    <3> HIDE DEF CoworkSize
    <3> QED
      BY <1>1, <3>2, <3>3, <3>4, <3>5
  <2> QED
    BY <1>1, <2>1 DEF ToldInv, CoworkBehind
<1> QED
  BY <1>3, <1>4, <1>5 DEF ToldInv

LEMMA SwapTold ==
  ASSUME ToldInv, CoworkInv', NEW f \in CoworkLogs, SwapCoworkLog(f)
  PROVE  ToldInv'
<1>0. CoworkInv /\ CoworkTyped /\ told \in Seq(CoworkRecord)
  BY DEF ToldInv, CoworkInv, CoworkTyped
<1>1. /\ coworkLog' = [coworkLog EXCEPT ![f] = <<>>]
      /\ coworkHalf' = [coworkHalf EXCEPT ![f] = FALSE]
      /\ coworkGen' = [coworkGen EXCEPT ![f] = coworkGen[f] + 1]
      /\ UNCHANGED <<watching, offsets, calls, life, told>>
  BY DEF SwapCoworkLog, transcriptVars
<1>2. /\ coworkLog'[f] = <<>> /\ coworkGen'[f] = coworkGen[f] + 1 /\ coworkGen[f] \in Nat
      /\ \A g \in CoworkLogs : g # f => /\ coworkLog'[g] = coworkLog[g]
                                        /\ coworkHalf'[g] = coworkHalf[g]
                                        /\ coworkGen'[g] = coworkGen[g]
  BY <1>0, <1>1 DEF CoworkTyped
<1>3. CoworkOwn' /\ CoworkSeeded' /\ CoworkOnce'
  BY <1>1, <1>2 DEF ToldInv, CoworkOwn, CoworkSeeded, CoworkOnce
<1>4. offsets[f].gen <= coworkGen[f] /\ offsets[f].gen \in Nat
  BY <1>0 DEF CoworkInv, CoworkPlaced, CoworkTyped, CoworkPosition
<1>5. CoworkTold'
  <2>1. ASSUME NEW g \in CoworkLogs, offsets[g].gen = coworkGen'[g], NEW o, o = offsets[g]
        PROVE  /\ LinesTold(g, CoworkFirst(o), o.at \div 2)'
               /\ CallsPending(g, CoworkFirst(o), o.at \div 2)'
    <3>1. g # f
      BY <1>2, <1>4, <2>1
    <3>2. PICK first \in Nat, last \in Nat : first = CoworkFirst(o) /\ last = o.at \div 2
      BY <1>0, <2>1, ReadWithin
    <3>3. LinesTold(g, first, last) /\ CallsPending(g, first, last)
      BY <1>2, <2>1, <3>1, <3>2 DEF ToldInv, CoworkTold
    <3>4. coworkLog'[g] = coworkLog[g] /\ coworkGen'[g] = coworkGen[g]
      BY <1>2, <3>1
    <3>5. LinesTold(g, first, last)'
      BY <1>1, <3>3, <3>4, LinesStayTold
    <3>6. CallsPending(g, first, last)'
      BY <1>1, <3>3, <3>4, CallsStayPending
    <3> QED
      BY <3>2, <3>5, <3>6
  <2> QED
    BY <1>1, <2>1 DEF CoworkTold
<1>6. CoworkBehind'
  <2>1. ASSUME NEW k \in DOMAIN told
        PROVE  /\ told[k].life <= life /\ told[k].gen <= coworkGen'[told[k].file]
               /\ watching /\ told[k].life = life /\ told[k].gen = coworkGen'[told[k].file] =>
                    /\ 2 * told[k].line <= offsets[told[k].file].at
                    /\ offsets[told[k].file].at <= CoworkSize(told[k].file)'
    <3>1. told[k] \in CoworkRecord
      BY <1>0
    <3>2. PICK g \in CoworkLogs : g = told[k].file
      BY <3>1 DEF CoworkRecord
    <3>3. /\ told[k].life <= life /\ told[k].gen <= coworkGen[g] /\ told[k].gen \in Nat
          /\ watching /\ told[k].life = life /\ told[k].gen = coworkGen[g] =>
               /\ 2 * told[k].line <= offsets[g].at
               /\ offsets[g].at <= CoworkSize(g)
      BY <3>1, <3>2 DEF ToldInv, CoworkBehind, CoworkRecord
    <3>4. CASE g = f
      BY <1>2, <3>2, <3>3, <3>4
    <3>5. CASE g # f
      <4>1. CoworkSize(g)' = CoworkSize(g)
        BY <1>2, <3>5 DEF CoworkSize
      <4>2. coworkGen'[g] = coworkGen[g]
        BY <1>2, <3>5
      <4> QED
        BY <1>1, <3>2, <3>3, <4>1, <4>2
    <3> QED
      BY <3>4, <3>5
  <2> QED
    BY <1>1, <2>1 DEF CoworkBehind
<1> QED
  BY <1>3, <1>5, <1>6 DEF ToldInv

\* What a line from its beginning does: a call is told and pending, a result of
\* a pending call is told, and other calls stay pending.
LEMMA CoworkLineTold ==
  ASSUME CoworkInv, ConsumeTranscriptLine,
         NEW f, f = coworkScan.at, NEW n, n = CoworkLineAt(offsets[f].at)
  PROVE  /\ \A c \in calls : \/ c \in calls'
                             \/ offsets[f].at % 2 = 0 /\ c.id = coworkLog[f][n].id
         /\ offsets[f].at % 2 = 0 /\ coworkLog[f][n].kind = "tool_use" =>
              \E c \in calls' : c.id = coworkLog[f][n].id
         /\ offsets[f].at % 2 = 0 /\ (\/ coworkLog[f][n].kind \in {"text", "tool_use"}
                                      \/ \E c \in calls : c.id = coworkLog[f][n].id) =>
              \E i \in Installs, l \in Nat : told' = Append(told, CoworkRecordOf(f, n, i, l))
<1> DEFINE e == coworkLog[f][n]
           here == CHOOSE t \in roots[ProfileOf[f]] : TRUE
           mine == {c \in calls : c.id = e.id}
           read == IF offsets[f].at % 2 = 1 THEN [records |-> {}, calls |-> calls]
                   ELSE TranscriptRecords(f, n, e)
<1>0. CoworkTyped /\ CoworkRooted /\ CallsTold
  BY DEF CoworkInv
<1>1. told' = told \o SetToSeq(read.records) /\ calls' = read.calls
  BY DEF ConsumeTranscriptLine
<1>2. f \in CoworkLogs /\ roots[ProfileOf[f]] # {}
  BY CoworkLineRecords
<1>3. /\ here \in Installs /\ told \in Seq(CoworkRecord)
      /\ \A c \in calls : c.install \in Installs /\ c.line \in Nat
  <2>1. ProfileOf[f] \in Profiles
    BY <1>2, CoworkAssumption
  <2>2. here \in roots[ProfileOf[f]] /\ roots[ProfileOf[f]] \subseteq Installs
    BY <1>0, <1>2, <2>1 DEF CoworkTyped
  <2> QED
    BY <1>0, <2>2 DEF CoworkTyped, CoworkCall
<1>4. \A r : read.records = {r} => told' = Append(told, r)
  <2>1. \A r : told \o <<r>> = Append(told, r)
    BY <1>3
  <2> HIDE DEF read
  <2> QED
    BY <1>1, <2>1, ListsOfOne
<1>5. CASE offsets[f].at % 2 = 1
  <2>1. read.calls = calls
    BY SMTT(40), <1>5
  <2>2. calls' = calls
    BY <1>1, <2>1
  <2>3. offsets[f].at % 2 # 0
    BY <1>5
  <2> QED
    BY <2>2, <2>3
<1>6. CASE offsets[f].at % 2 # 1
  <2>0. read = TranscriptRecords(f, n, e)
    BY <1>6
  <2>1. CASE e.kind \in {"text", "tool_use"}
    <3>1. read.records = {CoworkRecordOf(f, n, here, 0)}
      BY <2>0, <2>1 DEF TranscriptRecords, CoworkRecordOf
    <3>2. told' = Append(told, CoworkRecordOf(f, n, here, 0))
      BY <1>4, <3>1
    <3>3. \/ e.kind = "text" /\ calls' = calls
          \/ /\ e.kind = "tool_use"
             /\ calls' = (calls \ mine) \cup {[id |-> e.id, install |-> here, line |-> n]}
      BY <1>1, <2>0, <2>1 DEF TranscriptRecords
    <3>4. \A c \in calls : c \in calls' \/ c.id = e.id
      BY <3>3
    <3>5. e.kind = "tool_use" => \E c \in calls' : c.id = e.id
      <4>1. PICK d : d = [id |-> e.id, install |-> here, line |-> n]
        OBVIOUS
      <4>2. d.id = e.id
        BY <4>1
      <4>3. e.kind = "tool_use" => d \in calls'
        BY <3>3, <4>1
      <4> HIDE DEF e
      <4> QED
        BY <4>2, <4>3
    <3>6. offsets[f].at % 2 = 0
      BY <1>0, <1>2, <1>6 DEF CoworkTyped, CoworkPosition
    <3> HIDE DEF read, here, mine, e
    <3> QED
      BY SMTT(40), <1>3, <3>2, <3>4, <3>5, <3>6 DEF e
  <2>2. CASE e.kind \notin {"text", "tool_use"}
    <3>1. read.records = {CoworkRecordOf(f, n, c.install, c.line) : c \in mine} /\ calls' = calls \ mine
      BY <1>1, <2>0, <2>2 DEF TranscriptRecords, CoworkRecordOf
    <3>2. \A c \in calls : c \in calls' \/ c.id = e.id
      BY <3>1
    <3>3. ASSUME NEW c \in calls, c.id = e.id
          PROVE  told' = Append(told, CoworkRecordOf(f, n, c.install, c.line))
      <4>1. mine = {c}
        BY <1>0, <3>3 DEF CallsTold
      <4>2. read.records = {CoworkRecordOf(f, n, c.install, c.line)}
        BY <3>1, <4>1
      <4> QED
        BY <1>4, <4>2
    <3>4. offsets[f].at % 2 = 0
      BY <1>0, <1>2, <1>6 DEF CoworkTyped, CoworkPosition
    <3> HIDE DEF read, here, mine, e
    <3> QED
      BY SMTT(40), <1>3, <2>2, <3>2, <3>3, <3>4 DEF e
  <2> QED
    BY <2>1, <2>2
<1> QED
  BY SMTT(40), <1>5, <1>6

LEMMA ConsumeTold ==
  ASSUME IdsOfOneLog, ToldInv, CoworkInv', ConsumeTranscriptLine
  PROVE  ToldInv'
<1> SUFFICES ASSUME NEW f, f = coworkScan.at, NEW n, n = CoworkLineAt(offsets[f].at)
             PROVE  ToldInv'
  OBVIOUS
<1>0. /\ CoworkInv /\ CoworkTyped /\ CoworkOwn /\ CoworkSeeded /\ CoworkTold /\ CoworkBehind
      /\ CoworkOnce
  BY DEF ToldInv, CoworkInv
<1>1. /\ f \in CoworkLogs /\ watching
      /\ n \in 1..Len(coworkLog[f])
      /\ 2 * n <= CoworkSize(f)
      /\ offsets' = [offsets EXCEPT ![f].at = 2 * n]
  BY SMTT(40), <1>0, CoworkLineRecords
<1>2. \/ told' = told
      \/ \E i \in Installs, l \in Nat : told' = Append(told, CoworkRecordOf(f, n, i, l))
  BY SMTT(40), <1>0, CoworkNewRecord
<1>3. UNCHANGED <<coworkLog, coworkHalf, coworkGen, watching, life>>
  BY DEF ConsumeTranscriptLine, claudeVars
<1>4. /\ told \in Seq(CoworkRecord) /\ offsets \in [CoworkLogs -> CoworkPosition]
      /\ Len(coworkLog[f]) \in Nat /\ DOMAIN coworkLog[f] = 1 .. Len(coworkLog[f])
  BY <1>0, <1>1 DEF CoworkTyped
<1>5. PICK p \in CoworkPosition : p = offsets[f]
  BY <1>1, <1>4
<1>6. PICK o \in Nat : o = p.at
  BY <1>5 DEF CoworkPosition
<1>7. PICK s \in Nat : s = p.seed
  BY <1>5 DEF CoworkPosition
<1>8. /\ n \in Nat /\ 1 <= n
      /\ \/ o % 2 = 0 /\ 2 * n = o + 2
         \/ o % 2 = 1 /\ 2 * n = o + 1
  BY <1>5, <1>6, LineOfOffset
<1>9. /\ offsets'[f].at = 2 * n /\ offsets'[f].gen = p.gen /\ offsets'[f].seed = p.seed
      /\ \A g \in CoworkLogs : g # f => offsets'[g] = offsets[g]
  <2>1. offsets'[f] = [p EXCEPT !.at = 2 * n]
    BY <1>1, <1>4, <1>5
  <2>2. PICK m \in Nat : m = 2 * n
    BY <1>8
  <2> QED
    BY <1>1, <1>4, <1>5, <2>1, <2>2 DEF CoworkPosition
<1>10. s <= o /\ (o % 2 = 1 => o = s)
  BY <1>0, <1>1, <1>5, <1>6, <1>7 DEF CoworkSeeded
<1>11. /\ \A k \in DOMAIN told : k \in DOMAIN told' /\ told'[k] = told[k]
       /\ \A k \in DOMAIN told' :
            \/ k \in DOMAIN told
            \/ /\ k = Len(told) + 1
               /\ told'[k].file = f /\ told'[k].gen = coworkGen[f]
               /\ told'[k].line = n /\ told'[k].life = life
  <2>1. CASE told' = told
    BY <2>1
  <2>2. ASSUME NEW i \in Installs, NEW l \in Nat, told' = Append(told, CoworkRecordOf(f, n, i, l))
        PROVE  /\ \A k \in DOMAIN told : k \in DOMAIN told' /\ told'[k] = told[k]
               /\ \A k \in DOMAIN told' :
                    \/ k \in DOMAIN told
                    \/ /\ k = Len(told) + 1
                       /\ told'[k].file = f /\ told'[k].gen = coworkGen[f]
                       /\ told'[k].line = n /\ told'[k].life = life
    <3>1. PICK r : r = CoworkRecordOf(f, n, i, l)
      OBVIOUS
    <3>2. r.file = f /\ r.gen = coworkGen[f] /\ r.line = n /\ r.life = life
      BY <3>1 DEF CoworkRecordOf
    <3>3. /\ \A k \in DOMAIN told : k \in DOMAIN told' /\ told'[k] = told[k]
          /\ \A k \in DOMAIN told' : k \in DOMAIN told \/ (k = Len(told) + 1 /\ told'[k] = r)
      BY <1>4, <2>2, <3>1
    <3> QED
      BY <3>2, <3>3
  <2> QED
    BY <1>2, <2>1, <2>2
<1>12. CoworkOwn' /\ CoworkSeeded'
  <2>1. CoworkOwn'
    BY <1>0, <1>3 DEF CoworkOwn
  <2>2. s <= 2 * n /\ (2 * n) % 2 = 0
    BY <1>7, <1>6, <1>8, <1>10
  <2> QED
    BY <1>0, <1>7, <1>9, <2>1, <2>2 DEF CoworkSeeded
<1>13. CoworkBehind'
  <2>1. ASSUME NEW k \in DOMAIN told'
        PROVE  /\ told'[k].life <= life /\ told'[k].gen <= coworkGen[told'[k].file]
               /\ told'[k].life = life /\ told'[k].gen = coworkGen[told'[k].file] =>
                    /\ 2 * told'[k].line <= offsets'[told'[k].file].at
                    /\ offsets'[told'[k].file].at <= CoworkSize(told'[k].file)
    <3>1. coworkGen[f] \in Nat /\ life \in Nat
      BY <1>0, <1>1 DEF CoworkTyped
    <3>2. CASE k \notin DOMAIN told
      BY <1>1, <1>8, <1>9, <1>11, <3>1, <3>2
    <3>3. CASE k \in DOMAIN told
      <4>1. told'[k] = told[k] /\ told[k] \in CoworkRecord
        BY <1>4, <1>11, <3>3
      <4>2. PICK g \in CoworkLogs : g = told[k].file
        BY <4>1 DEF CoworkRecord
      <4>3. PICK m \in Nat : m = told[k].line
        BY <4>1 DEF CoworkRecord
      <4>4. /\ told[k].life <= life /\ told[k].gen <= coworkGen[g]
            /\ told[k].life = life /\ told[k].gen = coworkGen[g] =>
                 /\ 2 * m <= offsets[g].at /\ offsets[g].at <= CoworkSize(g)
        BY <1>0, <1>1, <3>3, <4>2, <4>3 DEF CoworkBehind
      <4>5. CASE g = f
        <5>1. 2 * m <= o => 2 * m <= 2 * n
          BY <1>8
        <5> QED
          BY <1>1, <1>5, <1>6, <1>9, <4>1, <4>2, <4>3, <4>4, <4>5, <5>1
      <4>6. CASE g # f
        BY <1>9, <4>1, <4>2, <4>3, <4>4, <4>6
      <4> QED
        BY <4>5, <4>6
    <3> QED
      BY <3>2, <3>3
  <2>2. \A x : CoworkSize(x)' = CoworkSize(x)
    BY <1>3 DEF CoworkSize
  <2>3. ASSUME NEW k \in DOMAIN told' PROVE CoworkSize(told[k].file)' = CoworkSize(told'[k].file)
    BY <1>3 DEF CoworkSize
  <2> QED
    BY <1>3, <2>1, <2>3 DEF CoworkBehind
<1>14. CoworkOnce'
  <2>1. ASSUME NEW k \in DOMAIN told, told[k].file = f, told[k].gen = coworkGen[f],
               told[k].line = n, told[k].life = life
        PROVE  FALSE
    <3>1. 2 * n <= offsets[f].at
      BY <1>0, <1>1, <2>1 DEF CoworkBehind
    <3> QED
      BY <1>5, <1>6, <1>8, <3>1
  <2>2. ASSUME NEW j \in DOMAIN told', NEW k \in DOMAIN told',
               told'[j].file = told'[k].file, told'[j].gen = told'[k].gen,
               told'[j].line = told'[k].line, told'[j].life = told'[k].life
        PROVE  j = k
    <3>1. CASE j \in DOMAIN told /\ k \in DOMAIN told
      BY <1>0, <1>11, <2>2, <3>1 DEF CoworkOnce
    <3>2. CASE j \in DOMAIN told /\ k \notin DOMAIN told
      BY <1>11, <2>1, <2>2, <3>2
    <3>3. CASE j \notin DOMAIN told /\ k \in DOMAIN told
      BY <1>11, <2>1, <2>2, <3>3
    <3>4. CASE j \notin DOMAIN told /\ k \notin DOMAIN told
      BY <1>11, <3>4
    <3> QED
      BY <3>1, <3>2, <3>3, <3>4
  <2> QED
    BY <2>2 DEF CoworkOnce
<1>15. CoworkTold'
  <2>1. ASSUME NEW g \in CoworkLogs, g # f, offsets[g].gen = coworkGen[g], NEW q, q = offsets[g]
        PROVE  /\ LinesTold(g, CoworkFirst(q), q.at \div 2)'
               /\ CallsPending(g, CoworkFirst(q), q.at \div 2)'
    <3>1. PICK first \in Nat, last \in Nat :
            first = CoworkFirst(q) /\ last = q.at \div 2 /\ 1 <= first /\ last <= Len(coworkLog[g])
      BY <1>0, <2>1, ReadWithin
    <3>2. LinesTold(g, first, last) /\ CallsPending(g, first, last)
      BY <1>0, <2>1, <3>1 DEF CoworkTold
    <3>3. LinesTold(g, first, last)'
      BY <1>3, <1>11, <3>2, LinesStayTold
    <3>4. \A i \in first .. last : coworkLog[g][i].id # coworkLog[f][n].id
      <4>1. \A i \in first .. last : i \in DOMAIN coworkLog[g]
        BY <1>0, <3>1 DEF CoworkTyped
      <4> QED
        BY ZenonT(60), <1>0, <1>1, <1>4, <2>1, <4>1 DEF CoworkOwn, IdsOfOneLog
    <3>5. \A c \in calls : c \in calls' \/ c.id = coworkLog[f][n].id
      BY <1>0, CoworkLineTold
    <3>6. CallsPending(g, first, last)'
      BY <1>3, <3>2, <3>4, <3>5, CallsStayPending
    <3> QED
      BY <3>1, <3>3, <3>6
  <2>2. ASSUME p.gen = coworkGen[f]
        PROVE  /\ LinesTold(f, CoworkFirst(p), n)'
               /\ CallsPending(f, CoworkFirst(p), n)'
    <3>1. PICK first \in Nat : first = CoworkFirst(p) /\ 1 <= first /\ first = (s + 3) \div 2
      BY <1>7 DEF CoworkFirst
    <3>2. CASE o % 2 = 1
      <4>1. n < first
        BY <1>8, <1>10, <3>1, <3>2
      <4>2. \A i \in first .. n : FALSE
        BY <1>8, <4>1
      <4> QED
        BY <3>1, <4>2 DEF LinesTold, CallsPending
    <3>3. CASE o % 2 = 0
      <4>1. PICK last \in Nat : last = o \div 2 /\ last = n - 1
        BY <1>8, <3>3
      <4>2. LinesTold(f, first, last) /\ CallsPending(f, first, last)
        BY <1>0, <1>1, <1>5, <1>6, <2>2, <3>1, <4>1 DEF CoworkTold
      <4>3. LinesTold(f, first, last)'
        BY <1>1, <1>3, <1>11, <4>2, LinesStayTold
      <4>4. \A i \in first .. n : i = n \/ i \in first .. last
        BY <1>8, <4>1
      <4>5. /\ \A c \in calls : c \in calls' \/ c.id = coworkLog[f][n].id
            /\ coworkLog[f][n].kind = "tool_use" => \E c \in calls' : c.id = coworkLog[f][n].id
            /\ (\/ coworkLog[f][n].kind \in {"text", "tool_use"}
                \/ \E c \in calls : c.id = coworkLog[f][n].id) =>
                 \E i \in Installs, l \in Nat : told' = Append(told, CoworkRecordOf(f, n, i, l))
        BY <1>0, <1>5, <1>6, <3>3, CoworkLineTold
      <4>6. coworkLog[f][n].kind \in {"text", "tool_use", "tool_result"}
        BY <1>0, <1>1, <1>4, CoworkAssumption DEF CoworkOwn
      <4>7. ASSUME \E i \in Installs, l \in Nat : told' = Append(told, CoworkRecordOf(f, n, i, l))
            PROVE  LineTold(f, n)'
        <5>1. PICK i \in Installs, l \in Nat : told' = Append(told, CoworkRecordOf(f, n, i, l))
          BY <4>7
        <5>2. PICK k : k = Len(told) + 1
          OBVIOUS
        <5>3. k \in DOMAIN told' /\ k \notin DOMAIN told
          BY <1>4, <5>1, <5>2
        <5> QED
          BY <1>3, <1>11, <5>3 DEF LineTold
      <4>8. ASSUME coworkLog[f][n].kind = "tool_result", first <= n, SawCall(f, first, n)
            PROVE  \E c \in calls : c.id = coworkLog[f][n].id
        <5>1. PICK j \in first .. n - 1 :
                /\ coworkLog[f][j].kind = "tool_use" /\ coworkLog[f][j].id = coworkLog[f][n].id
                /\ \A k \in j + 1 .. n - 1 : coworkLog[f][k].id # coworkLog[f][n].id
          BY <4>8 DEF SawCall
        <5>2. \A k \in j + 1 .. last : coworkLog[f][k].id # coworkLog[f][j].id
          BY <4>1, <5>1
        <5>3. j \in first .. last
          BY <4>1, <5>1
        <5>4. \E c \in calls : c.id = coworkLog[f][j].id
          BY <4>2, <5>1, <5>2, <5>3 DEF CallsPending
        <5> QED
          BY SMTT(40), <5>1, <5>4
      <4>9. LinesTold(f, first, n)'
        <5>1. ASSUME NEW i \in first .. n,
                     coworkLog'[f][i].kind = "tool_result" => SawCall(f, first, i)'
              PROVE  LineTold(f, i)'
          <6>1. CASE i = n
            <7>1. SawCall(f, first, n)' => SawCall(f, first, n)
              BY <1>3 DEF SawCall
            <7>2. coworkLog[f][n].kind = "tool_result" => SawCall(f, first, n)
              BY <1>3, <5>1, <6>1, <7>1
            <7>3. first <= n
              BY <5>1, <1>8
            <7>4. \/ coworkLog[f][n].kind \in {"text", "tool_use"}
                  \/ \E c \in calls : c.id = coworkLog[f][n].id
              BY <4>6, <4>8, <7>2, <7>3
            <7> QED
              BY SMTT(40), <4>5, <4>7, <6>1, <7>4
          <6>2. CASE i \in first .. last
            BY <4>3, <5>1, <6>2 DEF LinesTold
          <6> QED
            BY SMTT(40), <4>4, <6>1, <6>2
        <5> QED
          BY <5>1 DEF LinesTold
      <4>10. CallsPending(f, first, n)'
        <5>1. ASSUME NEW j \in first .. n, coworkLog[f][j].kind = "tool_use",
                     \A k \in j + 1 .. n : coworkLog[f][k].id # coworkLog[f][j].id
              PROVE  \E c \in calls' : c.id = coworkLog[f][j].id
          <6>1. CASE j = n
            BY <4>5, <5>1, <6>1
          <6>2. CASE j \in first .. last
            <7>1. n \in j + 1 .. n /\ \A k \in j + 1 .. last : k \in j + 1 .. n
              BY <1>8, <4>1, <6>2
            <7>2. PICK c \in calls : c.id = coworkLog[f][j].id
              BY <4>2, <5>1, <6>2, <7>1 DEF CallsPending
            <7>3. c.id # coworkLog[f][n].id
              BY <5>1, <7>1, <7>2
            <7> QED
              BY <4>5, <7>2, <7>3
          <6> QED
            BY <4>4, <6>1, <6>2
        <5> QED
          BY <1>3, <5>1 DEF CallsPending
      <4> QED
        BY <3>1, <4>9, <4>10
    <3> QED
      BY <1>6, <3>2, <3>3
  <2>3. ASSUME NEW g \in CoworkLogs, offsets'[g].gen = coworkGen[g], NEW q, q = offsets'[g]
        PROVE  /\ LinesTold(g, CoworkFirst(q), q.at \div 2)'
               /\ CallsPending(g, CoworkFirst(q), q.at \div 2)'
    <3>1. CASE g = f
      <4>1. CoworkFirst(q) = CoworkFirst(p)
        BY <1>9, <2>3, <3>1 DEF CoworkFirst
      <4>2. q.at \div 2 = n
        BY <1>8, <1>9, <2>3, <3>1
      <4>3. LinesTold(f, CoworkFirst(p), n)' /\ CallsPending(f, CoworkFirst(p), n)'
        BY <1>9, <2>2, <2>3, <3>1
      <4> QED
        BY <3>1, <4>1, <4>2, <4>3
    <3>2. CASE g # f
      BY <1>9, <2>1, <2>3, <3>2
    <3> QED
      BY <3>1, <3>2
  <2> QED
    BY <1>3, <2>3 DEF CoworkTold
<1> QED
  BY <1>12, <1>13, <1>14, <1>15 DEF ToldInv

LEMMA ToldStep == IdsOfOneLog /\ ToldInv /\ [CoworkNext]_coworkVars => ToldInv'
<1> SUFFICES ASSUME IdsOfOneLog, ToldInv, [CoworkNext]_coworkVars PROVE ToldInv'
  OBVIOUS
<1>0. CoworkInv'
  BY CoworkStep DEF ToldInv
<1>1. CASE (\E i \in Installs : EnableCowork(i) \/ DisableCowork(i)) \/ StartCowork \/ StopCowork
  BY <1>0, <1>1, TargetsTold, Zenon
<1>2. CASE BeginCoworkPoll \/ CloseTranscript \/ EndCoworkPoll
  <2>1. UNCHANGED <<coworkLog, coworkHalf, coworkGen, told, offsets, calls, life, watching>>
    BY <1>2 DEF BeginCoworkPoll, CloseTranscript, EndCoworkPoll, claudeVars, transcriptVars
  <2> QED
    BY <1>0, <2>1, ToldQuiet
<1>3. CASE ConsumeTranscriptLine
  BY <1>0, <1>3, ConsumeTold
<1>4. CASE \E f \in CoworkLogs : OpenTranscript(f)
  BY <1>0, <1>4, OpenTold
<1>5. CASE \E f \in CoworkLogs : EndCoworkLine(f) \/ \E e \in CoworkEntries[f] : BeginCoworkLine(f, e)
  BY <1>0, <1>5, WritingTold
<1>6. CASE \E f \in CoworkLogs : SwapCoworkLog(f)
  BY <1>0, <1>6, SwapTold
<1>7. CASE UNCHANGED coworkVars
  <2>1. UNCHANGED <<coworkLog, coworkHalf, coworkGen, told, offsets, calls, life, watching>>
    BY <1>7 DEF coworkVars
  <2> QED
    BY <1>0, <2>1, ToldQuiet
<1> QED
  BY <1>1, <1>2, <1>3, <1>4, <1>5, <1>6, <1>7 DEF CoworkNext

\* What a Cowork log says from where it was seeded to its offset has been told,
\* once in each life of the monitor, and a result if its call was read in the
\* same life - where no two logs share a tool-use id, the only key pending calls
\* have (transcript_windows.go:455).
THEOREM TranscriptsAreTold ==
  ASSUME IdsOfOneLog
  PROVE  CoworkSpec => []TranscriptIsTold
<1>1. ToldInv => TranscriptIsTold
  <2> SUFFICES ASSUME ToldInv PROVE TranscriptIsTold
    OBVIOUS
  <2>1. ASSUME NEW f \in CoworkLogs, offsets[f].gen = coworkGen[f]
        PROVE  \A i \in (offsets[f].seed + 3) \div 2 .. offsets[f].at \div 2 :
                 (coworkLog[f][i].kind = "tool_result"
                    => SawCall(f, (offsets[f].seed + 3) \div 2, i)) =>
                   \E k \in DOMAIN told : /\ told[k].file = f /\ told[k].gen = coworkGen[f]
                                          /\ told[k].line = i /\ told[k].life = life
    <3>1. LinesTold(f, CoworkFirst(offsets[f]), offsets[f].at \div 2)
      BY <2>1 DEF ToldInv, CoworkTold
    <3> QED
      BY <3>1 DEF LinesTold, LineTold, CoworkFirst
  <2>2. \A j, k \in DOMAIN told :
          /\ told[j].file = told[k].file /\ told[j].gen = told[k].gen
          /\ told[j].line = told[k].line /\ told[j].life = told[k].life
          => j = k
    BY DEF ToldInv, CoworkOnce
  <2> QED
    BY <2>1, <2>2 DEF TranscriptIsTold
<1>2. IdsOfOneLog
  OBVIOUS
<1>3. ToldInv /\ [CoworkNext]_coworkVars => ToldInv'
  BY <1>2, ToldStep
<1> QED
  BY <1>1, <1>3, ToldInitInv, PTL DEF CoworkSpec
=============================================================================
