---------------------------- MODULE ServerProofs ----------------------------
(***************************************************************************)
(* The MCP server, self-learning and the login, each for any size: that no *)
(* record of a session is forgotten, posted twice or overtaken; that what  *)
(* an operator taught is the same on both pages, if that operator's own    *)
(* requests neither overlapped nor failed; that the login on offer is the  *)
(* one in the settings, if no two attempts overlapped, and has a           *)
(* certificate even if they did.                                           *)
(***************************************************************************)
EXTENDS McpServer, SelfLearn, CasdoorLogin, FiniteSetTheorems, SequenceTheorems, TLAPS

-----------------------------------------------------------------------------
(***************************************************************************)
(* The MCP server.  The inductive invariant orders the records posted,     *)
(* being posted and waiting, and counts them with those that were dropped. *)
(***************************************************************************)

RecordsTyped ==
  /\ reports \in Nat
  /\ queue \in Seq(Nat) /\ posted \in Seq(Nat) /\ posting \subseteq Nat
  /\ Len(queue) <= QueueDepth
  /\ \A m, n \in posting : m = n
  /\ received \subseteq ToSet(posted)

InOrder ==
  /\ \A i, j \in 1..Len(posted) : i < j => posted[i] < posted[j]
  /\ \A i, j \in 1..Len(queue) : i < j => queue[i] < queue[j]
  /\ \A i \in 1..Len(posted), n \in posting : posted[i] < n
  /\ \A i \in 1..Len(posted), j \in 1..Len(queue) : posted[i] < queue[j]
  /\ \A n \in posting, j \in 1..Len(queue) : n < queue[j]

Kept == ToSet(posted) \cup posting \cup ToSet(queue)
NoneForgotten ==
  /\ 1..reports = Kept \cup {d.n : d \in dropped}
  /\ \A d \in dropped : d.waiting = QueueDepth /\ d.n \notin Kept

Counted ==
  /\ IsFiniteSet(dropped)
  /\ Len(posted) + Cardinality(posting) + Len(queue) + Cardinality(dropped) = reports

RecordsOK == RecordsTyped /\ InOrder /\ NoneForgotten /\ Counted

\* The inductive invariant.
McpInv == RecordsOK /\ (mcp = "exited" => Drained)

-----------------------------------------------------------------------------
(* Lemmas *)

LEMMA Appended ==
  ASSUME NEW s \in Seq(Nat), NEW x \in Nat
  PROVE  /\ Append(s, x) \in Seq(Nat) /\ Len(Append(s, x)) = Len(s) + 1
         /\ \A i \in 1..Len(s) : Append(s, x)[i] = s[i]
         /\ Append(s, x)[Len(s) + 1] = x
         /\ ToSet(Append(s, x)) = ToSet(s) \cup {x}
<1>1. /\ Append(s, x) \in Seq(Nat) /\ Len(Append(s, x)) = Len(s) + 1
      /\ \A i \in 1..Len(s) : Append(s, x)[i] = s[i]
      /\ Append(s, x)[Len(s) + 1] = x
  OBVIOUS
<1>2. ToSet(Append(s, x)) = ToSet(s) \cup {x}
  <2> DEFINE t == Append(s, x)
  <2>1. Len(s) \in Nat /\ DOMAIN s = 1..Len(s) /\ DOMAIN t = 1..(Len(s) + 1)
    BY <1>1
  <2>2. 1..(Len(s) + 1) = (1..Len(s)) \cup {Len(s) + 1}
    BY <2>1
  <2> HIDE DEF t
  <2>3. ToSet(t) = {t[i] : i \in 1..Len(s)} \cup {t[Len(s) + 1]}
    BY <2>1, <2>2 DEF ToSet
  <2>4. {t[i] : i \in 1..Len(s)} = ToSet(s)
    BY <1>1, <2>1 DEF ToSet, t
  <2> QED
    BY <1>1, <2>3, <2>4 DEF t
<1> QED
  BY <1>1, <1>2

LEMMA Taken ==
  ASSUME NEW s \in Seq(Nat), s # <<>>
  PROVE  /\ Tail(s) \in Seq(Nat) /\ Len(Tail(s)) = Len(s) - 1 /\ Len(s) \in Nat \ {0}
         /\ \A i \in 1..Len(Tail(s)) : Tail(s)[i] = s[i + 1]
         /\ Head(s) = s[1] /\ Head(s) \in Nat
         /\ ToSet(s) = {Head(s)} \cup ToSet(Tail(s))
<1>1. /\ Tail(s) \in Seq(Nat) /\ Len(Tail(s)) = Len(s) - 1 /\ Len(s) \in Nat \ {0}
      /\ \A i \in 1..Len(Tail(s)) : Tail(s)[i] = s[i + 1]
      /\ Head(s) = s[1] /\ Head(s) \in Nat
  OBVIOUS
<1>2. ToSet(s) = {Head(s)} \cup ToSet(Tail(s))
  <2> DEFINE t == Tail(s)
  <2>1. DOMAIN s = 1..Len(s) /\ DOMAIN t = 1..(Len(s) - 1)
    BY <1>1
  <2>2. \A i \in 1..Len(s) : i = 1 \/ i - 1 \in 1..(Len(s) - 1)
    BY <1>1
  <2>3. \A i \in 1..(Len(s) - 1) : i + 1 \in 1..Len(s) /\ t[i] = s[i + 1]
    BY <1>1
  <2>4. 1 \in 1..Len(s)
    BY <1>1
  <2> HIDE DEF t
  <2>5. ASSUME NEW x \in ToSet(s) PROVE x \in {Head(s)} \cup ToSet(t)
    <3>1. PICK i \in 1..Len(s) : x = s[i]
      BY <2>1, <2>5 DEF ToSet
    <3>2. CASE i = 1
      BY <1>1, <3>1, <3>2
    <3>3. CASE i - 1 \in 1..(Len(s) - 1)
      <4>1. t[i - 1] = s[(i - 1) + 1] /\ (i - 1) + 1 = i
        BY <2>3, <3>3
      <4> QED
        BY <2>1, <3>1, <3>3, <4>1 DEF ToSet
    <3> QED
      BY <2>2, <3>2, <3>3
  <2>6. \A x \in {Head(s)} \cup ToSet(t) : x \in ToSet(s)
    BY <1>1, <2>1, <2>3, <2>4 DEF ToSet
  <2> QED
    BY <2>5, <2>6 DEF t
<1> QED
  BY <1>1, <1>2

LEMMA EmptyToSet == ToSet(<<>>) = {} /\ Len(<<>>) = 0 /\ <<>> \in Seq(Nat)
  BY DEF ToSet

\* A sequence has no more elements than it is long.
LEMMA NoMoreThanLong ==
  ASSUME NEW s \in Seq(Nat), NEW T \in SUBSET ToSet(s)
  PROVE  Cardinality(T) <= Len(s)
<1>1. s \in Surjection(1..Len(s), ToSet(s))
  BY DEF ToSet, Surjection
<1>2. IsFiniteSet(1..Len(s)) /\ Cardinality(1..Len(s)) = Len(s)
  <2>1. 1 \in Int /\ Len(s) \in Int /\ Len(s) \in Nat
    OBVIOUS
  <2>2. IsFiniteSet(1..Len(s)) /\ Cardinality(1..Len(s)) = IF 1 > Len(s) THEN 0 ELSE Len(s) - 1 + 1
    BY <2>1, FS_Interval
  <2> QED
    BY <2>1, <2>2
<1>3. IsFiniteSet(ToSet(s)) /\ Cardinality(ToSet(s)) <= Len(s)
  BY <1>1, <1>2, FS_Surjection
<1>4. IsFiniteSet(T) /\ Cardinality(T) <= Cardinality(ToSet(s))
  BY <1>3, FS_Subset
<1>5. Cardinality(T) \in Nat /\ Cardinality(ToSet(s)) \in Nat /\ Len(s) \in Nat
  BY <1>3, <1>4, FS_CardinalityType
<1> QED
  BY <1>3, <1>4, <1>5

LEMMA PostingCounts ==
  ASSUME RecordsTyped
  PROVE  /\ IsFiniteSet(posting) /\ Cardinality(posting) \in Nat
         /\ \A n \in posting : posting = {n} /\ Cardinality(posting) = 1
<1>1. CASE posting = {}
  BY <1>1, FS_EmptySet
<1>2. ASSUME NEW n \in posting PROVE posting = {n} /\ IsFiniteSet(posting) /\ Cardinality(posting) = 1
  <2>1. posting = {n}
    BY <1>2 DEF RecordsTyped
  <2> QED
    BY <2>1, FS_Singleton
<1> QED
  BY <1>1, <1>2

-----------------------------------------------------------------------------
(* The steps *)

\* A record is queued or dropped.
LEMMA ReportStep ==
  ASSUME RecordsOK, Report, UNCHANGED workerVars
  PROVE  RecordsOK'
<1> USE DEF RecordsOK
<1> DEFINE x == reports + 1
           d == [n |-> x, waiting |-> Len(queue)]
<1>1. /\ reports' = x /\ UNCHANGED <<posting, posted, received>>
      /\ \/ Len(queue) < QueueDepth /\ queue' = Append(queue, x) /\ dropped' = dropped
         \/ Len(queue) >= QueueDepth /\ dropped' = dropped \cup {d} /\ queue' = queue
  BY McpAssumption DEF Report, workerVars, RecordsTyped
<1>2. reports \in Nat /\ x \in Nat /\ 1..x = (1..reports) \cup {x} /\ x \notin 1..reports
  BY DEF RecordsTyped
<1>3. x \notin Kept /\ \A e \in dropped : e.n # x
  BY <1>2 DEF NoneForgotten
<1>4. \A k \in Kept : k < x
  BY <1>2 DEF NoneForgotten
<1>5. /\ Len(queue) \in Nat /\ Len(posted) \in Nat /\ Cardinality(posting) \in Nat
      /\ Cardinality(dropped) \in Nat /\ QueueDepth \in Nat
  BY PostingCounts, FS_CardinalityType, McpAssumption DEF RecordsTyped, Counted
<1>6. /\ \A i \in 1..Len(posted) : posted[i] \in Kept
      /\ \A i \in 1..Len(queue) : queue[i] \in Kept
      /\ posting \subseteq Kept
  BY DEF Kept, ToSet, RecordsTyped
<1>7. CASE Len(queue) < QueueDepth /\ queue' = Append(queue, x) /\ dropped' = dropped
  <2>1. /\ queue' \in Seq(Nat) /\ Len(queue') = Len(queue) + 1
        /\ \A i \in 1..Len(queue) : queue'[i] = queue[i]
        /\ queue'[Len(queue) + 1] = x /\ ToSet(queue') = ToSet(queue) \cup {x}
    BY <1>2, <1>7, Appended DEF RecordsTyped
  <2>2. RecordsTyped'
    BY <1>1, <1>2, <1>5, <1>7, <2>1 DEF RecordsTyped
  <2>3. \A i \in 1..Len(queue') : i \in 1..Len(queue) \/ i = Len(queue) + 1
    BY <1>5, <2>1
  <2>4. InOrder'
    <3>1. \A i, j \in 1..Len(queue') : i < j => queue'[i] < queue'[j]
      <4> SUFFICES ASSUME NEW i \in 1..Len(queue'), NEW j \in 1..Len(queue'), i < j
                   PROVE  queue'[i] < queue'[j]
        OBVIOUS
      <4>1. i \in 1..Len(queue)
        BY <1>5, <2>1
      <4>2. CASE j \in 1..Len(queue)
        BY <2>1, <4>1, <4>2 DEF InOrder
      <4>3. CASE j = Len(queue) + 1
        BY <1>4, <1>6, <2>1, <4>1, <4>3
      <4> QED
        BY <2>3, <4>2, <4>3
    <3>2. \A i \in 1..Len(posted), j \in 1..Len(queue') : posted[i] < queue'[j]
      BY <1>4, <1>6, <2>1, <2>3 DEF InOrder
    <3>3. \A n \in posting, j \in 1..Len(queue') : n < queue'[j]
      BY <1>4, <1>6, <2>1, <2>3 DEF InOrder
    <3> QED
      BY <1>1, <3>1, <3>2, <3>3 DEF InOrder
  <2>5. NoneForgotten'
    <3>1. Kept' = Kept \cup {x}
      BY <1>1, <2>1 DEF Kept
    <3> QED
      BY <1>1, <1>2, <1>3, <1>7, <3>1 DEF NoneForgotten
  <2>6. Counted'
    BY <1>1, <1>5, <1>7, <2>1 DEF Counted
  <2> QED
    BY <2>2, <2>4, <2>5, <2>6
<1>8. CASE Len(queue) >= QueueDepth /\ dropped' = dropped \cup {d} /\ queue' = queue
  <2>1. d.n = x /\ d.waiting = Len(queue) /\ d \notin dropped
    BY <1>3
  <2> HIDE DEF d
  <2>2. RecordsTyped'
    BY <1>1, <1>2, <1>8 DEF RecordsTyped
  <2>3. InOrder'
    BY <1>1, <1>8 DEF InOrder
  <2>4. NoneForgotten'
    <3>1. Kept' = Kept
      BY <1>1, <1>8 DEF Kept
    <3>2. d.waiting = QueueDepth
      BY <1>5, <1>8, <2>1 DEF RecordsTyped
    <3>3. {e.n : e \in dropped'} = {e.n : e \in dropped} \cup {x}
      BY <1>8, <2>1
    <3> QED
      BY <1>1, <1>2, <1>3, <1>8, <2>1, <3>1, <3>2, <3>3 DEF NoneForgotten
  <2>5. Counted'
    <3>1. IsFiniteSet(dropped') /\ Cardinality(dropped') = Cardinality(dropped) + 1
      BY <1>8, <2>1, FS_AddElement DEF Counted
    <3> QED
      BY <1>1, <1>5, <1>8, <3>1 DEF Counted
  <2> QED
    BY <2>2, <2>3, <2>4, <2>5
<1> QED
  BY <1>1, <1>7, <1>8

LEMMA TakeReportStep ==
  ASSUME McpInv, TakeReport
  PROVE  McpInv'
<1> USE DEF McpInv, RecordsOK
<1> DEFINE x == Head(queue)
<1>1. /\ posting = {} /\ queue # <<>> /\ posting' = {x} /\ queue' = Tail(queue)
      /\ UNCHANGED <<mcp, reports, dropped, posted, received>>
  BY DEF TakeReport
<1>2. /\ queue' \in Seq(Nat) /\ Len(queue') = Len(queue) - 1 /\ Len(queue) \in Nat \ {0}
      /\ \A i \in 1..Len(queue') : queue'[i] = queue[i + 1]
      /\ x = queue[1] /\ x \in Nat /\ ToSet(queue) = {x} \cup ToSet(queue')
  BY <1>1, Taken DEF RecordsTyped
<1> HIDE DEF x
<1>3. RecordsTyped'
  BY <1>1, <1>2, McpAssumption DEF RecordsTyped
<1>4. InOrder'
  <2>1. \A i \in 1..Len(queue') : i + 1 \in 1..Len(queue) /\ 1 < i + 1
    BY <1>2
  <2>2. 1 \in 1..Len(queue)
    BY <1>2
  <2>3. \A i, j \in 1..Len(queue') : i < j => queue'[i] < queue'[j]
    BY SMTT(40), <1>2, <2>1 DEF InOrder
  <2>4. \A j \in 1..Len(queue') : x < queue'[j]
    BY <1>2, <2>1, <2>2 DEF InOrder
  <2>5. \A i \in 1..Len(posted) : posted[i] < x /\ \A j \in 1..Len(queue') : posted[i] < queue'[j]
    BY <1>2, <2>1, <2>2 DEF InOrder
  <2> QED
    BY <1>1, <2>3, <2>4, <2>5 DEF InOrder
<1>5. NoneForgotten'
  <2>1. Kept' = Kept
    BY <1>1, <1>2 DEF Kept
  <2> QED
    BY <1>1, <2>1 DEF NoneForgotten
<1>6. Counted'
  <2>1. Cardinality(posting) = 0 /\ Cardinality(posting') = 1
    BY <1>1, FS_EmptySet, FS_Singleton
  <2>2. Len(posted) \in Nat /\ Cardinality(dropped) \in Nat
    BY FS_CardinalityType DEF RecordsTyped, Counted
  <2> QED
    BY <1>1, <1>2, <2>1, <2>2 DEF Counted
<1>7. mcp # "exited"
  BY <1>1 DEF Drained
<1> QED
  BY <1>1, <1>3, <1>4, <1>5, <1>6, <1>7

LEMMA PostReportStep ==
  ASSUME McpInv, PostReport
  PROVE  McpInv'
<1> USE DEF McpInv, RecordsOK
<1>1. PICK n \in posting :
        /\ posting' = {} /\ posted' = Append(posted, n) /\ received' \in {received, received \cup {n}}
        /\ UNCHANGED <<mcp, messages, reports, dropped, queue>>
  BY DEF PostReport
<1>2. posting = {n} /\ Cardinality(posting) = 1 /\ n \in Nat
  BY PostingCounts DEF RecordsTyped
<1>3. /\ posted' \in Seq(Nat) /\ Len(posted') = Len(posted) + 1
      /\ \A i \in 1..Len(posted) : posted'[i] = posted[i]
      /\ posted'[Len(posted) + 1] = n /\ ToSet(posted') = ToSet(posted) \cup {n}
  BY <1>1, <1>2, Appended DEF RecordsTyped
<1>4. Len(posted) \in Nat /\ Len(queue) \in Nat /\ Cardinality(dropped) \in Nat
  BY FS_CardinalityType DEF RecordsTyped, Counted
<1>5. RecordsTyped'
  BY <1>1, <1>3 DEF RecordsTyped
<1>6. InOrder'
  <2>1. \A i \in 1..Len(posted') : i \in 1..Len(posted) \/ i = Len(posted) + 1
    BY <1>3, <1>4
  <2>2. \A i, j \in 1..Len(posted') : i < j => posted'[i] < posted'[j]
    <3> SUFFICES ASSUME NEW i \in 1..Len(posted'), NEW j \in 1..Len(posted'), i < j
                 PROVE  posted'[i] < posted'[j]
      OBVIOUS
    <3>1. i \in 1..Len(posted)
      BY <1>3, <1>4
    <3>2. CASE j \in 1..Len(posted)
      BY <1>3, <3>1, <3>2 DEF InOrder
    <3>3. CASE j = Len(posted) + 1
      BY <1>2, <1>3, <3>1, <3>3 DEF InOrder
    <3> QED
      BY <2>1, <3>2, <3>3
  <2>3. \A i \in 1..Len(posted'), j \in 1..Len(queue) : posted'[i] < queue[j]
    BY <1>2, <1>3, <2>1 DEF InOrder
  <2> QED
    BY <1>1, <2>2, <2>3 DEF InOrder
<1>7. NoneForgotten'
  <2>1. Kept' = Kept
    BY <1>1, <1>2, <1>3 DEF Kept
  <2> QED
    BY <1>1, <2>1 DEF NoneForgotten
<1>8. Counted'
  <2>1. Cardinality(posting') = 0
    BY <1>1, FS_EmptySet
  <2> QED
    BY <1>1, <1>2, <1>3, <1>4, <2>1 DEF Counted
<1>9. mcp # "exited"
  BY <1>2 DEF Drained
<1> QED
  BY <1>1, <1>5, <1>6, <1>7, <1>8, <1>9

\* The frame of the steps that make no record and post none.
LEMMA Quiet ==
  ASSUME McpInv, UNCHANGED <<reports, queue, posting, posted, dropped>>,
         received' \subseteq ToSet(posted), mcp' = "exited" => mcp = "exited" \/ Drained
  PROVE  McpInv'
<1>1. RecordsTyped' /\ InOrder'
  BY DEF McpInv, RecordsOK, RecordsTyped, InOrder
<1>2. NoneForgotten' /\ Counted'
  BY DEF McpInv, RecordsOK, NoneForgotten, Counted, Kept
<1>3. Drained' <=> Drained
  BY DEF Drained
<1> QED
  BY <1>1, <1>2, <1>3 DEF McpInv, RecordsOK

-----------------------------------------------------------------------------
(* The invariant and what it gives *)

LEMMA McpInvInit == McpInit => McpInv
<1> SUFFICES ASSUME McpInit PROVE McpInv
  OBVIOUS
<1>1. /\ mcp = "new" /\ reports = 0 /\ dropped = {}
      /\ queue = <<>> /\ posting = {} /\ posted = <<>> /\ received = {}
  BY DEF McpInit
<1>2. RecordsTyped
  BY <1>1, EmptyToSet, McpAssumption DEF RecordsTyped
<1>3. InOrder
  BY <1>1, EmptyToSet DEF InOrder
<1>4. NoneForgotten
  <2>1. Kept = {} /\ 1..reports = {}
    BY <1>1, EmptyToSet DEF Kept
  <2> QED
    BY <1>1, <2>1 DEF NoneForgotten
<1>5. Counted
  BY <1>1, EmptyToSet, FS_EmptySet DEF Counted
<1> QED
  BY <1>1, <1>2, <1>3, <1>4, <1>5 DEF McpInv, RecordsOK

LEMMA McpInvStep == McpInv /\ [McpNext]_mcpVars => McpInv'
<1> SUFFICES ASSUME McpInv, [McpNext]_mcpVars PROVE McpInv'
  OBVIOUS
<1>1. received \subseteq ToSet(posted)
  BY DEF McpInv, RecordsOK, RecordsTyped
<1>2. CASE StartSession \/ ReadMessage \/ CloseSession
  <2>1. Report /\ UNCHANGED workerVars /\ mcp' # "exited"
    BY <1>2 DEF StartSession, ReadMessage, CloseSession
  <2> QED
    BY <2>1, ReportStep DEF McpInv
<1>3. CASE Ask
  <2>1. mcp' = "replying" /\ UNCHANGED workerVars
    BY <1>3 DEF Ask
  <2>2. CASE Guarded
    <3>1. UNCHANGED <<reports, queue, posting, posted, dropped>> /\ received' = received
      BY <1>3, <2>2 DEF Ask, workerVars
    <3> QED
      BY <1>1, <2>1, <3>1, Quiet
  <2>3. CASE ~Guarded
    <3>1. Report
      BY <1>3, <2>3 DEF Ask
    <3> QED
      BY <2>1, <3>1, ReportStep DEF McpInv
  <2> QED
    BY <2>2, <2>3
<1>4. CASE Reply \/ Exit
  <2>1. /\ UNCHANGED <<reports, queue, posting, posted, dropped>> /\ received' = received
        /\ mcp' = "exited" => Drained
    BY <1>4 DEF Reply, Exit, workerVars
  <2> QED
    BY <1>1, <2>1, Quiet
<1>5. CASE TakeReport
  BY <1>5, TakeReportStep
<1>6. CASE PostReport
  BY <1>6, PostReportStep
<1>7. ASSUME NEW n \in 1..reports, ArriveLate(n) PROVE McpInv'
  <2>1. /\ UNCHANGED <<mcp, reports, queue, posting, posted, dropped>>
        /\ received' \subseteq ToSet(posted)
    BY <1>1, <1>7 DEF ArriveLate
  <2> QED
    BY <2>1, Quiet
<1>8. CASE UNCHANGED mcpVars
  <2>1. UNCHANGED <<mcp, reports, queue, posting, posted, dropped, received>>
    BY <1>8 DEF mcpVars
  <2> QED
    BY <1>1, <2>1, Quiet
<1> QED
  BY <1>2, <1>3, <1>4, <1>5, <1>6, <1>7, <1>8 DEF McpNext

\* The inductive invariant holds.
THEOREM McpInvariant == McpSpec => []McpInv
  BY McpInvInit, McpInvStep, PTL DEF McpSpec

\* For any depth of the queue, any number of messages and whatever becomes of
\* the posts: records are posted once, in order, and none is forgotten - it
\* waits, was posted or found a full queue - up to the end of the process
\* (report and its worker, mcpserver.go:312-361).
THEOREM RecordsAreKept == McpSpec => []ReportsKeepTheirOrder
<1>1. McpInv => ReportsKeepTheirOrder
  <2> SUFFICES ASSUME McpInv PROVE ReportsKeepTheirOrder
    OBVIOUS
  <2>1. \A i \in 1..Len(posted), j \in 1..Len(posted) : i < j => posted[i] < posted[j]
    BY DEF McpInv, RecordsOK, InOrder
  <2>2. /\ 1..reports = ToSet(posted) \cup posting \cup ToSet(queue) \cup {d.n : d \in dropped}
        /\ \A d \in dropped : d.waiting = QueueDepth /\ d.n \notin ToSet(posted)
    BY DEF McpInv, RecordsOK, NoneForgotten, Kept
  <2>3. ASSUME mcp = "exited"
        PROVE  /\ Cardinality(received) <= Len(posted)
               /\ Len(posted) = reports - Cardinality(dropped)
    <3>1. received \subseteq ToSet(posted) /\ posted \in Seq(Nat) /\ reports \in Nat
      BY DEF McpInv, RecordsOK, RecordsTyped
    <3>2. queue = <<>> /\ posting = {}
      BY <2>3 DEF McpInv, Drained
    <3>3. Len(queue) = 0 /\ Cardinality(posting) = 0
      BY <3>2, EmptyToSet, FS_EmptySet
    <3>4. Cardinality(dropped) \in Nat /\ Len(posted) \in Nat
      BY <3>1, FS_CardinalityType DEF McpInv, RecordsOK, Counted
    <3>5. Len(posted) = reports - Cardinality(dropped)
      BY <3>1, <3>3, <3>4 DEF McpInv, RecordsOK, Counted
    <3> QED
      BY <3>1, <3>5, NoMoreThanLong
  <2> QED
    BY <2>1, <2>2, <2>3 DEF ReportsKeepTheirOrder
<1> QED
  BY <1>1, McpInvariant, PTL

\* What the types need beyond the invariant.
McpBounded ==
  /\ mcp \in {"new", "reading", "asking", "replying", "draining", "exited"}
  /\ messages \in 0..MaxMessages
  /\ dropped \subseteq [n : Nat, waiting : Nat]

LEMMA McpBoundedStep == McpInv /\ McpBounded /\ [McpNext]_mcpVars => McpBounded'
<1> SUFFICES ASSUME McpInv, McpBounded, [McpNext]_mcpVars PROVE McpBounded'
  OBVIOUS
<1>1. reports \in Nat /\ Len(queue) \in Nat /\ MaxMessages \in Nat
  BY McpAssumption DEF McpInv, RecordsOK, RecordsTyped
<1>2. dropped' \subseteq [n : Nat, waiting : Nat]
  <2>1. CASE Report
    BY <1>1, <2>1 DEF Report, McpBounded
  <2>2. CASE dropped' = dropped
    BY <2>2 DEF McpBounded
  <2> QED
    BY <2>1, <2>2 DEF McpNext, StartSession, ReadMessage, Ask, Reply, CloseSession, Exit,
       TakeReport, PostReport, ArriveLate, mcpVars
<1>3. messages' \in 0..MaxMessages
  BY <1>1 DEF McpBounded, McpNext, StartSession, ReadMessage, Ask, Reply, CloseSession, Exit,
     TakeReport, PostReport, ArriveLate, mcpVars
<1>4. mcp' \in {"new", "reading", "asking", "replying", "draining", "exited"}
  BY DEF McpBounded, McpNext, StartSession, ReadMessage, Ask, Reply, CloseSession, Exit,
     TakeReport, PostReport, ArriveLate, mcpVars
<1> QED
  BY <1>2, <1>3, <1>4 DEF McpBounded

\* The queue never exceeds its depth and one record is posted at a time, for
\* any depth and any number of messages (mcpserver.go:331-336).
THEOREM McpTypesHold == McpSpec => []McpTypeOK
<1>1. McpInit => McpBounded
  BY McpAssumption DEF McpInit, McpBounded
<1>2. McpInv /\ McpBounded => McpTypeOK
  <2> SUFFICES ASSUME McpInv, McpBounded PROVE McpTypeOK
    OBVIOUS
  <2>1. RecordsTyped /\ NoneForgotten
    BY DEF McpInv, RecordsOK
  <2>2. /\ Kept \subseteq 1..reports /\ {d.n : d \in dropped} \subseteq 1..reports
        /\ reports \in Nat
    BY <2>1 DEF NoneForgotten, RecordsTyped
  <2>3. ASSUME NEW s \in Seq(Nat), ToSet(s) \subseteq 1..reports PROVE s \in Seq(1..reports)
    <3>1. \A i \in 1..Len(s) : s[i] \in 1..reports
      BY <2>3 DEF ToSet
    <3>2. Len(s) \in Nat /\ s = [i \in 1..Len(s) |-> s[i]]
      BY <2>3
    <3>3. s \in [1..Len(s) -> 1..reports]
      BY <3>1, <3>2, Zenon
    <3>4. s \in UNION {[1..m -> 1..reports] : m \in Nat}
      BY <3>2, <3>3, Zenon
    <3> QED
      BY <3>4, SeqDef, Zenon
  <2>4. queue \in Seq(1..reports) /\ posted \in Seq(1..reports) /\ received \subseteq 1..reports
    BY <2>1, <2>2, <2>3 DEF RecordsTyped, Kept
  <2>5. posting \subseteq 1..reports /\ Cardinality(posting) <= 1
    <3>1. posting \subseteq 1..reports
      BY <2>2 DEF Kept
    <3>2. CASE posting = {}
      BY <3>1, <3>2, FS_EmptySet
    <3>3. CASE posting # {}
      <4>1. Cardinality(posting) = 1
        BY <2>1, <3>3, PostingCounts
      <4> QED
        BY <3>1, <4>1
    <3> QED
      BY <3>2, <3>3
  <2>6. dropped \subseteq [n : 1..reports, waiting : Nat]
    <3>1. \A d \in dropped : d \in [n : Nat, waiting : Nat] /\ d.n \in 1..reports
      BY <2>2 DEF McpBounded
    <3> QED
      BY <3>1
  <2> QED
    BY <2>1, <2>4, <2>5, <2>6 DEF McpTypeOK, McpBounded, RecordsTyped
<1> QED
  BY <1>1, <1>2, McpBoundedStep, McpInvInit, McpInvStep, PTL DEF McpSpec

-----------------------------------------------------------------------------
(***************************************************************************)
(* Self-learning.  The inductive invariant says of an operator's one       *)
(* request what it may still rely on of what it read, and at which record  *)
(* the two pages differ while it is between two writes.                    *)
(***************************************************************************)

Op == [name : {"correct", "forget"}, record : AnyRecord, feedback : Feedback]
        \cup [name : {"employ"}, set : EmployeeSets]
Request == [stage : {"record", "user", "unrecord"}, by : Operators, user : Properties, op : Op]

RequestsTyped ==
  /\ requests \in [Requests -> Request \cup {NoRequest, Over}]
  /\ \A q \in Requests : InFlight(q) =>
       /\ requests[q].stage = "record" => requests[q].op.name = "correct"
       /\ requests[q].stage = "unrecord" => requests[q].op.name = "forget"
       /\ requests[q].op.name # "employ" =>
            requests[q].op.record \in AnyRecord /\ requests[q].op.feedback \in Feedback
       /\ requests[q].op.name = "employ" => requests[q].op.set \in EmployeeSets
       /\ requests[q].op.name = "forget" => requests[q].op.feedback = "none"

StateTyped ==
  /\ feedback \in [AnyRecord -> Feedback]
  /\ properties \in [Operators -> Properties]
  /\ corrected \in [AnyRecord -> SUBSET Operators]
  /\ chosen \in [Operators -> EmployeeSets \cup {NoSet}]
  /\ upset \subseteq Operators /\ misses \in 0..MaxMisses

\* Nobody can teach anything about a record that was only logged.
LoggedOK == \A r \in Logged : feedback[r] = "none"

Mine(q, u) == InFlight(q) /\ requests[q].by = u

\* The record at which a request is between its two writes.
Between(q, r) ==
  /\ requests[q].op.name # "employ" /\ requests[q].op.record = r
  /\ \/ requests[q].stage = "user" /\ requests[q].op.name = "correct"
     \/ requests[q].stage = "unrecord"

\* What a request of an operator who is not upset relies on.
InStep(q, u) ==
  /\ requests[q].stage \in {"record", "user"} => requests[q].user = properties[u]
  /\ requests[q].stage = "unrecord" => properties[u].rules[requests[q].op.record] = "none"
  /\ /\ requests[q].stage = "user" /\ requests[q].op.name = "correct"
     /\ corrected[requests[q].op.record] \subseteq {u}
     => feedback[requests[q].op.record] = requests[q].op.feedback
  /\ \A r \in AnyRecord :
       corrected[r] \subseteq {u} /\ ~Between(q, r) => properties[u].rules[r] = feedback[r]

OperatorOK(u) ==
  /\ properties[u].employee = chosen[u]
  /\ \A p, q \in Requests : Mine(p, u) /\ Mine(q, u) => p = q
  /\ ~Busy(u) => Agree(u)
  /\ \A q \in Requests : Mine(q, u) => InStep(q, u)

\* The inductive invariant.
LearnInv == RequestsTyped /\ StateTyped /\ LoggedOK /\ \A u \in Operators \ upset : OperatorOK(u)

-----------------------------------------------------------------------------
(* Lemmas *)

LEMMA NotInFlight ==
  /\ NoRequest.stage = "new" /\ Over.stage = "over"
  /\ NoRequest \notin Request /\ Over \notin Request
<1>1. NoRequest.stage = "new" /\ Over.stage = "over"
  BY DEF NoRequest, Over
<1>2. \A q \in Request : q.stage \in {"record", "user", "unrecord"}
  BY DEF Request
<1> QED
  BY <1>1, <1>2

LEMMA FlightTyped ==
  ASSUME RequestsTyped, NEW q \in Requests, InFlight(q)
  PROVE  /\ requests[q] \in Request
         /\ requests[q].by \in Operators /\ requests[q].user \in Properties
         /\ requests[q].stage \in {"record", "user", "unrecord"} /\ requests[q].op \in Op
<1>1. requests[q] \in Request
  BY NotInFlight DEF RequestsTyped, InFlight
<1> QED
  BY <1>1 DEF Request

LEMMA BusyIsMine ==
  ASSUME NEW u
  PROVE  Busy(u) <=> \E q \in Requests : Mine(q, u)
  BY DEF Busy, Mine

\* A step of somebody else's request does not concern an operator.
LEMMA Unconcerned ==
  ASSUME StateTyped, NEW u \in Operators, OperatorOK(u),
         \A q \in Requests : Mine(q, u) <=> Mine(q, u)',
         \A q \in Requests : Mine(q, u) => requests'[q] = requests[q],
         properties'[u] = properties[u], chosen'[u] = chosen[u],
         \A r \in AnyRecord : corrected[r] \subseteq corrected'[r],
         \A r \in AnyRecord : corrected'[r] \subseteq {u} => feedback'[r] = feedback[r],
         \A q \in Requests : Mine(q, u) /\ requests[q].op.name # "employ" => requests[q].op.record \in AnyRecord
  PROVE  OperatorOK(u)'
<1>1. (properties[u].employee = chosen[u])'
  BY DEF OperatorOK
<1>2. \A p, q \in Requests : (Mine(p, u) /\ Mine(q, u) => p = q)'
  BY DEF OperatorOK
<1>3. (~Busy(u) => Agree(u))'
  <2> SUFFICES ASSUME ~Busy(u)' PROVE Agree(u)'
    OBVIOUS
  <2>1. ~Busy(u)
    BY BusyIsMine DEF Busy, Mine, InFlight
  <2>2. Agree(u)
    BY <2>1 DEF OperatorOK
  <2> QED
    BY <2>2 DEF Agree
<1>4. ASSUME NEW q \in Requests, Mine(q, u)' PROVE InStep(q, u)'
  <2>1. Mine(q, u) /\ requests'[q] = requests[q] /\ InStep(q, u)
    BY <1>4 DEF OperatorOK
  <2>2. \A r \in AnyRecord : Between(q, r)' <=> Between(q, r)
    BY <2>1 DEF Between
  <2>3. (requests[q].stage \in {"record", "user"} => requests[q].user = properties[u])'
    BY <2>1 DEF InStep
  <2>4. (requests[q].stage = "unrecord" => properties[u].rules[requests[q].op.record] = "none")'
    BY <2>1 DEF InStep
  <2>5. (/\ requests[q].stage = "user" /\ requests[q].op.name = "correct"
         /\ corrected[requests[q].op.record] \subseteq {u}
         => feedback[requests[q].op.record] = requests[q].op.feedback)'
    BY <2>1 DEF InStep
  <2>6. \A r \in AnyRecord :
          (corrected[r] \subseteq {u} /\ ~Between(q, r) => properties[u].rules[r] = feedback[r])'
    BY <2>1, <2>2 DEF InStep
  <2> QED
    BY <2>3, <2>4, <2>5, <2>6 DEF InStep
<1> QED
  BY <1>1, <1>2, <1>3, <1>4 DEF OperatorOK

\* A request that is accepted, one that goes on, and one that is over.
LEMMA AcceptedTypes ==
  ASSUME NEW u \in Operators, NEW first \in {"record", "user"}, NEW op \in Op, NEW p \in Properties
  PROVE  LET n == [stage |-> first, by |-> u, user |-> p, op |-> op]
         IN  n \in Request /\ n.stage = first /\ n.by = u /\ n.user = p /\ n.op = op
  BY DEF Request

LEMMA NextStage ==
  ASSUME NEW n \in Request, NEW stage \in {"record", "user", "unrecord"}
  PROVE  LET m == [n EXCEPT !.stage = stage]
         IN  m \in Request /\ m.stage = stage /\ m.by = n.by /\ m.user = n.user /\ m.op = n.op
  BY DEF Request

\* The frame of a step of request q, which is u's before or after it.
LEMMA OnlyThisRequest ==
  ASSUME RequestsTyped, NEW q \in Requests, NEW n \in Request \cup {NoRequest, Over},
         requests' = [requests EXCEPT ![q] = n]
  PROVE  /\ requests'[q] = n
         /\ \A p \in Requests : p # q => requests'[p] = requests[p]
         /\ requests' \in [Requests -> Request \cup {NoRequest, Over}]
  BY DEF RequestsTyped

LEMMA OthersUnconcerned ==
  ASSUME LearnInv, NEW q \in Requests, NEW v \in Operators,
         \A p \in Requests : p # q => requests'[p] = requests[p],
         InFlight(q) => requests[q].by = v,
         InFlight(q)' => requests'[q].by = v,
         \A u \in Operators : u # v => properties'[u] = properties[u] /\ chosen'[u] = chosen[u],
         \A r \in AnyRecord : corrected[r] \subseteq corrected'[r],
         \A r \in AnyRecord : feedback'[r] # feedback[r] => v \in corrected'[r],
         upset \subseteq upset'
  PROVE  \A u \in Operators \ upset' : u # v => OperatorOK(u)'
<1> USE DEF LearnInv
<1> SUFFICES ASSUME NEW u \in Operators \ upset', u # v PROVE OperatorOK(u)'
  OBVIOUS
<1>1. OperatorOK(u)
  OBVIOUS
<1>2. \A p \in Requests : Mine(p, u) <=> Mine(p, u)'
  BY DEF Mine, InFlight
<1>3. \A p \in Requests : Mine(p, u) => requests'[p] = requests[p]
  BY DEF Mine
<1>4. \A r \in AnyRecord : corrected'[r] \subseteq {u} => feedback'[r] = feedback[r]
  OBVIOUS
<1>5. \A p \in Requests : Mine(p, u) /\ requests[p].op.name # "employ" => requests[p].op.record \in AnyRecord
  BY DEF Mine, RequestsTyped
<1> QED
  BY <1>1, <1>2, <1>3, <1>4, <1>5, Unconcerned

LEMMA AcceptStep ==
  ASSUME LearnInv, NEW q \in Requests, NEW u \in Operators, NEW first \in {"record", "user"}, NEW op \in Op,
         first = "record" => op.name = "correct",
         op.name # "employ" => op.record \in AnyRecord /\ op.feedback \in Feedback,
         op.name = "correct" => first = "record",
         op.name = "employ" => op.set \in EmployeeSets,
         op.name = "forget" => op.feedback = "none",
         Accept(q, u, first, op)
  PROVE  LearnInv'
<1> USE DEF LearnInv
<1> DEFINE n == [stage |-> first, by |-> u, user |-> properties[u], op |-> op]
<1>1. /\ requests[q] = NoRequest /\ requests' = [requests EXCEPT ![q] = n]
      /\ upset' = (IF Busy(u) THEN upset \cup {u} ELSE upset)
      /\ UNCHANGED <<feedback, properties, corrected, chosen, misses>>
  BY DEF Accept
<1>2. n \in Request /\ n.stage = first /\ n.by = u /\ n.user = properties[u] /\ n.op = op
  <2>1. properties[u] \in Properties
    BY DEF StateTyped
  <2> HIDE DEF LearnInv
  <2> QED
    BY <2>1, AcceptedTypes
<1> HIDE DEF n
<1>3. /\ requests'[q] = n /\ \A p \in Requests : p # q => requests'[p] = requests[p]
      /\ requests' \in [Requests -> Request \cup {NoRequest, Over}]
  BY <1>1, <1>2, OnlyThisRequest
<1>4. RequestsTyped'
  BY <1>2, <1>3 DEF RequestsTyped, InFlight
<1>5. StateTyped' /\ LoggedOK'
  BY <1>1 DEF StateTyped, LoggedOK
<1>6. ~InFlight(q) /\ InFlight(q)'
  BY <1>1, <1>2, <1>3, NotInFlight DEF InFlight
<1>7. \A v \in Operators \ upset' : v # u => OperatorOK(v)'
  BY <1>1, <1>2, <1>3, <1>6, OthersUnconcerned
<1>8. ASSUME u \notin upset' PROVE OperatorOK(u)'
  <2>1. ~Busy(u) /\ u \notin upset /\ OperatorOK(u)
    BY <1>1, <1>8
  <2>2. \A p \in Requests : Mine(p, u)' => p = q
    BY <1>3, <2>1, BusyIsMine DEF Mine, InFlight
  <2>3. Agree(u)
    BY <2>1 DEF OperatorOK
  <2>4. InStep(q, u)'
    BY <1>1, <1>2, <1>3, <2>3 DEF InStep, Agree
  <2>5. Busy(u)'
    BY <1>2, <1>3, <1>6 DEF Busy
  <2>6. (properties[u].employee = chosen[u])'
    BY <1>1, <2>1 DEF OperatorOK
  <2> QED
    BY <2>2, <2>4, <2>5, <2>6 DEF OperatorOK
<1> QED
  BY <1>4, <1>5, <1>7, <1>8

\* An operator whose one request is over, and whose two pages agree.
LEMMA Finished ==
  ASSUME NEW u \in Operators, NEW q \in Requests, ~InFlight(q)',
         \A p \in Requests : p # q => requests'[p] = requests[p],
         \A p \in Requests : Mine(p, u) => p = q,
         Agree(u)', properties'[u].employee = chosen'[u]
  PROVE  OperatorOK(u)'
<1>1. \A p \in Requests : ~Mine(p, u)'
  BY DEF Mine, InFlight
<1> QED
  BY <1>1 DEF OperatorOK

\* An operator whose one request goes on.
LEMMA GoesOn ==
  ASSUME NEW u \in Operators, NEW q \in Requests, Mine(q, u)',
         \A p \in Requests : p # q => requests'[p] = requests[p],
         \A p \in Requests : Mine(p, u) => p = q,
         InStep(q, u)', properties'[u].employee = chosen'[u]
  PROVE  OperatorOK(u)'
<1>1. \A p \in Requests : Mine(p, u)' => p = q
  BY DEF Mine, InFlight
<1>2. Busy(u)'
  BY DEF Busy, Mine
<1> QED
  BY <1>1, <1>2 DEF OperatorOK

LEMMA CorrectRecordStep ==
  ASSUME LearnInv, NEW q \in Requests, CorrectRecord(q)
  PROVE  LearnInv'
<1> USE DEF LearnInv
<1> DEFINE e == requests[q]
           r == e.op.record
           f == e.op.feedback
           n == [e EXCEPT !.stage = "user"]
<1>1. InFlight(q) /\ e.stage = "record"
  BY DEF CorrectRecord, InFlight
<1> PICK u \in Operators : u = e.by
  BY <1>1, FlightTyped
<1>2. e \in Request /\ e.user \in Properties /\ e.op \in Op
  BY <1>1, FlightTyped
<1>3. e.op.name = "correct" /\ r \in AnyRecord /\ f \in Feedback
  BY <1>1 DEF RequestsTyped
<1>4. n \in Request /\ n.stage = "user" /\ n.by = u /\ n.user = e.user /\ n.op = e.op
  BY <1>2, NextStage
<1>5. UNCHANGED <<properties, chosen, upset>>
  BY DEF CorrectRecord
<1>6. \/ /\ r \in Ruled /\ UNCHANGED misses
         /\ feedback' = [feedback EXCEPT ![r] = f]
         /\ corrected' = [corrected EXCEPT ![r] = corrected[r] \cup {u}]
         /\ requests' = [requests EXCEPT ![q] = n]
      \/ /\ misses' \in 0..MaxMisses
         /\ requests' = [requests EXCEPT ![q] = Over]
         /\ UNCHANGED <<feedback, corrected>>
  <2>1. misses \in 0..MaxMisses /\ MaxMisses \in Nat
    BY LearnAssumption DEF StateTyped
  <2>2. r \in Ruled \/ r \in Logged
    BY <1>3 DEF AnyRecord
  <2>3. Miss => misses' \in 0..MaxMisses
    BY <2>1 DEF Miss
  <2> QED
    BY <2>1, <2>2, <2>3 DEF CorrectRecord, Corrected
<1> HIDE DEF n
<1>7. CASE /\ r \in Ruled /\ UNCHANGED misses
           /\ feedback' = [feedback EXCEPT ![r] = f]
           /\ corrected' = [corrected EXCEPT ![r] = corrected[r] \cup {u}]
           /\ requests' = [requests EXCEPT ![q] = n]
  <2>1. /\ requests'[q] = n /\ \A p \in Requests : p # q => requests'[p] = requests[p]
        /\ requests' \in [Requests -> Request \cup {NoRequest, Over}]
    BY <1>4, <1>7, OnlyThisRequest
  <2>2. RequestsTyped'
    BY <1>3, <1>4, <2>1 DEF RequestsTyped, InFlight
  <2>3. /\ feedback'[r] = f /\ corrected'[r] = corrected[r] \cup {u}
        /\ \A x \in AnyRecord : x # r => feedback'[x] = feedback[x] /\ corrected'[x] = corrected[x]
    BY <1>3, <1>7 DEF StateTyped
  <2>4. StateTyped'
    BY <1>2, <1>3, <1>5, <1>7 DEF StateTyped
  <2>5. LoggedOK'
    BY <1>7, <2>3, LearnAssumption DEF LoggedOK, AnyRecord
  <2>6. InFlight(q)' /\ requests'[q].by = u
    BY <1>4, <2>1 DEF InFlight
  <2>7. \A v \in Operators \ upset' : v # u => OperatorOK(v)'
    <3>1. \A x \in AnyRecord : corrected[x] \subseteq corrected'[x]
      BY <2>3
    <3>2. \A x \in AnyRecord : feedback'[x] # feedback[x] => u \in corrected'[x]
      BY <2>3
    <3> QED
      BY <1>2, <1>5, <2>1, <2>6, <3>1, <3>2, OthersUnconcerned
  <2>8. ASSUME u \notin upset' PROVE OperatorOK(u)'
    <3>1. OperatorOK(u) /\ Mine(q, u) /\ InStep(q, u)
      BY <1>1, <1>2, <1>5, <2>8 DEF OperatorOK, Mine
    <3>2. \A p \in Requests : Mine(p, u) => p = q
      BY <3>1 DEF OperatorOK
    <3>3. \A x \in AnyRecord : corrected[x] \subseteq {u} => properties[u].rules[x] = feedback[x]
      BY <1>1, <3>1 DEF InStep, Between
    <3>4. \A x \in AnyRecord : ~Between(q, x)' => x # r
      BY <1>3, <1>4, <2>1 DEF Between
    <3>5. \A x \in AnyRecord :
            (corrected[x] \subseteq {u} /\ ~Between(q, x) => properties[u].rules[x] = feedback[x])'
      BY <1>5, <2>3, <3>3, <3>4
    <3>6. InStep(q, u)'
      BY <1>1, <1>3, <1>4, <1>5, <2>1, <2>3, <3>1, <3>5 DEF InStep
    <3>7. Mine(q, u)' /\ properties'[u].employee = chosen'[u]
      BY <1>5, <2>6, <3>1 DEF Mine, OperatorOK
    <3> QED
      BY <1>2, <2>1, <3>2, <3>6, <3>7, GoesOn
  <2> QED
    BY <2>2, <2>4, <2>5, <2>7, <2>8
<1>8. CASE /\ misses' \in 0..MaxMisses
           /\ requests' = [requests EXCEPT ![q] = Over]
           /\ UNCHANGED <<feedback, corrected>>
  <2>1. /\ requests'[q] = Over /\ \A p \in Requests : p # q => requests'[p] = requests[p]
        /\ requests' \in [Requests -> Request \cup {NoRequest, Over}]
    BY <1>8, OnlyThisRequest
  <2>2. ~InFlight(q)'
    BY <2>1, NotInFlight DEF InFlight
  <2>3. RequestsTyped'
    BY <2>1, <2>2 DEF RequestsTyped, InFlight
  <2>4. StateTyped' /\ LoggedOK'
    BY <1>5, <1>8 DEF StateTyped, LoggedOK
  <2>5. \A v \in Operators \ upset' : v # u => OperatorOK(v)'
    BY <1>2, <1>5, <1>8, <2>1, <2>2, OthersUnconcerned
  <2>6. ASSUME u \notin upset' PROVE OperatorOK(u)'
    <3>1. OperatorOK(u) /\ Mine(q, u) /\ InStep(q, u)
      BY <1>1, <1>2, <1>5, <2>6 DEF OperatorOK, Mine
    <3>2. \A p \in Requests : Mine(p, u) => p = q
      BY <3>1 DEF OperatorOK
    <3>3. Agree(u)'
      BY <1>1, <1>5, <1>8, <3>1 DEF InStep, Between, Agree
    <3>4. properties'[u].employee = chosen'[u]
      BY <1>5, <3>1 DEF OperatorOK
    <3> QED
      BY <1>2, <2>1, <2>2, <3>2, <3>3, <3>4, Finished
  <2> QED
    BY <2>3, <2>4, <2>5, <2>6
<1> QED
  BY <1>6, <1>7, <1>8

LEMMA WriteUserStep ==
  ASSUME LearnInv, NEW q \in Requests, WriteUser(q)
  PROVE  LearnInv'
<1> USE DEF LearnInv
<1> DEFINE e == requests[q]
           n == [e EXCEPT !.stage = "unrecord"]
           m == IF e.op.name = "forget" THEN n ELSE Over
           written == Written(q)
<1>1. InFlight(q) /\ e.stage = "user"
  BY DEF WriteUser, InFlight
<1> PICK u \in Operators : u = e.by
  BY <1>1, FlightTyped
<1>2. e \in Request /\ e.user \in Properties /\ e.op \in Op
  BY <1>1, FlightTyped
<1>3. /\ e.op.name # "employ" => e.op.record \in AnyRecord /\ e.op.feedback \in Feedback
      /\ e.op.name = "employ" => e.op.set \in EmployeeSets
      /\ e.op.name = "forget" => e.op.feedback = "none"
  BY <1>1 DEF RequestsTyped
<1>4. n \in Request /\ n.stage = "unrecord" /\ n.by = u /\ n.user = e.user /\ n.op = e.op
  BY <1>2, NextStage
<1>5. UNCHANGED <<feedback, corrected>>
  BY DEF WriteUser
<1>6. \/ /\ properties' = [properties EXCEPT ![u] = written]
         /\ chosen' = (IF e.op.name = "employ" THEN [chosen EXCEPT ![u] = e.op.set] ELSE chosen)
         /\ requests' = [requests EXCEPT ![q] = m]
         /\ UNCHANGED <<upset, misses>>
      \/ /\ misses' \in 0..MaxMisses /\ upset' = upset \cup {u}
         /\ requests' = [requests EXCEPT ![q] = Over]
         /\ UNCHANGED <<properties, chosen>>
  <2>1. Miss => misses' \in 0..MaxMisses
    BY LearnAssumption DEF Miss, StateTyped
  <2>2. [requests EXCEPT ![q] = IF @.op.name = "forget" THEN [@ EXCEPT !.stage = "unrecord"] ELSE Over]
          = [requests EXCEPT ![q] = m]
    OBVIOUS
  <2> QED
    BY <2>1, <2>2 DEF WriteUser, Upset
<1>7. /\ written \in Properties
      /\ e.op.name = "employ" => written.employee = e.op.set /\ written.rules = e.user.rules
      /\ e.op.name # "employ" => /\ written.employee = e.user.employee
                                 /\ written.rules = [e.user.rules EXCEPT ![e.op.record] = e.op.feedback]
  <2>1. e.user.rules \in [AnyRecord -> Feedback] /\ e.user.employee \in EmployeeSets \cup {NoSet}
    BY <1>2 DEF Properties
  <2>2. CASE e.op.name = "employ"
    BY <1>2, <1>3, <2>1, <2>2 DEF Written, Properties
  <2>3. CASE e.op.name # "employ"
    BY <1>2, <1>3, <2>1, <2>3 DEF Written, Properties, UpsertRule
  <2> QED
    BY <2>2, <2>3
<1> HIDE DEF n, written
<1>8. CASE /\ properties' = [properties EXCEPT ![u] = written]
           /\ chosen' = (IF e.op.name = "employ" THEN [chosen EXCEPT ![u] = e.op.set] ELSE chosen)
           /\ requests' = [requests EXCEPT ![q] = m]
           /\ UNCHANGED <<upset, misses>>
  <2>1. m \in Request \cup {NoRequest, Over}
    BY <1>4
  <2>2. /\ requests'[q] = m /\ \A p \in Requests : p # q => requests'[p] = requests[p]
        /\ requests' \in [Requests -> Request \cup {NoRequest, Over}]
    BY <1>8, <2>1, OnlyThisRequest
  <2>3. e.op.name # "forget" => ~InFlight(q)'
    BY <2>2, NotInFlight DEF InFlight
  <2>4. e.op.name = "forget" => InFlight(q)' /\ requests'[q] = n
    BY <1>4, <2>2 DEF InFlight
  <2>5. RequestsTyped'
    BY <1>3, <1>4, <2>2, <2>3, <2>4 DEF RequestsTyped, InFlight
  <2>6. /\ properties'[u] = written /\ chosen'[u] = (IF e.op.name = "employ" THEN e.op.set ELSE chosen[u])
        /\ \A v \in Operators : v # u => properties'[v] = properties[v] /\ chosen'[v] = chosen[v]
    BY <1>8 DEF StateTyped
  <2>7. StateTyped' /\ LoggedOK'
    <3>1. properties' \in [Operators -> Properties]
      BY <1>7, <1>8 DEF StateTyped
    <3>2. chosen' \in [Operators -> EmployeeSets \cup {NoSet}]
      BY <1>3, <1>8 DEF StateTyped
    <3> QED
      BY <1>5, <1>8, <3>1, <3>2 DEF StateTyped, LoggedOK
  <2>8. \A v \in Operators \ upset' : v # u => OperatorOK(v)'
    <3>1. InFlight(q)' => requests'[q].by = u
      BY <1>4, <2>3, <2>4
    <3> QED
      BY <1>5, <1>8, <2>2, <2>6, <3>1, OthersUnconcerned
  <2>9. ASSUME u \notin upset' PROVE OperatorOK(u)'
    <3>1. OperatorOK(u) /\ Mine(q, u) /\ InStep(q, u)
      BY <1>1, <1>8, <2>9 DEF OperatorOK, Mine
    <3>2. \A p \in Requests : Mine(p, u) => p = q
      BY <3>1 DEF OperatorOK
    <3>3. e.user = properties[u] /\ properties[u] \in Properties
      BY <1>1, <3>1 DEF InStep, StateTyped
    <3>4. properties'[u].employee = chosen'[u]
      BY <1>7, <2>6, <3>1, <3>3 DEF OperatorOK
    <3>5. CASE e.op.name = "employ"
      <4>1. Agree(u)'
        BY <1>1, <1>5, <1>7, <2>6, <3>1, <3>3, <3>5 DEF InStep, Between, Agree
      <4> QED
        BY <2>2, <2>3, <3>2, <3>4, <3>5, <4>1, Finished
    <3>6. CASE e.op.name = "correct"
      <4>1. \A x \in AnyRecord :
              corrected[x] \subseteq {u} /\ x # e.op.record => properties[u].rules[x] = feedback[x]
        BY <1>1, <3>1, <3>6 DEF InStep, Between
      <4>2. corrected[e.op.record] \subseteq {u} => feedback[e.op.record] = e.op.feedback
        BY <1>1, <3>1, <3>6 DEF InStep
      <4>3. /\ properties'[u].rules[e.op.record] = e.op.feedback
            /\ \A x \in AnyRecord : x # e.op.record => properties'[u].rules[x] = properties[u].rules[x]
        BY <1>3, <1>7, <2>6, <3>3, <3>6 DEF Properties
      <4>4. Agree(u)'
        BY <1>5, <4>1, <4>2, <4>3 DEF Agree
      <4> QED
        BY <2>2, <2>3, <3>2, <3>4, <3>6, <4>4, Finished
    <3>7. CASE e.op.name = "forget"
      <4>1. \A x \in AnyRecord : corrected[x] \subseteq {u} => properties[u].rules[x] = feedback[x]
        BY <1>1, <3>1, <3>7 DEF InStep, Between
      <4>2. /\ properties'[u].rules[e.op.record] = "none"
            /\ \A x \in AnyRecord : x # e.op.record => properties'[u].rules[x] = properties[u].rules[x]
        BY <1>3, <1>7, <2>6, <3>3, <3>7 DEF Properties
      <4>3. requests'[q].op = e.op /\ requests'[q].stage = "unrecord" /\ requests'[q].by = u
        BY <1>4, <2>4, <3>7
      <4>4. \A x \in AnyRecord :
              (corrected[x] \subseteq {u} /\ ~Between(q, x) => properties[u].rules[x] = feedback[x])'
        BY <1>5, <3>7, <4>1, <4>2, <4>3 DEF Between
      <4>5. InStep(q, u)'
        BY <4>2, <4>3, <4>4 DEF InStep
      <4>6. Mine(q, u)'
        BY <2>4, <3>7, <4>3 DEF Mine
      <4> QED
        BY <2>2, <3>2, <3>4, <4>5, <4>6, GoesOn
    <3>8. e.op.name \in {"correct", "forget", "employ"}
      BY <1>2 DEF Op
    <3> QED
      BY <3>5, <3>6, <3>7, <3>8
  <2> QED
    BY <2>5, <2>7, <2>8, <2>9
<1>9. CASE /\ misses' \in 0..MaxMisses /\ upset' = upset \cup {u}
           /\ requests' = [requests EXCEPT ![q] = Over]
           /\ UNCHANGED <<properties, chosen>>
  <2>1. /\ requests'[q] = Over /\ \A p \in Requests : p # q => requests'[p] = requests[p]
        /\ requests' \in [Requests -> Request \cup {NoRequest, Over}]
    BY <1>9, OnlyThisRequest
  <2>2. ~InFlight(q)'
    BY <2>1, NotInFlight DEF InFlight
  <2>3. RequestsTyped'
    BY <2>1, <2>2 DEF RequestsTyped, InFlight
  <2>4. StateTyped' /\ LoggedOK'
    BY <1>5, <1>9 DEF StateTyped, LoggedOK
  <2>5. \A v \in Operators \ upset' : v # u => OperatorOK(v)'
    BY <1>5, <1>9, <2>1, <2>2, OthersUnconcerned
  <2> QED
    BY <1>9, <2>3, <2>4, <2>5
<1> QED
  BY <1>6, <1>8, <1>9

LEMMA WithdrawFeedbackStep ==
  ASSUME LearnInv, NEW q \in Requests, WithdrawFeedback(q)
  PROVE  LearnInv'
<1> USE DEF LearnInv
<1> DEFINE e == requests[q]
           r == e.op.record
<1>1. InFlight(q) /\ e.stage = "unrecord"
  BY DEF WithdrawFeedback, InFlight
<1> PICK u \in Operators : u = e.by
  BY <1>1, FlightTyped
<1>2. e.op.name = "forget" /\ r \in AnyRecord
  BY <1>1 DEF RequestsTyped
<1>3. requests' = [requests EXCEPT ![q] = Over] /\ UNCHANGED <<properties, chosen>>
  BY DEF WithdrawFeedback
<1>4. /\ requests'[q] = Over /\ \A p \in Requests : p # q => requests'[p] = requests[p]
      /\ requests' \in [Requests -> Request \cup {NoRequest, Over}]
  BY <1>3, OnlyThisRequest
<1>5. ~InFlight(q)'
  BY <1>4, NotInFlight DEF InFlight
<1>6. RequestsTyped'
  BY <1>4, <1>5 DEF RequestsTyped, InFlight
<1>7. \/ /\ r \in Ruled /\ UNCHANGED <<upset, misses>>
         /\ feedback' = [feedback EXCEPT ![r] = "none"]
         /\ corrected' = [corrected EXCEPT ![r] = corrected[r] \cup {u}]
      \/ /\ r \in Logged /\ UNCHANGED <<upset, misses, feedback, corrected>>
      \/ /\ misses' \in 0..MaxMisses /\ upset' = upset \cup {u}
         /\ UNCHANGED <<feedback, corrected>>
  <2>1. r \in Ruled \/ r \in Logged
    BY <1>2 DEF AnyRecord
  <2>2. Miss => misses' \in 0..MaxMisses
    BY LearnAssumption DEF Miss, StateTyped
  <2>3. CASE r \in Ruled
    BY <2>2, <2>3 DEF WithdrawFeedback, Corrected, Upset
  <2>4. CASE r \in Logged /\ r \notin Ruled
    BY <2>4 DEF WithdrawFeedback, Corrected, Upset
  <2> QED
    BY <2>1, <2>3, <2>4
<1>8. CASE /\ r \in Ruled /\ UNCHANGED <<upset, misses>>
           /\ feedback' = [feedback EXCEPT ![r] = "none"]
           /\ corrected' = [corrected EXCEPT ![r] = corrected[r] \cup {u}]
  <2>1. /\ feedback'[r] = "none" /\ corrected'[r] = corrected[r] \cup {u}
        /\ \A x \in AnyRecord : x # r => feedback'[x] = feedback[x] /\ corrected'[x] = corrected[x]
    BY <1>2, <1>8 DEF StateTyped
  <2>2. StateTyped'
    BY <1>2, <1>3, <1>8 DEF StateTyped, Feedback
  <2>3. LoggedOK'
    BY <1>8, <2>1, LearnAssumption DEF LoggedOK, AnyRecord
  <2>4. \A v \in Operators \ upset' : v # u => OperatorOK(v)'
    <3>1. \A x \in AnyRecord : corrected[x] \subseteq corrected'[x]
      BY <2>1
    <3>2. \A x \in AnyRecord : feedback'[x] # feedback[x] => u \in corrected'[x]
      BY <2>1
    <3> QED
      BY <1>3, <1>4, <1>5, <1>8, <3>1, <3>2, OthersUnconcerned
  <2>5. ASSUME u \notin upset' PROVE OperatorOK(u)'
    <3>1. OperatorOK(u) /\ Mine(q, u) /\ InStep(q, u)
      BY <1>1, <1>8, <2>5 DEF OperatorOK, Mine
    <3>2. \A p \in Requests : Mine(p, u) => p = q
      BY <3>1 DEF OperatorOK
    <3>3. /\ properties[u].rules[r] = "none"
          /\ \A x \in AnyRecord : corrected[x] \subseteq {u} /\ x # r => properties[u].rules[x] = feedback[x]
      BY <1>1, <1>2, <3>1 DEF InStep, Between
    <3>4. Agree(u)'
      BY <1>3, <2>1, <3>3 DEF Agree
    <3>5. properties'[u].employee = chosen'[u]
      BY <1>3, <3>1 DEF OperatorOK
    <3> QED
      BY <1>4, <1>5, <3>2, <3>4, <3>5, Finished
  <2> QED
    BY <1>6, <2>2, <2>3, <2>4, <2>5
<1>9. CASE r \in Logged /\ UNCHANGED <<upset, misses, feedback, corrected>>
  <2>1. StateTyped' /\ LoggedOK'
    BY <1>3, <1>9 DEF StateTyped, LoggedOK
  <2>2. \A v \in Operators \ upset' : v # u => OperatorOK(v)'
    BY <1>3, <1>4, <1>5, <1>9, OthersUnconcerned
  <2>3. ASSUME u \notin upset' PROVE OperatorOK(u)'
    <3>1. OperatorOK(u) /\ Mine(q, u) /\ InStep(q, u)
      BY <1>1, <1>9, <2>3 DEF OperatorOK, Mine
    <3>2. \A p \in Requests : Mine(p, u) => p = q
      BY <3>1 DEF OperatorOK
    <3>3. /\ properties[u].rules[r] = "none" /\ feedback[r] = "none"
          /\ \A x \in AnyRecord : corrected[x] \subseteq {u} /\ x # r => properties[u].rules[x] = feedback[x]
      BY <1>1, <1>2, <1>9, <3>1 DEF InStep, Between, LoggedOK
    <3>4. Agree(u)'
      BY <1>3, <1>9, <3>3 DEF Agree
    <3>5. properties'[u].employee = chosen'[u]
      BY <1>3, <3>1 DEF OperatorOK
    <3> QED
      BY <1>4, <1>5, <3>2, <3>4, <3>5, Finished
  <2> QED
    BY <1>6, <2>1, <2>2, <2>3
<1>10. CASE misses' \in 0..MaxMisses /\ upset' = upset \cup {u} /\ UNCHANGED <<feedback, corrected>>
  <2>1. StateTyped' /\ LoggedOK'
    BY <1>3, <1>10 DEF StateTyped, LoggedOK
  <2>2. \A v \in Operators \ upset' : v # u => OperatorOK(v)'
    BY <1>3, <1>4, <1>5, <1>10, OthersUnconcerned
  <2> QED
    BY <1>6, <1>10, <2>1, <2>2
<1> QED
  BY <1>7, <1>8, <1>9, <1>10

-----------------------------------------------------------------------------
(* The invariant and what it gives *)

LEMMA LearnInvInit == LearnInit => LearnInv
<1> SUFFICES ASSUME LearnInit PROVE LearnInv
  OBVIOUS
<1>1. /\ feedback = NoRules
      /\ properties = [u \in Operators |-> [rules |-> NoRules, employee |-> NoSet]]
      /\ requests = [q \in Requests |-> NoRequest]
      /\ corrected = [r \in AnyRecord |-> {}]
      /\ chosen = [u \in Operators |-> NoSet]
      /\ upset = {} /\ misses = 0
  BY DEF LearnInit
<1>2. NoRules \in [AnyRecord -> Feedback] /\ \A r \in AnyRecord : NoRules[r] = "none"
  BY DEF NoRules, Feedback
<1>3. \A q \in Requests : ~InFlight(q)
  BY <1>1, NotInFlight DEF InFlight
<1>4. RequestsTyped
  BY <1>1, <1>3 DEF RequestsTyped
<1>5. StateTyped
  <2>1. properties \in [Operators -> Properties]
    BY <1>1, <1>2 DEF Properties
  <2> QED
    BY <1>1, <1>2, <2>1, LearnAssumption DEF StateTyped
<1>6. LoggedOK
  BY <1>1, <1>2 DEF LoggedOK, AnyRecord
<1>7. \A u \in Operators : OperatorOK(u)
  BY <1>1, <1>3 DEF OperatorOK, Mine, Agree
<1> QED
  BY <1>4, <1>5, <1>6, <1>7 DEF LearnInv

LEMMA LearnInvStep == LearnInv /\ [LearnNext]_learnVars => LearnInv'
<1> SUFFICES ASSUME LearnInv, [LearnNext]_learnVars PROVE LearnInv'
  OBVIOUS
<1>1. ASSUME NEW q \in Requests, NEW u \in Operators, NEW r \in AnyRecord, NEW f \in Feedback,
             UpdateRecordFeedback(q, u, r, f)
      PROVE  LearnInv'
  <2> DEFINE op == [name |-> "correct", record |-> r, feedback |-> f]
  <2>1. op \in Op /\ op.name = "correct" /\ op.record = r /\ op.feedback = f
    BY DEF Op
  <2>2. Accept(q, u, "record", op)
    BY <1>1 DEF UpdateRecordFeedback
  <2> HIDE DEF op
  <2> QED
    BY <2>1, <2>2, AcceptStep
<1>2. ASSUME NEW q \in Requests, NEW u \in Operators, NEW r \in AnyRecord, DeleteLearnedRule(q, u, r)
      PROVE  LearnInv'
  <2> DEFINE op == [name |-> "forget", record |-> r, feedback |-> "none"]
  <2>1. op \in Op /\ op.name = "forget" /\ op.record = r /\ op.feedback = "none" /\ op.feedback \in Feedback
    BY DEF Op, Feedback
  <2>2. Accept(q, u, "user", op)
    BY <1>2 DEF DeleteLearnedRule
  <2> HIDE DEF op
  <2> QED
    BY <2>1, <2>2, AcceptStep
<1>3. ASSUME NEW q \in Requests, NEW u \in Operators, NEW s \in EmployeeSets, UpdateEmployeePolicySet(q, u, s)
      PROVE  LearnInv'
  <2> DEFINE op == [name |-> "employ", set |-> s]
  <2>1. op \in Op /\ op.name = "employ" /\ op.set \in EmployeeSets
    BY DEF Op
  <2>2. Accept(q, u, "user", op)
    BY <1>3 DEF UpdateEmployeePolicySet
  <2> HIDE DEF op
  <2> QED
    BY <2>1, <2>2, AcceptStep
<1>4. ASSUME NEW q \in Requests, CorrectRecord(q) \/ WriteUser(q) \/ WithdrawFeedback(q)
      PROVE  LearnInv'
  BY <1>4, CorrectRecordStep, WriteUserStep, WithdrawFeedbackStep
<1>5. CASE UNCHANGED learnVars
  <2>1. UNCHANGED <<feedback, properties, requests, corrected, chosen, upset, misses>>
    BY <1>5 DEF learnVars
  <2>2. RequestsTyped' /\ StateTyped' /\ LoggedOK'
    BY <2>1 DEF LearnInv, RequestsTyped, StateTyped, LoggedOK, InFlight
  <2>3. \A u \in Operators : OperatorOK(u) => OperatorOK(u)'
    BY <2>1 DEF OperatorOK, Mine, Busy, InFlight, Agree, InStep, Between
  <2> QED
    BY <2>1, <2>2, <2>3 DEF LearnInv
<1> QED
  BY <1>1, <1>2, <1>3, <1>4, <1>5 DEF LearnNext

\* The inductive invariant holds.
THEOREM LearnInvariant == LearnSpec => []LearnInv
  BY LearnInvInit, LearnInvStep, PTL DEF LearnSpec

\* For any number of operators, records, employee sets and requests: what an
\* operator taught is the same on the record and in their user, and their
\* employee is the one they chose, unless that operator's own requests
\* overlapped or failed (controllers/selflearn.go, controllers/employee.go).
THEOREM OperatorsLessonsAgree == LearnSpec => []LessonsAgree
<1>1. LearnInv => LessonsAgree
  BY DEF LearnInv, OperatorOK, LessonsAgree
<1> QED
  BY <1>1, LearnInvariant, PTL

\* The types of the feedback, the users and the requests, for any operators,
\* records and employee sets.
THEOREM LearnTypesHold == LearnSpec => []LearnTypeOK
<1>1. LearnInv => LearnTypeOK
  <2> SUFFICES ASSUME LearnInv PROVE LearnTypeOK
    OBVIOUS
  <2>1. ASSUME NEW q \in Requests
        PROVE  /\ requests[q].stage \in {"new", "record", "user", "unrecord", "over"}
               /\ InFlight(q) => requests[q].by \in Operators /\ requests[q].user \in Properties
    <3>1. requests[q] \in Request \cup {NoRequest, Over}
      BY DEF LearnInv, RequestsTyped
    <3> QED
      BY <3>1, NotInFlight DEF Request, InFlight
  <2> QED
    BY <2>1 DEF LearnInv, StateTyped, LearnTypeOK
<1> QED
  BY <1>1, LearnInvariant, PTL

-----------------------------------------------------------------------------
(***************************************************************************)
(* The login.  The inductive invariant says what the one attempt under way *)
(* has already installed.                                                  *)
(***************************************************************************)

Conns == Connections \cup {NoConnection}
Attempt == [at : {"none", "begin", "fetch", "sleep", "done"}, conn : Conns, loop : BOOLEAN, gen : Nat]

LoginTyped ==
  /\ casdoor \in Conns
  /\ sdk \in [to : Conns, cert : Conns]
  /\ generation \in Nat /\ saves \in Nat
  /\ attempts \in [Inits -> Attempt]

\* What an attempt that waits for its certificate has installed; login without
\* a certificate is only on offer meanwhile.
Fetching(n) == attempts[n].at = "fetch"
CertComes ==
  /\ \A n \in Inits : Fetching(n) => attempts[n].conn # NoConnection /\ sdk.to # NoConnection
  /\ available /\ sdk.cert = NoConnection => \E n \in Inits : Fetching(n)

\* Attempts that never overlap are for the connection of the settings.
OneAtATime ==
  ~raced =>
    /\ \A n, m \in Inits : UnderWay(n) /\ UnderWay(m) => n = m
    /\ \A n \in Inits : Fetching(n) => attempts[n].conn = casdoor /\ sdk.to = casdoor
    /\ Ready => sdk.to = casdoor /\ sdk.cert = casdoor

\* The InitConfig of a save yet to come has not begun.
NotBegun == \A n \in Inits : n > saves => attempts[n].at = "none"

\* The inductive invariant.
LoginInv == LoginTyped /\ CertComes /\ OneAtATime /\ NotBegun

-----------------------------------------------------------------------------
(* Lemmas *)

LEMMA Idle ==
  /\ NotYet \in Attempt /\ NotYet.at = "none"
  /\ LET done == [NotYet EXCEPT !.at = "done"] IN done \in Attempt /\ done.at = "done"
  BY DEF NotYet, Attempt, Conns

\* The frame of a step of the n-th attempt.
LEMMA OneAttempt ==
  ASSUME LoginTyped, NEW n \in Inits, NEW a \in Attempt, attempts' = [attempts EXCEPT ![n] = a]
  PROVE  /\ attempts'[n] = a /\ attempts' \in [Inits -> Attempt]
         /\ \A m \in Inits : m # n => attempts'[m] = attempts[m]
  BY DEF LoginTyped

\* An attempt ends in a state in which it is no longer under way.
LEMMA Ends ==
  ASSUME LoginInv, NEW n \in Inits, NEW a \in Attempt, attempts' = [attempts EXCEPT ![n] = a],
         a.at \in {"sleep", "done"}, attempts[n].at # "none",
         generation' \in Nat, UNCHANGED <<casdoor, saves, raced>>,
         \/ ~available' /\ sdk' = sdk
         \/ available' = available /\ sdk' = sdk /\ ~UnderWay(n)
         \/ sdk' = [to |-> attempts[n].conn, cert |-> sdk.to] /\ Fetching(n)
  PROVE  LoginInv'
<1> USE DEF LoginInv
<1>1. /\ attempts'[n] = a /\ attempts' \in [Inits -> Attempt]
      /\ \A m \in Inits : m # n => attempts'[m] = attempts[m]
  BY OneAttempt
<1>2. \A m \in Inits : /\ Fetching(m)' <=> m # n /\ Fetching(m)
                       /\ UnderWay(m)' <=> m # n /\ UnderWay(m)
  BY <1>1 DEF Fetching, UnderWay
<1>3. LoginTyped' /\ NotBegun'
  <2>1. sdk' \in [to : Conns, cert : Conns]
    BY DEF LoginTyped, Attempt
  <2>2. LoginTyped'
    BY <1>1, <2>1 DEF LoginTyped
  <2>3. NotBegun'
    BY <1>1 DEF NotBegun
  <2> QED
    BY <2>2, <2>3
<1>4. CASE ~available' /\ sdk' = sdk
  <2>1. CertComes'
    BY <1>1, <1>2, <1>4 DEF CertComes, Fetching
  <2>2. OneAtATime'
    BY <1>1, <1>2, <1>4 DEF OneAtATime, Ready, Fetching
  <2> QED
    BY <1>3, <2>1, <2>2
<1>5. CASE available' = available /\ sdk' = sdk /\ ~UnderWay(n)
  <2>1. ~Fetching(n)
    BY <1>5 DEF Fetching, UnderWay
  <2>2. \A m \in Inits : (Fetching(m)' <=> Fetching(m)) /\ (UnderWay(m)' <=> UnderWay(m))
    BY <1>2, <1>5, <2>1
  <2>3. CertComes'
    BY <1>1, <1>5, <2>1, <2>2 DEF CertComes, Fetching
  <2>4. Ready' <=> Ready
    BY <1>5, <2>2 DEF Ready, Settled
  <2>5. OneAtATime'
    BY <1>1, <1>5, <2>1, <2>2, <2>4 DEF OneAtATime, Fetching
  <2> QED
    BY <1>3, <2>3, <2>5
<1>6. CASE sdk' = [to |-> attempts[n].conn, cert |-> sdk.to] /\ Fetching(n)
  <2>1. attempts[n].conn # NoConnection /\ sdk.to # NoConnection
    BY <1>6 DEF CertComes
  <2>2. sdk'.to = attempts[n].conn /\ sdk'.cert = sdk.to
    BY <1>6
  <2>3. CertComes'
    BY <1>1, <1>2, <2>1, <2>2 DEF CertComes, Fetching
  <2>4. OneAtATime'
    <3> SUFFICES ASSUME ~raced PROVE OneAtATime'
      BY DEF OneAtATime
    <3>1. attempts[n].conn = casdoor /\ sdk.to = casdoor
      BY <1>6 DEF OneAtATime
    <3> QED
      BY <1>1, <1>2, <2>2, <3>1 DEF OneAtATime, Fetching, UnderWay
  <2> QED
    BY <1>3, <2>3, <2>4
<1> QED
  BY <1>4, <1>5, <1>6

\* Failed, as what an attempt that ends needs.
LEMMA FailedEnds ==
  ASSUME LoginTyped, NEW n \in Inits, Failed(n)
  PROVE  /\ ~available' /\ generation' \in Nat
         /\ \E a \in Attempt : a.at = "sleep" /\ attempts' = [attempts EXCEPT ![n] = a]
<1> DEFINE b == [at |-> "sleep", conn |-> NoConnection, loop |-> TRUE, gen |-> generation']
           x == [attempts[n] EXCEPT !.at = "sleep"]
<1>1. generation' = generation \/ generation' = generation + 1
  BY DEF Failed
<1>2. generation' \in Nat
  BY <1>1 DEF LoginTyped
<1>3. b \in Attempt /\ b.at = "sleep"
  BY <1>2 DEF Attempt, Conns
<1>4. x \in Attempt /\ x.at = "sleep"
  BY DEF LoginTyped, Attempt
<1>5. attempts' = [attempts EXCEPT ![n] = x] \/ attempts' = [attempts EXCEPT ![n] = b]
  BY DEF Failed
<1>6. ~available'
  BY DEF Failed
<1> HIDE DEF b, x
<1> QED
  BY <1>2, <1>3, <1>4, <1>5, <1>6

LEMMA ReadConnectionStep ==
  ASSUME LoginInv, NEW n \in Inits, ReadConnection(n)
  PROVE  LoginInv'
<1> USE DEF LoginInv
<1>1. attempts[n].at = "begin" /\ UNCHANGED <<casdoor, reachable, saves, outages, raced>>
  BY DEF ReadConnection
<1>2. CASE casdoor = NoConnection
  <2>1. Failed(n) /\ sdk' = sdk
    BY <1>2 DEF ReadConnection
  <2>2. PICK a \in Attempt : a.at = "sleep" /\ attempts' = [attempts EXCEPT ![n] = a]
    BY <2>1, FailedEnds
  <2>3. ~available' /\ generation' \in Nat
    BY <2>1, FailedEnds
  <2> QED
    BY <1>1, <2>1, <2>2, <2>3, Ends
<1>3. CASE casdoor # NoConnection
  <2> DEFINE a == [attempts[n] EXCEPT !.at = "fetch", !.conn = casdoor]
  <2>1. a \in Attempt /\ a.at = "fetch" /\ a.conn = casdoor
    <3>1. attempts[n] \in Attempt /\ casdoor \in Conns
      BY DEF LoginTyped
    <3> QED
      BY <3>1 DEF Attempt
  <2>2. /\ sdk' = [to |-> casdoor, cert |-> NoConnection] /\ attempts' = [attempts EXCEPT ![n] = a]
        /\ UNCHANGED <<available, generation>>
    BY <1>3 DEF ReadConnection
  <2> HIDE DEF a
  <2>3. /\ attempts'[n] = a /\ attempts' \in [Inits -> Attempt]
        /\ \A m \in Inits : m # n => attempts'[m] = attempts[m]
    BY <2>1, <2>2, OneAttempt
  <2>4. sdk'.to = casdoor /\ sdk'.cert = NoConnection /\ sdk' \in [to : Conns, cert : Conns]
    BY <2>2 DEF LoginTyped, Conns
  <2>5. /\ \A m \in Inits : UnderWay(m)' <=> UnderWay(m)
        /\ UnderWay(n) /\ Fetching(n)'
    BY <1>1, <2>1, <2>3 DEF UnderWay, Fetching
  <2>6. LoginTyped' /\ NotBegun'
    <3>1. LoginTyped'
      BY <1>1, <2>2, <2>3, <2>4 DEF LoginTyped
    <3>2. NotBegun'
      BY <1>1, <2>3 DEF NotBegun
    <3> QED
      BY <3>1, <3>2
  <2>7. CertComes'
    BY <1>3, <2>1, <2>3, <2>4, <2>5 DEF CertComes, Fetching
  <2>8. OneAtATime'
    <3> SUFFICES ASSUME ~raced PROVE OneAtATime'
      BY <1>1 DEF OneAtATime
    <3>1. \A m, k \in Inits : (UnderWay(m) /\ UnderWay(k))' => m = k
      BY <2>5 DEF OneAtATime
    <3>2. \A m \in Inits : Fetching(m)' => m = n
      BY <2>5, <3>1 DEF Fetching, UnderWay
    <3>3. ~Ready'
      BY <2>5 DEF Ready, Settled
    <3> QED
      BY <1>1, <2>1, <2>3, <2>4, <3>1, <3>2, <3>3 DEF OneAtATime
  <2> QED
    BY <2>6, <2>7, <2>8
<1> QED
  BY <1>2, <1>3

LEMMA FetchCertStep ==
  ASSUME LoginInv, NEW n \in Inits, FetchCert(n)
  PROVE  LoginInv'
<1> USE DEF LoginInv
<1>1. attempts[n].at = "fetch" /\ UNCHANGED <<casdoor, reachable, saves, outages, raced>>
  BY DEF FetchCert
<1>2. CASE reachable
  <2>1. /\ sdk' = [to |-> attempts[n].conn, cert |-> sdk.to] /\ generation' = generation
        /\ attempts' = [attempts EXCEPT ![n] = [NotYet EXCEPT !.at = "done"]]
    BY <1>2 DEF FetchCert
  <2>2. PICK a \in Attempt : a.at = "done" /\ attempts' = [attempts EXCEPT ![n] = a]
    BY <2>1, Idle
  <2>3. generation' \in Nat /\ Fetching(n)
    BY <1>1, <2>1 DEF LoginTyped, Fetching
  <2> QED
    BY <1>1, <2>1, <2>2, <2>3, Ends
<1>3. CASE ~reachable
  <2>1. Failed(n) /\ sdk' = sdk
    BY <1>3 DEF FetchCert
  <2>2. PICK a \in Attempt : a.at = "sleep" /\ attempts' = [attempts EXCEPT ![n] = a]
    BY <2>1, FailedEnds
  <2>3. ~available' /\ generation' \in Nat
    BY <2>1, FailedEnds
  <2> QED
    BY <1>1, <2>1, <2>2, <2>3, Ends
<1> QED
  BY <1>2, <1>3

\* An attempt begins; another one may be under way.
LEMMA Begins ==
  ASSUME LoginInv, NEW n \in Inits, attempts[n].at \in {"none", "sleep"},
         attempts' = [attempts EXCEPT ![n].at = "begin"],
         raced' = (raced \/ ~Settled),
         casdoor' = casdoor \/ saves' = saves + 1, casdoor' \in Conns,
         saves' \in Nat, saves <= saves', n <= saves',
         UNCHANGED <<sdk, available, generation>>
  PROVE  LoginInv'
<1> USE DEF LoginInv
<1> DEFINE a == [attempts[n] EXCEPT !.at = "begin"]
<1>1. a \in Attempt /\ a.at = "begin" /\ attempts' = [attempts EXCEPT ![n] = a]
  BY DEF LoginTyped, Attempt
<1> HIDE DEF a
<1>2. /\ attempts'[n] = a /\ attempts' \in [Inits -> Attempt]
      /\ \A m \in Inits : m # n => attempts'[m] = attempts[m]
  BY <1>1, OneAttempt
<1>3. \A m \in Inits : /\ Fetching(m)' <=> Fetching(m)
                       /\ Fetching(m) => m # n
                       /\ UnderWay(m)' <=> m = n \/ UnderWay(m)
  BY <1>1, <1>2 DEF Fetching, UnderWay
<1>4. LoginTyped'
  BY <1>2 DEF LoginTyped
<1>5. NotBegun'
  <2> SUFFICES ASSUME NEW m \in Inits, m > saves' PROVE attempts'[m].at = "none"
    BY DEF NotBegun
  <2>1. m \in Nat /\ n \in Nat /\ saves \in Nat
    BY LoginAssumption DEF Inits, LoginTyped
  <2>2. m # n /\ m > saves
    BY <2>1
  <2> QED
    BY <1>2, <2>2 DEF NotBegun
<1>6. CertComes'
  <2>1. ASSUME NEW m \in Inits, Fetching(m)' PROVE attempts'[m].conn # NoConnection /\ sdk'.to # NoConnection
    BY <1>2, <1>3, <2>1 DEF CertComes
  <2>2. available' /\ sdk'.cert = NoConnection => \E m \in Inits : Fetching(m)'
    BY <1>3 DEF CertComes
  <2> QED
    BY <2>1, <2>2 DEF CertComes
<1>7. OneAtATime'
  <2> SUFFICES ASSUME ~raced, Settled PROVE OneAtATime'
    BY DEF OneAtATime
  <2>1. \A m \in Inits : ~UnderWay(m) /\ ~Fetching(m)
    BY DEF Settled, UnderWay, Fetching
  <2>2. \A m \in Inits : UnderWay(m)' <=> m = n
    BY <1>3, <2>1
  <2>3. \A m \in Inits : ~Fetching(m)'
    BY <1>3, <2>1
  <2>4. ~Ready'
    BY <2>2 DEF Ready, Settled
  <2> QED
    BY <2>2, <2>3, <2>4 DEF OneAtATime
<1> QED
  BY <1>4, <1>5, <1>6, <1>7

LEMMA SaveConnectionStep ==
  ASSUME LoginInv, NEW c \in Conns, SaveConnection(c)
  PROVE  LoginInv'
<1>1. /\ saves < MaxSaves /\ saves' = saves + 1 /\ casdoor' = c
      /\ attempts' = [attempts EXCEPT ![saves'].at = "begin"] /\ raced' = (raced \/ ~Settled)
      /\ UNCHANGED <<sdk, available, generation>>
  BY DEF SaveConnection
<1> DEFINE n == saves + 1
<1>2. saves \in Nat /\ MaxSaves \in Nat
  BY LoginAssumption DEF LoginInv, LoginTyped
<1>3. n \in Inits /\ n > saves /\ saves' \in Nat /\ saves <= saves' /\ n <= saves'
  BY <1>1, <1>2 DEF Inits
<1>4. attempts[n].at = "none"
  BY <1>3 DEF LoginInv, NotBegun
<1>5. attempts' = [attempts EXCEPT ![n].at = "begin"]
  BY <1>1
<1> HIDE DEF n
<1> QED
  BY <1>1, <1>3, <1>4, <1>5, Begins

LEMMA RetryStep ==
  ASSUME LoginInv, NEW n \in Inits, Retry(n)
  PROVE  LoginInv'
<1>1. attempts[n].at = "sleep" /\ UNCHANGED <<casdoor, sdk, available, generation, saves>>
  BY DEF Retry
<1>2. CASE Superseded(n)
  <2>1. attempts' = [attempts EXCEPT ![n] = [NotYet EXCEPT !.at = "done"]] /\ raced' = raced
    BY <1>2 DEF Retry
  <2>2. PICK a \in Attempt : a.at = "done" /\ attempts' = [attempts EXCEPT ![n] = a]
    BY <2>1, Idle
  <2>3. generation' \in Nat /\ ~UnderWay(n)
    BY <1>1 DEF LoginInv, LoginTyped, UnderWay
  <2> QED
    BY <1>1, <2>1, <2>2, <2>3, Ends
<1>3. CASE ~Superseded(n)
  <2>1. attempts' = [attempts EXCEPT ![n].at = "begin"] /\ raced' = (raced \/ ~Settled)
    BY <1>3 DEF Retry
  <2>2. casdoor' \in Conns /\ saves' \in Nat /\ saves <= saves' /\ n <= saves'
    <3>1. saves \in Nat /\ casdoor \in Conns /\ n \in Nat
      BY LoginAssumption DEF LoginInv, LoginTyped, Inits
    <3>2. ~(n > saves)
      BY <1>1 DEF LoginInv, NotBegun
    <3> QED
      BY <1>1, <3>1, <3>2
  <2> QED
    BY <1>1, <2>1, <2>2, Begins
<1> QED
  BY <1>2, <1>3

-----------------------------------------------------------------------------
(* The invariant and what it gives *)

LEMMA LoginInvInit == LoginInit => LoginInv
<1> SUFFICES ASSUME LoginInit PROVE LoginInv
  OBVIOUS
<1> DEFINE a == [NotYet EXCEPT !.at = "begin"]
<1>1. a \in Attempt /\ a.at = "begin" /\ NotYet \in Attempt /\ NotYet.at = "none"
  BY Idle DEF NotYet, Attempt, Conns
<1>2. /\ casdoor \in Conns /\ sdk = [to |-> NoConnection, cert |-> NoConnection]
      /\ available = FALSE /\ generation = 0 /\ saves = 0
      /\ attempts = [n \in Inits |-> IF n = 0 THEN a ELSE NotYet]
  BY DEF LoginInit, Conns
<1> HIDE DEF a
<1>3. \A n \in Inits : attempts[n] = IF n = 0 THEN a ELSE NotYet
  BY <1>2
<1>4. LoginTyped
  BY <1>1, <1>2 DEF LoginTyped, Conns
<1>5. \A n \in Inits : ~Fetching(n) /\ (UnderWay(n) => n = 0)
  BY <1>1, <1>3 DEF Fetching, UnderWay
<1>6. CertComes /\ OneAtATime
  BY <1>2, <1>5 DEF CertComes, OneAtATime, Ready
<1>7. NotBegun
  BY <1>1, <1>2, <1>3 DEF NotBegun
<1> QED
  BY <1>4, <1>6, <1>7 DEF LoginInv

LEMMA LoginInvStep == LoginInv /\ [LoginNext]_loginVars => LoginInv'
<1> SUFFICES ASSUME LoginInv, [LoginNext]_loginVars PROVE LoginInv'
  OBVIOUS
<1>1. ASSUME NEW c \in Connections \cup {NoConnection}, SaveConnection(c) PROVE LoginInv'
  BY <1>1, SaveConnectionStep DEF Conns
<1>2. ASSUME NEW n \in Inits, ReadConnection(n) \/ FetchCert(n) \/ Retry(n) PROVE LoginInv'
  BY <1>2, ReadConnectionStep, FetchCertStep, RetryStep
<1>3. CASE Outage \/ UNCHANGED loginVars
  <2>1. UNCHANGED <<casdoor, sdk, available, generation, attempts, saves, raced>>
    BY <1>3 DEF Outage, loginVars
  <2> QED
    BY <2>1 DEF LoginInv, LoginTyped, CertComes, OneAtATime, NotBegun, Fetching, UnderWay, Ready, Settled
<1> QED
  BY <1>1, <1>2, <1>3 DEF LoginNext

\* The inductive invariant holds.
THEOREM LoginInvariant == LoginSpec => []LoginInv
  BY LoginInvInit, LoginInvStep, PTL DEF LoginSpec

\* For any number of saves, outages and retry loops: login on offer has a
\* certificate, and if no two attempts overlapped, the settings' connection and
\* certificate (InitConfig and its loop, auth.go:88-157).
THEOREM LoginStaysCurrent == LoginSpec => []LoginIsCurrent
<1>1. LoginInv => LoginIsCurrent
  <2> SUFFICES ASSUME LoginInv, Ready
               PROVE  /\ sdk.cert # NoConnection
                      /\ ~raced => sdk = [to |-> casdoor, cert |-> casdoor]
    BY DEF LoginIsCurrent
  <2>1. sdk.cert # NoConnection
    BY DEF LoginInv, CertComes, Fetching, Ready, Settled, UnderWay
  <2>2. ~raced => sdk = [to |-> casdoor, cert |-> casdoor]
    <3> SUFFICES ASSUME ~raced PROVE sdk = [to |-> casdoor, cert |-> casdoor]
      OBVIOUS
    <3>1. sdk.to = casdoor /\ sdk.cert = casdoor
      BY DEF LoginInv, OneAtATime
    <3>2. sdk \in [to : Conns, cert : Conns]
      BY DEF LoginInv, LoginTyped
    <3> QED
      BY <3>1, <3>2
  <2> QED
    BY <2>1, <2>2
<1> QED
  BY <1>1, LoginInvariant, PTL

\* A generation is made by an InitConfig whose first attempt failed, once.
Spent == {n \in Inits : attempts[n].loop \/ attempts[n].at = "done"}
LoginBounded ==
  /\ reachable \in BOOLEAN /\ available \in BOOLEAN /\ raced \in BOOLEAN
  /\ saves \in 0..MaxSaves /\ outages \in 0..MaxOutages
  /\ generation <= Cardinality(Spent)
  /\ \A n \in Inits : attempts[n].gen <= generation

LEMMA SpentCounts ==
  /\ IsFiniteSet(Inits) /\ Cardinality(Inits) = MaxSaves + 1
  /\ \A S \in SUBSET Inits : IsFiniteSet(S) /\ Cardinality(S) \in 0 .. MaxSaves + 1
<1>1. IsFiniteSet(Inits) /\ Cardinality(Inits) = MaxSaves + 1
  BY LoginAssumption, FS_Interval DEF Inits
<1>2. ASSUME NEW S \in SUBSET Inits PROVE IsFiniteSet(S) /\ Cardinality(S) \in 0 .. MaxSaves + 1
  <2>1. IsFiniteSet(S) /\ Cardinality(S) <= Cardinality(Inits)
    BY <1>1, FS_Subset
  <2>2. Cardinality(S) \in Nat
    BY <2>1, FS_CardinalityType
  <2> QED
    BY <1>1, <2>1, <2>2, LoginAssumption
<1> QED
  BY <1>1, <1>2

\* The step of one attempt.
LEMMA OneIsSpent ==
  ASSUME LoginTyped, LoginBounded, NEW n \in Inits, NEW a \in Attempt,
         attempts' = [attempts EXCEPT ![n] = a],
         attempts[n].at # "done", attempts[n].loop => a.loop \/ a.at = "done",
         \/ generation' = generation
         \/ generation' = generation + 1 /\ ~attempts[n].loop /\ a.loop,
         a.gen <= generation'
  PROVE  /\ generation' <= Cardinality(Spent')
         /\ \A m \in Inits : attempts'[m].gen <= generation'
<1>1. /\ attempts'[n] = a /\ attempts' \in [Inits -> Attempt]
      /\ \A m \in Inits : m # n => attempts'[m] = attempts[m]
  BY OneAttempt
<1>2. generation \in Nat /\ \A m \in Inits : attempts[m].gen \in Nat
  BY DEF LoginTyped, Attempt
<1>3. \A m \in Inits : attempts'[m].gen <= generation'
  BY <1>1, <1>2 DEF LoginBounded
<1>4. Spent \in SUBSET Inits /\ Spent' \in SUBSET Inits
  BY DEF Spent
<1>5. CASE generation' = generation
  <2>1. Spent \subseteq Spent'
    BY <1>1 DEF Spent
  <2>2. Cardinality(Spent) <= Cardinality(Spent')
    BY <1>4, <2>1, SpentCounts, FS_Subset
  <2>3. Cardinality(Spent) \in Nat /\ Cardinality(Spent') \in Nat
    BY <1>4, SpentCounts
  <2> QED
    BY <1>2, <1>3, <1>5, <2>2, <2>3 DEF LoginBounded
<1>6. CASE generation' = generation + 1 /\ ~attempts[n].loop /\ a.loop
  <2>1. n \notin Spent /\ Spent' = Spent \cup {n}
    BY <1>1, <1>6 DEF Spent
  <2>2. Cardinality(Spent') = Cardinality(Spent) + 1
    BY <1>4, <2>1, SpentCounts, FS_AddElement
  <2>3. Cardinality(Spent) \in Nat
    BY <1>4, SpentCounts
  <2> QED
    BY <1>2, <1>3, <1>6, <2>2, <2>3 DEF LoginBounded
<1> QED
  BY <1>5, <1>6

LEMMA FailedBounded ==
  ASSUME LoginTyped, LoginBounded, NEW n \in Inits, attempts[n].at # "done", Failed(n)
  PROVE  /\ generation' <= Cardinality(Spent')
         /\ \A m \in Inits : attempts'[m].gen <= generation'
<1>1. attempts[n] \in Attempt /\ attempts[n].gen <= generation /\ generation \in Nat
  BY DEF LoginTyped, LoginBounded
<1>2. CASE attempts[n].loop
  <2> DEFINE a == [attempts[n] EXCEPT !.at = "sleep"]
  <2>1. a \in Attempt /\ a.loop = attempts[n].loop /\ a.gen = attempts[n].gen
    BY <1>1 DEF Attempt
  <2>2. attempts' = [attempts EXCEPT ![n] = a] /\ generation' = generation
    BY <1>2 DEF Failed
  <2> HIDE DEF a
  <2> QED
    BY <1>1, <1>2, <2>1, <2>2, OneIsSpent
<1>3. CASE ~attempts[n].loop
  <2> DEFINE a == [at |-> "sleep", conn |-> NoConnection, loop |-> TRUE, gen |-> generation']
  <2>1. attempts' = [attempts EXCEPT ![n] = a] /\ generation' = generation + 1
    BY <1>3 DEF Failed
  <2>2. a \in Attempt /\ a.loop /\ a.gen = generation'
    BY <1>1, <2>1 DEF Attempt, Conns
  <2>3. a.gen <= generation'
    BY <1>1, <2>1, <2>2
  <2> HIDE DEF a
  <2> QED
    BY <1>1, <1>3, <2>1, <2>2, <2>3, OneIsSpent
<1> QED
  BY <1>2, <1>3

LEMMA LoginBoundedStep == LoginInv /\ LoginBounded /\ [LoginNext]_loginVars => LoginBounded'
<1> SUFFICES ASSUME LoginInv, LoginBounded, [LoginNext]_loginVars PROVE LoginBounded'
  OBVIOUS
<1>0. LoginTyped /\ generation \in Nat /\ MaxSaves \in Nat /\ MaxOutages \in Nat
  BY LoginAssumption DEF LoginInv, LoginTyped
<1>1. /\ saves' \in 0..MaxSaves /\ outages' \in 0..MaxOutages
      /\ reachable' \in BOOLEAN /\ available' \in BOOLEAN /\ raced' \in BOOLEAN
  <2>1. /\ saves \in 0..MaxSaves /\ outages \in 0..MaxOutages
        /\ reachable \in BOOLEAN /\ available \in BOOLEAN /\ raced \in BOOLEAN
    BY DEF LoginBounded
  <2>2. saves' \in 0..MaxSaves
    <3>1. saves' = saves \/ (saves < MaxSaves /\ saves' = saves + 1)
      <4>1. CASE \E c \in Connections \cup {NoConnection} : SaveConnection(c)
        BY <4>1 DEF SaveConnection
      <4>2. CASE \E n \in Inits : ReadConnection(n) \/ FetchCert(n) \/ Retry(n)
        BY <4>2 DEF ReadConnection, FetchCert, Retry
      <4>3. CASE Outage \/ UNCHANGED loginVars
        BY <4>3 DEF Outage, loginVars
      <4> QED
        BY <4>1, <4>2, <4>3 DEF LoginNext
    <3> QED
      BY <1>0, <2>1, <3>1
  <2>3. outages' \in 0..MaxOutages
    <3>1. outages' = outages \/ (outages < MaxOutages /\ outages' = outages + 1)
      <4>1. CASE \E c \in Connections \cup {NoConnection} : SaveConnection(c)
        BY <4>1 DEF SaveConnection
      <4>2. CASE \E n \in Inits : ReadConnection(n) \/ FetchCert(n) \/ Retry(n)
        BY <4>2 DEF ReadConnection, FetchCert, Retry
      <4>3. CASE Outage \/ UNCHANGED loginVars
        BY <4>3 DEF Outage, loginVars
      <4> QED
        BY <4>1, <4>2, <4>3 DEF LoginNext
    <3> QED
      BY <1>0, <2>1, <3>1
  <2>4. reachable' \in BOOLEAN
    BY <2>1, Zenon DEF LoginNext, SaveConnection, ReadConnection, FetchCert, Retry, Outage, loginVars
  <2>5. available' \in BOOLEAN
    BY <2>1, Zenon DEF LoginNext, SaveConnection, ReadConnection, FetchCert, Retry, Outage, Failed,
       loginVars
  <2>6. raced' \in BOOLEAN
    BY <2>1, Zenon DEF LoginNext, SaveConnection, ReadConnection, FetchCert, Retry, Outage, loginVars
  <2> QED
    BY <2>2, <2>3, <2>4, <2>5, <2>6
<1>2. /\ generation' <= Cardinality(Spent')
      /\ \A m \in Inits : attempts'[m].gen <= generation'
  <2>1. ASSUME NEW n \in Inits, NEW at \in {"begin", "fetch"}, NEW conn \in Conns,
               attempts[n].at # "done", generation' = generation,
               attempts' = [attempts EXCEPT ![n].at = at, ![n].conn = conn]
        PROVE  <1>2!:
    <3> DEFINE a == [attempts[n] EXCEPT !.at = at, !.conn = conn]
    <3>1. attempts[n] \in Attempt /\ attempts[n].gen <= generation
      BY <1>0 DEF LoginTyped, LoginBounded
    <3>2. a \in Attempt /\ a.loop = attempts[n].loop /\ a.gen = attempts[n].gen
      BY <3>1 DEF Attempt
    <3>3. attempts' = [attempts EXCEPT ![n] = a]
      BY <1>0, <2>1 DEF LoginTyped
    <3> HIDE DEF a
    <3> QED
      BY <1>0, <2>1, <3>1, <3>2, <3>3, OneIsSpent
  <2>2. ASSUME NEW n \in Inits, attempts[n].at # "done", generation' = generation,
               attempts' = [attempts EXCEPT ![n] = [NotYet EXCEPT !.at = "done"]]
        PROVE  <1>2!:
    <3> DEFINE a == [NotYet EXCEPT !.at = "done"]
    <3>1. a \in Attempt /\ a.at = "done" /\ a.gen = 0 /\ attempts' = [attempts EXCEPT ![n] = a]
      BY <2>2, Idle DEF NotYet
    <3>2. a.gen <= generation'
      BY <1>0, <2>2, <3>1
    <3> HIDE DEF a
    <3> QED
      BY <1>0, <2>2, <3>1, <3>2, OneIsSpent
  <2>3. ASSUME NEW n \in Inits, attempts[n].at # "done", generation' = generation,
               attempts' = [attempts EXCEPT ![n].at = "begin"]
        PROVE  <1>2!:
    <3> DEFINE a == [attempts[n] EXCEPT !.at = "begin"]
    <3>1. attempts[n] \in Attempt /\ attempts[n].gen <= generation
      BY <1>0 DEF LoginTyped, LoginBounded
    <3>2. a \in Attempt /\ a.loop = attempts[n].loop /\ a.gen = attempts[n].gen
      BY <3>1 DEF Attempt
    <3>3. attempts' = [attempts EXCEPT ![n] = a]
      BY <2>3
    <3> HIDE DEF a
    <3> QED
      BY <1>0, <2>3, <3>1, <3>2, <3>3, OneIsSpent
  <2>4. CASE \E c \in Connections \cup {NoConnection} : SaveConnection(c)
    <3>1. /\ saves < MaxSaves /\ generation' = generation
          /\ attempts' = [attempts EXCEPT ![saves + 1].at = "begin"]
      BY <2>4 DEF SaveConnection
    <3>2. saves + 1 \in Inits /\ saves + 1 > saves
      BY <1>0, <3>1 DEF LoginBounded, Inits
    <3>3. attempts[saves + 1].at = "none"
      BY <3>2 DEF LoginInv, NotBegun
    <3> QED
      BY <2>3, <3>1, <3>2, <3>3
  <2>5. ASSUME NEW n \in Inits, ReadConnection(n) PROVE <1>2!:
    <3>1. CASE casdoor = NoConnection
      BY <1>0, <2>5, <3>1, FailedBounded DEF ReadConnection
    <3>2. CASE casdoor # NoConnection
      <4>1. /\ attempts' = [attempts EXCEPT ![n].at = "fetch", ![n].conn = casdoor]
            /\ generation' = generation /\ attempts[n].at # "done" /\ casdoor \in Conns
        BY <1>0, <2>5, <3>2 DEF ReadConnection, LoginTyped
      <4> QED
        BY <2>1, <4>1
    <3> QED
      BY <3>1, <3>2
  <2>6. ASSUME NEW n \in Inits, FetchCert(n) PROVE <1>2!:
    <3>1. CASE reachable
      BY <2>2, <2>6, <3>1 DEF FetchCert
    <3>2. CASE ~reachable
      BY <1>0, <2>6, <3>2, FailedBounded DEF FetchCert
    <3> QED
      BY <3>1, <3>2
  <2>7. ASSUME NEW n \in Inits, Retry(n) PROVE <1>2!:
    BY <2>2, <2>3, <2>7 DEF Retry
  <2>8. CASE Outage \/ UNCHANGED loginVars
    BY <2>8 DEF Outage, loginVars, LoginBounded, Spent
  <2> QED
    BY <2>4, <2>5, <2>6, <2>7, <2>8 DEF LoginNext
<1> QED
  BY <1>1, <1>2 DEF LoginBounded

\* The types of the login's variables: there are no more retry generations
\* than calls of InitConfig, for any numbers of saves and outages.
THEOREM LoginTypesHold == LoginSpec => []LoginTypeOK
<1>1. LoginInit => LoginBounded
  <2> SUFFICES ASSUME LoginInit PROVE LoginBounded
    OBVIOUS
  <2>1. generation = 0 /\ \A n \in Inits : attempts[n].gen = 0
    BY DEF LoginInit, NotYet
  <2>2. Cardinality(Spent) \in Nat
    BY SpentCounts DEF Spent
  <2>3. generation <= Cardinality(Spent) /\ \A n \in Inits : attempts[n].gen <= generation
    BY <2>1, <2>2
  <2>4. saves \in 0..MaxSaves /\ outages \in 0..MaxOutages
    BY LoginAssumption DEF LoginInit
  <2>5. reachable \in BOOLEAN /\ available \in BOOLEAN /\ raced \in BOOLEAN
    BY Zenon DEF LoginInit
  <2> QED
    BY <2>3, <2>4, <2>5 DEF LoginBounded
<1>2. LoginInv /\ LoginBounded => LoginTypeOK
  <2> SUFFICES ASSUME LoginInv, LoginBounded PROVE LoginTypeOK
    OBVIOUS
  <2>1. generation \in 0 .. MaxSaves + 1
    <3>1. Cardinality(Spent) \in 0 .. MaxSaves + 1
      BY SpentCounts DEF Spent
    <3> QED
      BY <3>1, LoginAssumption DEF LoginInv, LoginTyped, LoginBounded
  <2>2. ASSUME NEW n \in Inits
        PROVE  attempts[n] \in [at : {"none", "begin", "fetch", "sleep", "done"},
                                conn : Connections \cup {NoConnection}, loop : BOOLEAN,
                                gen : 0 .. MaxSaves + 1]
    <3>1. attempts[n] \in Attempt
      BY DEF LoginInv, LoginTyped
    <3>2. attempts[n].gen \in 0 .. MaxSaves + 1
      BY <2>1, <3>1, LoginAssumption DEF LoginBounded, Attempt
    <3> QED
      BY <3>1, <3>2 DEF Attempt, Conns
  <2> QED
    BY <2>1, <2>2 DEF LoginInv, LoginTyped, LoginBounded, LoginTypeOK, Conns
<1> QED
  BY <1>1, <1>2, LoginBoundedStep, LoginInvInit, LoginInvStep, PTL DEF LoginSpec
=============================================================================
