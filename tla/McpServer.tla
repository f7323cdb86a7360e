----------------------------- MODULE McpServer -----------------------------
(* The MCP server Claude Desktop launches, mcpserver/mcpserver.go: it reads *)
(* one message at a time, queues a record of each for a single reporting    *)
(* worker, asks aiguard before it acknowledges a reported action, and       *)
(* drains the queue when the agent closes the connection.                   *)
(*                                                                          *)
(* aiguard stops and starts as it likes: a post to it succeeds, fails, or   *)
(* times out, and one that times out may still be carried out later.        *)
EXTENDS Integers, Sequences, FiniteSets, SequencesExt

CONSTANTS
  QueueDepth,       \* reportQueueDepth
  Guarded,          \* the server was given an enforce URL
  MaxMessages       \* bound: messages of a session

ASSUME McpAssumption ==
  QueueDepth \in Nat \ {0} /\ Guarded \in BOOLEAN /\ MaxMessages \in Nat

VARIABLES
  mcp,              \* "new", "reading", "asking", "replying", "draining", "exited"
  messages,         \* how many messages were read
  reports,          \* how many records were made, numbered in that order
  queue,            \* the numbers waiting to be posted
  posting,          \* the number being posted: at most one
  posted,           \* those the worker is done with, in that order
  received,         \* those aiguard has stored
  dropped           \* those that did not fit, with what was waiting then

mcpVars == <<mcp, messages, reports, queue, posting, posted, received, dropped>>
workerVars == <<posting, posted, received>>

-----------------------------------------------------------------------------
(* The session.                                                             *)

\* Mutant: the depth is tested after the record is queued.
ReportOneMore ==
  /\ reports' = reports + 1
  /\ IF Len(queue) <= QueueDepth
     THEN queue' = Append(queue, reports') /\ UNCHANGED dropped
     ELSE dropped' = dropped \cup {[n |-> reports', waiting |-> Len(queue)]} /\ UNCHANGED queue

\* report: never blocks; a record that does not fit is dropped.
Report ==
  /\ reports' = reports + 1
  /\ IF Len(queue) < QueueDepth
     THEN queue' = Append(queue, reports') /\ UNCHANGED dropped
     ELSE dropped' = dropped \cup {[n |-> reports', waiting |-> Len(queue)]} /\ UNCHANGED queue

StartSession ==
  /\ mcp = "new" /\ mcp' = "reading"
  /\ Report
  /\ UNCHANGED <<messages, workerVars>>

\* A malformed message or a notification takes no reply; a reported action is
\* answered once aiguard was asked about it.
ReadMessage ==
  /\ mcp = "reading" /\ messages < MaxMessages
  /\ messages' = messages + 1
  /\ mcp' \in {"reading", "replying", "asking"}
  /\ Report
  /\ UNCHANGED workerVars

\* enforce: aiguard answers or the HTTP client gives up; without an enforce
\* URL the action is only reported.
Ask ==
  /\ mcp = "asking" /\ mcp' = "replying"
  /\ IF Guarded THEN UNCHANGED <<reports, queue, dropped>> ELSE Report
  /\ UNCHANGED <<messages, workerVars>>

Reply ==
  /\ mcp = "replying" /\ mcp' = "reading"
  /\ UNCHANGED <<messages, reports, queue, dropped, workerVars>>

\* The agent closes the connection, or a reply cannot be written to it.
CloseSession ==
  /\ mcp \in {"reading", "replying"} /\ mcp' = "draining"
  /\ Report
  /\ UNCHANGED <<messages, workerVars>>

\* Mutant: the session waits until every record has arrived.
AllArrived == queue = <<>> /\ posting = {} /\ ToSet(posted) \subseteq received

Drained == queue = <<>> /\ posting = {}
Exit ==
  /\ mcp = "draining" /\ Drained
  /\ mcp' = "exited"
  /\ UNCHANGED <<messages, reports, queue, dropped, workerVars>>

-----------------------------------------------------------------------------
(* The reporting worker.                                                    *)

TakeReport ==
  /\ posting = {} /\ queue # <<>>
  /\ posting' = {Head(queue)} /\ queue' = Tail(queue)
  /\ UNCHANGED <<mcp, messages, reports, dropped, posted, received>>

\* Mutant: a post that failed is tried again later.
PostReportAgain ==
  \E n \in posting :
    /\ posting' = {}
    /\ \/ posted' = Append(posted, n) /\ received' = received \cup {n} /\ UNCHANGED queue
       \/ queue' = Append(queue, n) /\ UNCHANGED <<posted, received>>
    /\ UNCHANGED <<mcp, messages, reports, dropped>>

\* A post succeeds or not; the next one follows either way.
PostReport ==
  \E n \in posting :
    /\ posting' = {} /\ posted' = Append(posted, n)
    /\ received' \in {received, received \cup {n}}
    /\ UNCHANGED <<mcp, messages, reports, dropped, queue>>

\* A post that timed out is carried out by aiguard after all.
ArriveLate(n) ==
  /\ n \in ToSet(posted) \ received
  /\ received' = received \cup {n}
  /\ UNCHANGED <<mcp, messages, reports, dropped, queue, posting, posted>>

McpInit ==
  /\ mcp = "new" /\ messages = 0 /\ reports = 0 /\ dropped = {}
  /\ queue = <<>> /\ posting = {} /\ posted = <<>> /\ received = {}

McpNext ==
  \/ StartSession \/ ReadMessage \/ Ask \/ Reply \/ CloseSession \/ Exit
  \/ TakeReport \/ PostReport
  \/ \E n \in 1..reports : ArriveLate(n)

\* The server and its worker go on while they can: a reply is written or
\* fails, and the HTTP client ends every post after reportTimeout.  Nothing
\* is assumed of the agent or of aiguard.
McpFairness ==
  /\ WF_mcpVars(StartSession) /\ WF_mcpVars(Ask) /\ WF_mcpVars(Reply \/ CloseSession)
  /\ WF_mcpVars(Exit) /\ WF_mcpVars(TakeReport) /\ WF_mcpVars(PostReport)

McpSpec == McpInit /\ [][McpNext]_mcpVars /\ McpFairness

-----------------------------------------------------------------------------
(* Properties.                                                              *)

\* The types of the variables; the queue never exceeds its depth.
McpTypeOK ==
  /\ mcp \in {"new", "reading", "asking", "replying", "draining", "exited"}
  /\ messages \in 0..MaxMessages /\ reports \in Nat
  /\ queue \in Seq(1..reports) /\ Len(queue) <= QueueDepth
  /\ posting \subseteq 1..reports /\ Cardinality(posting) <= 1
  /\ posted \in Seq(1..reports) /\ received \subseteq 1..reports
  /\ dropped \subseteq [n : 1..reports, waiting : Nat]

\* Records are posted once each, in the order things happened; none is
\* forgotten - it waits, was posted or did not fit into a full queue - and none
\* is left waiting when the process ends (mcpserver.go:92-96, 153-154).
ReportsKeepTheirOrder ==
  /\ \A i \in 1..Len(posted), j \in 1..Len(posted) : i < j => posted[i] < posted[j]
  /\ 1..reports = ToSet(posted) \cup posting \cup ToSet(queue) \cup {d.n : d \in dropped}
  /\ \A d \in dropped : d.waiting = QueueDepth /\ d.n \notin ToSet(posted)
  /\ mcp = "exited" => Cardinality(received) <= Len(posted)
                       /\ Len(posted) = reports - Cardinality(dropped)

\* Whether aiguard answers or not, the agent gets every reply or an ended
\* session, and a closed session ends (mcpserver.go:262-266, 342-344).
SessionGoesOn ==
  /\ mcp \in {"new", "asking", "replying"} ~> mcp \in {"reading", "exited"}
  /\ mcp = "draining" ~> mcp = "exited"
=============================================================================
