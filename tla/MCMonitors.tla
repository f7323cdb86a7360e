----------------------------- MODULE MCMonitors -----------------------------
(* The three log monitors.  They share nothing, so a behaviour is one of    *)
(* any of them, and the others stand still; part says which.                *)
EXTENDS MCRolloutMonitor, OpenAgentMonitor, CoworkMonitor

VARIABLE part

MCVars == <<part, vars, auditVars, coworkVars>>

MCInit ==
  /\ part \in {"rollout", "audit", "cowork"}
  /\ Init /\ AuditInit /\ CoworkInit

MCNext ==
  /\ UNCHANGED part
  /\ \/ part = "rollout" /\ Next /\ UNCHANGED <<auditVars, coworkVars>>
     \/ part = "audit" /\ AuditNext /\ UNCHANGED <<vars, coworkVars>>
     \/ part = "cowork" /\ CoworkNext /\ UNCHANGED <<vars, auditVars>>

MCSpec == MCInit /\ [][MCNext]_MCVars

\* One log of each kind; the two OpenAgent claims are on its directory, the
\* two installations of Claude Desktop in one profile.
MCAuditDirOf == [x \in AuditFiles \cup AuditClaims |-> CHOOSE d \in AuditDirs : TRUE]
MCProfileOf == [x \in CoworkLogs \cup Installs |-> CHOOSE p \in Profiles : TRUE]

\* A denied tool call without a session, a session event that is no record but
\* names its session; a call and the result that answers it.
MCAuditEntries ==
  { [type |-> "tool_call", named |-> TRUE, denied |-> TRUE, session |-> Unnamed],
    [type |-> "session", named |-> FALSE, denied |-> FALSE, session |-> "s1"] }
MCCoworkEntries ==
  [f \in CoworkLogs |-> { [kind |-> "tool_use", id |-> "c"], [kind |-> "tool_result", id |-> "c"] }]
=============================================================================
