--------------------------- MODULE MCPatchJournal ---------------------------
(* Two OpenClaw installations of one owner, which share openclaw.json and   *)
(* the hook directory.                                                      *)
EXTENDS PatchJournal, TLC

CONSTANTS config, handler, hooks

MCInDir == [f \in Files |-> IF f = handler THEN hooks ELSE NoDir]
MCHookDir == [t \in Targets |-> hooks]
MCLayout == [t \in Targets |-> <<handler, config>>]

\* The installations have the same layout.
MCSymmetry == Permutations(Targets)
=============================================================================
