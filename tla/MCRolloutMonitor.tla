-------------------------- MODULE MCRolloutMonitor --------------------------
(* Two agents, each with a claim, that share one sessions directory; the    *)
(* files are the desktop agent's.                                           *)
EXTENDS RolloutMonitor

CONSTANTS root, desktop, cli, claimDesktop, claimCli

MCFileRoot == [f \in Files |-> root]
MCFileAgent == [f \in Files |-> desktop]
MCClaimRoot == [c \in Claims |-> root]
MCClaimAgent == [c \in Claims |-> IF c = claimCli THEN cli ELSE desktop]
MCKinds == {"end", "call", "output"}
MCTurnKinds == {"turn", "message"}
=============================================================================
