--------------------------- MODULE MCEnforcement ---------------------------
(* Two instances in one run, too large to be checked as one: in "request"   *)
(* an agent asks while a single toggle runs, with one crash; in "toggle"    *)
(* two toggles run, with two crashes and a failed write, and nobody asks.   *)
EXTENDS MCPolicyEnforcement

CONSTANTS t2

VARIABLE part

MCInit == Init /\ part \in {"request", "toggle"}

MCNext ==
  /\ UNCHANGED part
  /\ Next
  /\ part = "request" => toggle'[t2] = IdleToggle /\ crashes' <= 1 /\ fails' = 0
  /\ part = "toggle" => request' = request /\ client' = client

MCSpec == MCInit /\ [][MCNext]_<<part, vars>>
=============================================================================
