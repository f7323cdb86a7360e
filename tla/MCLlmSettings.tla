--------------------------- MODULE MCLlmSettings ---------------------------
(* Claude Code installations of one owner, which share settings.json.       *)
EXTENDS LlmSettings, TLC

CONSTANTS shared, code

MCConfigOf == [i \in Installs |-> shared]
MCAgentOf == [i \in Installs |-> code]

\* The providers do not differ in anything.
MCSymmetry == Permutations(Providers)
=============================================================================
