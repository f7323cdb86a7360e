--------------------------- MODULE MCCodexSwitch ---------------------------
(* A config.toml to which the operator adds a table with a comment above    *)
(* it, and a switch to a relay and back.                                    *)
EXTENDS CodexSwitch
NL == "\n"
MCRelays == {[key |-> "k1", model |-> "m1", url |-> "u1"]}
MCDocuments == { <<>>, << <<"[", "mcp", "]", NL>>, <<"cmd", "=", "x">> >> }
MCRemarks == { << <<"#", "mine", NL>>, <<"[", "tools", "]", NL>> >> }
=============================================================================
