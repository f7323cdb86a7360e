------------------------ MODULE MCPolicyEnforcement ------------------------
(* Two sets guarding agent a; a second agent, b, that nothing guards.       *)
EXTENDS PolicyEnforcement

CONSTANTS denyA, allowA, broken, a, b, op

MCSets == {1, 2}
MCTexts == {denyA, allowA, broken}
MCSubject == [t \in Texts |-> a]
MCDenies == [t \in Texts |-> IF t = denyA THEN {op} ELSE {}]
MCSetAgent == [s \in Sets |-> a]
=============================================================================
