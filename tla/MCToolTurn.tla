----------------------------- MODULE MCToolTurn -----------------------------
(* Instances of ToolTurn for TLC: directories a, a/b and c, a file in a/b  *)
(* and one in c.                                                           *)
EXTENDS ToolTurn, MCPatch
CONSTANTS dirA, dirAB, dirC, root

MCDirs == {dirA, dirAB, dirC}
MCDepth == [d \in MCDirs |-> IF d = dirAB THEN 2 ELSE 1]
MCDirOf == [p \in Paths |-> IF p = f THEN {dirA, dirAB} ELSE IF p = g THEN {dirC} ELSE {}]
MCTouches == {{}, {dirA}, {dirA, dirAB}, {dirC}}
=============================================================================
