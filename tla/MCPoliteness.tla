---------------------------- MODULE MCPoliteness ----------------------------
(* Small instances of Politeness for TLC. *)
EXTENDS Politeness, TLC

CONSTANTS a1, a2, a3, A

MCTasks    == {a1, a2, a3}
MCDomains  == {A}
MCSite     == [t \in MCTasks |-> A]
OneRefused == {a3}
=============================================================================
