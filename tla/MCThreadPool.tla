---------------------------- MODULE MCThreadPool ----------------------------
(***************************************************************************)
(* ThreadPool on small instances: the functions on tasks, for TLC.         *)
(***************************************************************************)
EXTENDS ThreadPool

CONSTANTS a, b, c, tagA

Untagged == [t \in Task |-> NoTag]
AllTagged == [t \in Task |-> tagA]
ATagged == [t \in Task |-> IF t = a THEN tagA ELSE NoTag]
NoSpawns == [t \in Task |-> {}]
ASpawnsB == [t \in Task |-> IF t = a THEN {b} ELSE {}]
=============================================================================
