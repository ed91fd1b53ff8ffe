----------------------------- MODULE MCJobQueue -----------------------------
(* Instances of JobQueue for TLC.                                          *)
EXTENDS JobQueue, TLC

CONSTANTS j1, j2, p1, p2

\* Two jobs of different priority of which one gets two attempts and the other one.
MCPriority == [j \in Jobs |-> IF j = j1 THEN 1 ELSE 0]
MCMaxRetries == [j \in Jobs |-> IF j = j1 THEN 2 ELSE 1]
=============================================================================
