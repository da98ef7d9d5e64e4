---------------------------- MODULE MCUnitLaunch ----------------------------
(***************************************************************************)
(* TLC instances of UnitLaunch.                                            *)
(***************************************************************************)
EXTENDS UnitLaunch, TLC

CONSTANTS u1, u2, u3, u4, u5

\* u2, which expand adds, builds on u1; u4 waits for u2 and for u3, the controller, which has no
\* branch; u5 builds on u3 and waits for u2.
NoEdges == [u \in {u1, u2, u3, u4, u5} |-> {}]
BuildsOn == [NoEdges EXCEPT ![u2] = {u1}, ![u5] = {u3}]
WaitsFor == [NoEdges EXCEPT ![u4] = {u2, u3}, ![u5] = {u2}]
=============================================================================
