---------------------------- MODULE MCPruneFleet ----------------------------
EXTENDS PruneFleet

CONSTANTS p1, p2

TwoPods == {p1, p2}
Drifted == [p \in Pods |-> IF p = p1 THEN 1 ELSE 0]
NobodysFuture == -MaxLatency
=============================================================================
