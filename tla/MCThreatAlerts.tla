--------------------------- MODULE MCThreatAlerts ---------------------------
(* Instances for TLC: a batch may hold two windows of one cluster, as the    *)
(* request model allows, and need not hold every cluster.                    *)
EXTENDS ThreatAlerts

CONSTANTS c1, c2, listener, api

TwoOfOne    == {<<c1, 1>>, <<c1, 2>>}
OneWindow   == {<<c1, 1>>}
FullBatch   == {Windows}
=============================================================================
