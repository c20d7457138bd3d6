-------------------------- MODULE MCResponseAgent --------------------------
(* Instances for TLC.  Cluster d1 is mapped to an MSISDN, d2 is a desert cluster *)
(* that is not, d3 is no desert cluster.                                        *)
EXTENDS ResponseAgent, TLC

CONSTANTS r1, r2, r3, d1, d2, d3, p1

OnRuns(f) == [r \in Runs |-> f[r]]

\* One run per kind of device; the middle tier for the unmapped one.  The first and
\* the last were granted one slice, the second was denied.
EachKindCluster  == OnRuns(r1 :> d1 @@ r2 :> d2 @@ r3 :> d3)
EachKindTier     == OnRuns(r1 :> 3 @@ r2 :> 2 @@ r3 :> 1)
SharedSlice      == OnRuns(r1 :> p1 @@ r2 :> None @@ r3 :> p1)

AllFaults   == {"probe", "body", "chain", "valve", "release", "late", "sink"}
NoProbe     == {"probe"}
=============================================================================
