------------------------ MODULE MCIncidentOperations ------------------------
(* Instances for TLC: two requests at a time on two incidents, and task      *)
(* numbers that run out.                                                     *)
EXTENDS IncidentOperations, TLC

CONSTANTS i1, i2, s1, s2

Alike == Permutations(Incidents) \union Permutations(Sessions)
=============================================================================
