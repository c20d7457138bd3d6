-------------------------- MODULE IncidentDecision --------------------------
(***************************************************************************)
(* What the watcher promises on its own, without notifications: each       *)
(* incident of a registered slice gets one decision, a grant or a denial,  *)
(* and keeps it.  Denials may come in batches (a reaped or failed slice).  *)
(***************************************************************************)
EXTENDS Naturals

CONSTANT Incidents

VARIABLE outcome   \* <<grants, denials>> received for each incident

Undecided == <<0, 0>>
Granted   == <<1, 0>>
Denied    == <<0, 1>>

DecisionInit == outcome = [i \in Incidents |-> Undecided]

Decide(S, o) ==
  /\ \A i \in S : outcome[i] = Undecided
  /\ outcome' = [i \in Incidents |-> IF i \in S THEN o ELSE outcome[i]]

DecisionNext ==
  \/ \E i \in Incidents : Decide({i}, Granted)
  \/ \E S \in SUBSET Incidents : Decide(S, Denied)

DecisionSpec == DecisionInit /\ [][DecisionNext]_outcome
=============================================================================
