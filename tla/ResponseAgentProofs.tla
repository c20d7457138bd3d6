------------------------ MODULE ResponseAgentProofs ------------------------
(***************************************************************************)
(* Proofs about ResponseAgent for any runs, devices, paths, pool size and  *)
(* faults.  IInv is the inductive invariant:                               *)
(*   RunInv    what a run's control point says about its decision, its     *)
(*             command and its path;                                       *)
(*   ValveInv  a closed valve has a run that commanded it;                 *)
(*   LogInv    an entry is the record of its run as it still stands, and   *)
(*             its run is past the audit, with all it was to do done.      *)
(***************************************************************************)
EXTENDS ResponseAgent, TLAPS

DecidedNodes == {"execute", "command", "emergency", "override", "release", "audit",
                 "publish", "done"}
ActedNodes   == {"override", "release", "audit", "publish", "done"}
Isolates(r)  == decision[r] = "autonomous_isolate"

RunOK(r) ==
  /\ pc[r] \in DecidedNodes => decision[r] \in Decisions
  /\ Isolates(r) => r \in reachable /\ Tier[r] = 3
  /\ pc[r] \in {"command", "emergency"} => Isolates(r)
  /\ pc[r] = "emergency" => r \in sent
  /\ r \in sent => Isolates(r) /\ pc[r] \notin {"queued", "check", "plan", "execute", "command"}
  /\ pc[r] \in ActedNodes /\ Isolates(r) => r \in sent
  /\ r \in sent => r \in confirmed \/ Accounted(r)
  /\ r \in confirmed => r \in sent /\ Cluster[r] \in closed
  /\ r \in inflight => r \in sent
  /\ pc[r] \in ActedNodes \ {"override"} /\ Isolates(r) => override[r] # "none"
  /\ r \in released => Grant[r] \notin held
  /\ broke[r] # "none" => pc[r] = "failed"

RunInv == \A r \in Runs : RunOK(r)

ValveInv == \A d \in closed : \E r \in sent : Cluster[r] = d

LogInv ==
  \A e \in audit :
    /\ e = EntryOf(e.run)
    /\ pc[e.run] \in {"publish", "done", "failed"}
    /\ Isolates(e.run) => e.run \in sent /\ override[e.run] # "none"

IInv == TypeOK /\ RunInv /\ ValveInv /\ LogInv

-----------------------------------------------------------------------------
(* The entry of a run that is at the audit node is well formed. *)
LEMMA EntryType == ASSUME TypeOK, RunInv, NEW r \in Runs, WriteAudit(r) PROVE EntryOf(r) \in Entry
<1>1. decision[r] \in Decisions
  BY DEF RunInv, RunOK, WriteAudit, DecidedNodes
<1>2. override[r] \in Answers
  BY DEF TypeOK
<1> QED
  BY <1>1, <1>2 DEF EntryOf, Entry

(* Every step keeps the types. *)
LEMMA TypeStep == TypeOK /\ RunInv /\ [Next]_vars => TypeOK'
<1> SUFFICES ASSUME TypeOK, RunInv, [Next]_vars PROVE TypeOK'
  OBVIOUS
<1> USE ClusterAssumption, TierAssumption, GrantAssumption DEF TypeOK, Nodes, Decisions, Answers, Calls
<1>1. ASSUME NEW r \in Runs, Start(r) PROVE TypeOK'
  BY <1>1 DEF Start, Goto, checks, messages, commands, network, ended
<1>2. ASSUME NEW r \in Runs, CheckSkipped(r) PROVE TypeOK'
  BY <1>2 DEF CheckSkipped, Goto, checks, messages, commands, network, ended
<1>3. ASSUME NEW r \in Runs, CheckAnswered(r) PROVE TypeOK'
  BY <1>3 DEF CheckAnswered, Goto, checks, messages, commands, network, ended
<1>4. ASSUME NEW r \in Runs, CheckUnanswered(r) PROVE TypeOK'
  BY <1>4 DEF CheckUnanswered, Goto, checks, messages, commands, network, ended
<1>5. ASSUME NEW r \in Runs, CheckRaises(r) PROVE TypeOK'
  BY <1>5 DEF CheckRaises, Breaks, Goto, checks, messages, commands, network, ended
<1>6. ASSUME NEW r \in Runs, Plan(r) PROVE TypeOK'
  <2>1. PICK proposed \in Decisions : decision' = [decision EXCEPT ![r] = EnforceGuardrails(proposed, Tier[r], r \in reachable)]
    BY <1>6 DEF Plan
  <2>2. EnforceGuardrails(proposed, Tier[r], r \in reachable) \in Decisions
    BY DEF EnforceGuardrails
  <2> QED
    BY <1>6, <2>1, <2>2 DEF Plan, Goto, checks, messages, commands, network, ended
<1>7. ASSUME NEW r \in Runs, PlanRaises(r) PROVE TypeOK'
  BY <1>7 DEF PlanRaises, Breaks, Goto, checks, messages, commands, network, ended
<1>8. ASSUME NEW r \in Runs, ExecuteLog(r) PROVE TypeOK'
  BY <1>8 DEF ExecuteLog, Goto, checks, messages, commands, network, ended
<1>9. ASSUME NEW r \in Runs, ExecuteNotify(r) PROVE TypeOK'
  BY <1>9 DEF ExecuteNotify, Goto, checks, messages, commands, network, ended
<1>10. ASSUME NEW r \in Runs, CommandConfirmed(r) PROVE TypeOK'
  BY <1>10 DEF CommandConfirmed, Goto, checks, messages, commands, network, ended
<1>11. ASSUME NEW r \in Runs, CommandUnconfirmed(r) PROVE TypeOK'
  BY <1>11 DEF CommandUnconfirmed, Goto, checks, messages, commands, network, ended
<1>12. ASSUME NEW r \in Runs, Emergency(r) PROVE TypeOK'
  BY <1>12 DEF Emergency, Goto, checks, messages, commands, network, ended
<1>13. ASSUME NEW r \in Runs, CommandArrives(r) PROVE TypeOK'
  BY <1>13 DEF CommandArrives, Goto, checks, messages, commands, network, ended
<1>14. ASSUME NEW r \in Runs, HumanOverride(r) PROVE TypeOK'
  BY <1>14 DEF HumanOverride, Goto, checks, messages, commands, network, ended
<1>15. ASSUME NEW r \in Runs, ReleaseSkipped(r) PROVE TypeOK'
  BY <1>15 DEF ReleaseSkipped, Goto, checks, messages, commands, network, ended
<1>16. ASSUME NEW r \in Runs, ReleaseConfirmed(r) PROVE TypeOK'
  BY <1>16 DEF ReleaseConfirmed, Goto, checks, messages, commands, network, ended
<1>17. ASSUME NEW r \in Runs, ReleaseUnconfirmed(r) PROVE TypeOK'
  BY <1>17 DEF ReleaseUnconfirmed, Goto, checks, messages, commands, network, ended
<1>18. ASSUME NEW r \in Runs, WriteAudit(r) PROVE TypeOK'
  <2>1. EntryOf(r) \in Entry
    BY <1>18, EntryType
  <2> QED
    BY <1>18, <2>1 DEF WriteAudit, Goto, checks, messages, commands, network, ended
<1>19. ASSUME NEW r \in Runs, WriteAuditRaises(r) PROVE TypeOK'
  BY <1>19 DEF WriteAuditRaises, Breaks, Goto, checks, messages, commands, network, ended
<1>20. ASSUME NEW r \in Runs, Publish(r) PROVE TypeOK'
  BY <1>20 DEF Publish, Goto, checks, messages, commands, network, ended
<1>22. ASSUME NEW r \in Runs, CommandRaises(r) PROVE TypeOK'
  BY <1>22 DEF CommandRaises, Breaks, Goto, checks, messages, commands, network, ended
<1>23. ASSUME NEW r \in Runs, ReleaseRaises(r) PROVE TypeOK'
  BY <1>23 DEF ReleaseRaises, Breaks, Goto, checks, messages, commands, network, ended
<1>24. ASSUME NEW r \in Runs, PublishRaises(r) PROVE TypeOK'
  BY <1>24 DEF PublishRaises, Breaks, Goto, checks, messages, commands, network, ended
<1>21. CASE UNCHANGED vars
  BY <1>21 DEF vars, checks, messages, commands, network, ended
<1> QED
  BY <1>1, <1>2, <1>3, <1>4, <1>5, <1>6, <1>7, <1>8, <1>9, <1>10, <1>11, <1>12, <1>13, <1>14, <1>15, <1>16, <1>17, <1>18, <1>19, <1>20, <1>21, <1>22, <1>23, <1>24
  DEF Next, Node

(* Every step keeps each run's record in line with its control point. *)
LEMMA RunStep == TypeOK /\ RunInv /\ [Next]_vars => RunInv'
<1> SUFFICES ASSUME TypeOK, RunInv, [Next]_vars, NEW q \in Runs PROVE RunOK(q)'
  BY DEF RunInv
<1>0. /\ RunOK(q)
      /\ pc \in [Runs -> Nodes] /\ decision \in [Runs -> Decisions \union {"none"}]
      /\ override \in [Runs -> Answers] /\ broke \in [Runs -> Calls \union {"none"}]
  BY DEF TypeOK, RunInv
<1> USE DEF RunOK, Nodes, Calls, Answers, DecidedNodes, ActedNodes, Isolates, Accounted, Goto,
            checks, messages, commands, network, ended
<1>1. ASSUME NEW r \in Runs, Start(r) PROVE RunOK(q)'
  BY <1>0, <1>1 DEF Start
<1>2. ASSUME NEW r \in Runs, CheckSkipped(r) PROVE RunOK(q)'
  BY <1>0, <1>2 DEF CheckSkipped
<1>3. ASSUME NEW r \in Runs, CheckAnswered(r) PROVE RunOK(q)'
  BY <1>0, <1>3 DEF CheckAnswered
<1>4. ASSUME NEW r \in Runs, CheckUnanswered(r) PROVE RunOK(q)'
  BY <1>0, <1>4 DEF CheckUnanswered
<1>5. ASSUME NEW r \in Runs, CheckRaises(r) PROVE RunOK(q)'
  BY <1>0, <1>5 DEF CheckRaises, Breaks
<1>6. ASSUME NEW r \in Runs, Plan(r) PROVE RunOK(q)'
  <2>1. PICK proposed \in Decisions :
            decision' = [decision EXCEPT ![r] = EnforceGuardrails(proposed, Tier[r], r \in reachable)]
    BY <1>6 DEF Plan
  <2>2. Tier[r] \in 1..3
    BY TierAssumption
  <2> DEFINE d == EnforceGuardrails(proposed, Tier[r], r \in reachable)
  <2>3. d \in Decisions /\ (d = "autonomous_isolate" => r \in reachable /\ Tier[r] = 3)
    BY <2>2 DEF EnforceGuardrails, Decisions
  <2> HIDE DEF d
  <2> QED
    BY <1>0, <1>6, <2>1, <2>3 DEF Plan, d
<1>7. ASSUME NEW r \in Runs, PlanRaises(r) PROVE RunOK(q)'
  BY <1>0, <1>7 DEF PlanRaises, Breaks
<1>8. ASSUME NEW r \in Runs, ExecuteLog(r) PROVE RunOK(q)'
  BY <1>0, <1>8 DEF ExecuteLog
<1>9. ASSUME NEW r \in Runs, ExecuteNotify(r) PROVE RunOK(q)'
  BY <1>0, <1>9 DEF ExecuteNotify
<1>10. ASSUME NEW r \in Runs, CommandConfirmed(r) PROVE RunOK(q)'
  BY <1>0, <1>10, GrantAssumption, ClusterAssumption DEF CommandConfirmed
<1>11. ASSUME NEW r \in Runs, CommandUnconfirmed(r) PROVE RunOK(q)'
  BY <1>0, <1>11 DEF CommandUnconfirmed
<1>12. ASSUME NEW r \in Runs, CommandRaises(r) PROVE RunOK(q)'
  BY <1>0, <1>12 DEF CommandRaises, Breaks
<1>13. ASSUME NEW r \in Runs, Emergency(r) PROVE RunOK(q)'
  BY <1>0, <1>13 DEF Emergency
<1>14. ASSUME NEW r \in Runs, CommandArrives(r) PROVE RunOK(q)'
  BY <1>0, <1>14 DEF CommandArrives
<1>15. ASSUME NEW r \in Runs, HumanOverride(r) PROVE RunOK(q)'
  BY <1>0, <1>15 DEF HumanOverride
<1>16. ASSUME NEW r \in Runs, ReleaseSkipped(r) PROVE RunOK(q)'
  BY <1>0, <1>16 DEF ReleaseSkipped
<1>17. ASSUME NEW r \in Runs, ReleaseConfirmed(r) PROVE RunOK(q)'
  BY <1>0, <1>17, GrantAssumption, ClusterAssumption DEF ReleaseConfirmed
<1>18. ASSUME NEW r \in Runs, ReleaseUnconfirmed(r) PROVE RunOK(q)'
  BY <1>0, <1>18 DEF ReleaseUnconfirmed
<1>19. ASSUME NEW r \in Runs, ReleaseRaises(r) PROVE RunOK(q)'
  BY <1>0, <1>19 DEF ReleaseRaises, Breaks
<1>20. ASSUME NEW r \in Runs, WriteAudit(r) PROVE RunOK(q)'
  BY <1>0, <1>20 DEF WriteAudit
<1>21. ASSUME NEW r \in Runs, WriteAuditRaises(r) PROVE RunOK(q)'
  BY <1>0, <1>21 DEF WriteAuditRaises, Breaks
<1>22. ASSUME NEW r \in Runs, Publish(r) PROVE RunOK(q)'
  BY <1>0, <1>22 DEF Publish
<1>23. ASSUME NEW r \in Runs, PublishRaises(r) PROVE RunOK(q)'
  BY <1>0, <1>23 DEF PublishRaises, Breaks
<1>24. CASE UNCHANGED vars
  BY <1>0, <1>24 DEF vars
<1> QED
  BY <1>1, <1>2, <1>3, <1>4, <1>5, <1>6, <1>7, <1>8, <1>9, <1>10, <1>11, <1>12, <1>13, <1>14, <1>15, <1>16, <1>17, <1>18, <1>19, <1>20, <1>21, <1>22, <1>23, <1>24
  DEF Next, Node

(* Only a run's command closes a valve. *)
LEMMA ValveStep == TypeOK /\ RunInv /\ ValveInv /\ [Next]_vars => ValveInv'
<1> SUFFICES ASSUME TypeOK, RunInv, ValveInv, [Next]_vars PROVE ValveInv'
  OBVIOUS
<1> USE ClusterAssumption DEF TypeOK, ValveInv
<1>1. ASSUME NEW r \in Runs, Start(r) PROVE ValveInv'
  BY <1>1 DEF Start, Goto, checks, messages, commands, network, ended
<1>2. ASSUME NEW r \in Runs, CheckSkipped(r) PROVE ValveInv'
  BY <1>2 DEF CheckSkipped, Goto, checks, messages, commands, network, ended
<1>3. ASSUME NEW r \in Runs, CheckAnswered(r) PROVE ValveInv'
  BY <1>3 DEF CheckAnswered, Goto, checks, messages, commands, network, ended
<1>4. ASSUME NEW r \in Runs, CheckUnanswered(r) PROVE ValveInv'
  BY <1>4 DEF CheckUnanswered, Goto, checks, messages, commands, network, ended
<1>5. ASSUME NEW r \in Runs, CheckRaises(r) PROVE ValveInv'
  BY <1>5 DEF CheckRaises, Breaks, Goto, checks, messages, commands, network, ended
<1>6. ASSUME NEW r \in Runs, Plan(r) PROVE ValveInv'
  BY <1>6 DEF Plan, Goto, checks, messages, commands, network, ended, EnforceGuardrails
<1>7. ASSUME NEW r \in Runs, PlanRaises(r) PROVE ValveInv'
  BY <1>7 DEF PlanRaises, Breaks, Goto, checks, messages, commands, network, ended
<1>8. ASSUME NEW r \in Runs, ExecuteLog(r) PROVE ValveInv'
  BY <1>8 DEF ExecuteLog, Goto, checks, messages, commands, network, ended
<1>9. ASSUME NEW r \in Runs, ExecuteNotify(r) PROVE ValveInv'
  BY <1>9 DEF ExecuteNotify, Goto, checks, messages, commands, network, ended
<1>10. ASSUME NEW r \in Runs, CommandConfirmed(r) PROVE ValveInv'
  BY <1>10 DEF CommandConfirmed, Goto, checks, messages, commands, network, ended
<1>11. ASSUME NEW r \in Runs, CommandUnconfirmed(r) PROVE ValveInv'
  BY <1>11 DEF CommandUnconfirmed, Goto, checks, messages, commands, network, ended
<1>12. ASSUME NEW r \in Runs, Emergency(r) PROVE ValveInv'
  BY <1>12 DEF Emergency, Goto, checks, messages, commands, network, ended
<1>13. ASSUME NEW r \in Runs, CommandArrives(r) PROVE ValveInv'
  BY <1>13 DEF CommandArrives, RunInv, RunOK
<1>14. ASSUME NEW r \in Runs, HumanOverride(r) PROVE ValveInv'
  BY <1>14 DEF HumanOverride, Goto, checks, messages, commands, network, ended
<1>15. ASSUME NEW r \in Runs, ReleaseSkipped(r) PROVE ValveInv'
  BY <1>15 DEF ReleaseSkipped, Goto, checks, messages, commands, network, ended
<1>16. ASSUME NEW r \in Runs, ReleaseConfirmed(r) PROVE ValveInv'
  BY <1>16 DEF ReleaseConfirmed, Goto, checks, messages, commands, network, ended
<1>17. ASSUME NEW r \in Runs, ReleaseUnconfirmed(r) PROVE ValveInv'
  BY <1>17 DEF ReleaseUnconfirmed, Goto, checks, messages, commands, network, ended
<1>18. ASSUME NEW r \in Runs, WriteAudit(r) PROVE ValveInv'
  BY <1>18 DEF WriteAudit, Goto, checks, messages, commands, network, ended
<1>19. ASSUME NEW r \in Runs, WriteAuditRaises(r) PROVE ValveInv'
  BY <1>19 DEF WriteAuditRaises, Breaks, Goto, checks, messages, commands, network, ended
<1>20. ASSUME NEW r \in Runs, Publish(r) PROVE ValveInv'
  BY <1>20 DEF Publish, Goto, checks, messages, commands, network, ended
<1>22. ASSUME NEW r \in Runs, CommandRaises(r) PROVE ValveInv'
  BY <1>22 DEF CommandRaises, Breaks, Goto, checks, messages, commands, network, ended
<1>23. ASSUME NEW r \in Runs, ReleaseRaises(r) PROVE ValveInv'
  BY <1>23 DEF ReleaseRaises, Breaks, Goto, checks, messages, commands, network, ended
<1>24. ASSUME NEW r \in Runs, PublishRaises(r) PROVE ValveInv'
  BY <1>24 DEF PublishRaises, Breaks, Goto, checks, messages, commands, network, ended
<1>21. CASE UNCHANGED vars
  BY <1>21 DEF vars, checks, messages, commands, network, ended
<1> QED
  BY <1>1, <1>2, <1>3, <1>4, <1>5, <1>6, <1>7, <1>8, <1>9, <1>10, <1>11, <1>12, <1>13, <1>14, <1>15, <1>16, <1>17, <1>18, <1>19, <1>20, <1>21, <1>22, <1>23, <1>24
  DEF Next, Node

(* A run past the audit changes none of what its entry records. *)
LEMMA LogStep == TypeOK /\ RunInv /\ LogInv /\ [Next]_vars => LogInv'
<1> SUFFICES ASSUME TypeOK, RunInv, LogInv, [Next]_vars PROVE LogInv'
  OBVIOUS
<1> USE DEF TypeOK, LogInv, EntryOf, Entry, Isolates
<1>1. ASSUME NEW r \in Runs, Start(r) PROVE LogInv'
  BY <1>1 DEF Start, Goto, checks, messages, commands, network, ended
<1>2. ASSUME NEW r \in Runs, CheckSkipped(r) PROVE LogInv'
  BY <1>2 DEF CheckSkipped, Goto, checks, messages, commands, network, ended
<1>3. ASSUME NEW r \in Runs, CheckAnswered(r) PROVE LogInv'
  BY <1>3 DEF CheckAnswered, Goto, checks, messages, commands, network, ended
<1>4. ASSUME NEW r \in Runs, CheckUnanswered(r) PROVE LogInv'
  BY <1>4 DEF CheckUnanswered, Goto, checks, messages, commands, network, ended
<1>5. ASSUME NEW r \in Runs, CheckRaises(r) PROVE LogInv'
  BY <1>5 DEF CheckRaises, Breaks, Goto, checks, messages, commands, network, ended
<1>6. ASSUME NEW r \in Runs, Plan(r) PROVE LogInv'
  BY <1>6 DEF Plan, Goto, checks, messages, commands, network, ended, EnforceGuardrails
<1>7. ASSUME NEW r \in Runs, PlanRaises(r) PROVE LogInv'
  BY <1>7 DEF PlanRaises, Breaks, Goto, checks, messages, commands, network, ended
<1>8. ASSUME NEW r \in Runs, ExecuteLog(r) PROVE LogInv'
  BY <1>8 DEF ExecuteLog, Goto, checks, messages, commands, network, ended
<1>9. ASSUME NEW r \in Runs, ExecuteNotify(r) PROVE LogInv'
  BY <1>9 DEF ExecuteNotify, Goto, checks, messages, commands, network, ended
<1>10. ASSUME NEW r \in Runs, CommandConfirmed(r) PROVE LogInv'
  BY <1>10 DEF CommandConfirmed, Goto, checks, messages, commands, network, ended
<1>11. ASSUME NEW r \in Runs, CommandUnconfirmed(r) PROVE LogInv'
  BY <1>11 DEF CommandUnconfirmed, Goto, checks, messages, commands, network, ended
<1>12. ASSUME NEW r \in Runs, Emergency(r) PROVE LogInv'
  BY <1>12 DEF Emergency, Goto, checks, messages, commands, network, ended
<1>13. ASSUME NEW r \in Runs, CommandArrives(r) PROVE LogInv'
  BY <1>13 DEF CommandArrives, Goto, checks, messages, commands, network, ended
<1>14. ASSUME NEW r \in Runs, HumanOverride(r) PROVE LogInv'
  BY <1>14 DEF HumanOverride, Goto, checks, messages, commands, network, ended
<1>15. ASSUME NEW r \in Runs, ReleaseSkipped(r) PROVE LogInv'
  BY <1>15 DEF ReleaseSkipped, Goto, checks, messages, commands, network, ended
<1>16. ASSUME NEW r \in Runs, ReleaseConfirmed(r) PROVE LogInv'
  BY <1>16 DEF ReleaseConfirmed, Goto, checks, messages, commands, network, ended
<1>17. ASSUME NEW r \in Runs, ReleaseUnconfirmed(r) PROVE LogInv'
  BY <1>17 DEF ReleaseUnconfirmed, Goto, checks, messages, commands, network, ended
<1>18. ASSUME NEW r \in Runs, WriteAudit(r) PROVE LogInv'
  BY <1>18 DEF RunInv, RunOK, ActedNodes, WriteAudit, Goto, checks, messages, commands, network, ended
<1>19. ASSUME NEW r \in Runs, WriteAuditRaises(r) PROVE LogInv'
  BY <1>19 DEF WriteAuditRaises, Breaks, Goto, checks, messages, commands, network, ended
<1>20. ASSUME NEW r \in Runs, Publish(r) PROVE LogInv'
  BY <1>20 DEF Publish, Goto, checks, messages, commands, network, ended
<1>22. ASSUME NEW r \in Runs, CommandRaises(r) PROVE LogInv'
  BY <1>22 DEF CommandRaises, Breaks, Goto, checks, messages, commands, network, ended
<1>23. ASSUME NEW r \in Runs, ReleaseRaises(r) PROVE LogInv'
  BY <1>23 DEF ReleaseRaises, Breaks, Goto, checks, messages, commands, network, ended
<1>24. ASSUME NEW r \in Runs, PublishRaises(r) PROVE LogInv'
  BY <1>24 DEF PublishRaises, Breaks, Goto, checks, messages, commands, network, ended
<1>21. CASE UNCHANGED vars
  BY <1>21 DEF vars, checks, messages, commands, network, ended
<1> QED
  BY <1>1, <1>2, <1>3, <1>4, <1>5, <1>6, <1>7, <1>8, <1>9, <1>10, <1>11, <1>12, <1>13, <1>14, <1>15, <1>16, <1>17, <1>18, <1>19, <1>20, <1>21, <1>22, <1>23, <1>24
  DEF Next, Node

THEOREM InductiveInvariant == Spec => []IInv
<1>1. Init => IInv
  BY ClusterAssumption, GrantAssumption DEF Init, IInv, TypeOK, RunInv, RunOK, ValveInv, LogInv, Nodes,
     Answers, Decisions, DecidedNodes, ActedNodes, Isolates, Calls, Accounted
<1>2. IInv /\ [Next]_vars => IInv'
  BY TypeStep, RunStep, ValveStep, LogStep DEF IInv
<1> QED
  BY <1>1, <1>2, PTL DEF Spec

\* Every variable keeps its type, and what is logged is a well-formed entry.
THEOREM TypeCorrect == Spec => []TypeOK
<1>1. IInv => TypeOK
  BY DEF IInv
<1> QED
  BY <1>1, InductiveInvariant, PTL

\* No valve closes but for a tier 3 run that found its device reachable.
THEOREM ClosuresJustified == Spec => []ValveJustified
<1>1. IInv => ValveJustified
  BY DEF IInv, TypeOK, RunInv, RunOK, ValveInv, ValveJustified, Isolates
<1> QED
  BY <1>1, InductiveInvariant, PTL

\* An unconfirmed command is reported, or about to be, or was the call whose exception
\* ended its run; no valve is closed without a command confirmed or so accounted for.
THEOREM EmergenciesReported == Spec => []UnconfirmedReported
<1>1. IInv => UnconfirmedReported
  BY DEF IInv, TypeOK, RunInv, RunOK, ValveInv, UnconfirmedReported, Accounted
<1> QED
  BY <1>1, InductiveInvariant, PTL

\* The audit log stays true of valves, paths and decisions.
THEOREM AuditStaysTrue == Spec => []AuditTruth
<1>1. IInv => AuditTruth
  <2> SUFFICES ASSUME IInv, NEW e \in audit
      PROVE  /\ e.confirmed => e.sent /\ Cluster[e.run] \in closed
             /\ e.released => Grant[e.run] \notin held
             /\ e.sent <=> e.decision = "autonomous_isolate"
             /\ e.sent => e.reachable /\ e.answer # "none"
             /\ \A f \in audit : f.run = e.run => f = e
    BY DEF AuditTruth
  <2> DEFINE r == e.run
  <2>1. r \in Runs /\ e = EntryOf(r) /\ (Isolates(r) => r \in sent /\ override[r] # "none")
    BY DEF IInv, LogInv, TypeOK, Entry
  <2>2. /\ e.confirmed = (r \in confirmed)
        /\ e.released = (r \in released)
        /\ e.sent = (r \in sent)
        /\ e.reachable = (r \in reachable)
        /\ e.decision = decision[r] /\ e.answer = override[r]
    <3>1. e = [run |-> r, reachable |-> r \in reachable, decision |-> decision[r],
               sent |-> r \in sent, confirmed |-> r \in confirmed, answer |-> override[r],
               released |-> r \in released]
      BY <2>1 DEF EntryOf
    <3> HIDE DEF r
    <3> QED
      BY ONLY <3>1
  <2>3. \A f \in audit : f.run = e.run => f = e
    BY DEF IInv, LogInv
  <2>4. /\ r \in confirmed => r \in sent /\ Cluster[r] \in closed
        /\ r \in released => Grant[r] \notin held
        /\ r \in sent <=> decision[r] = "autonomous_isolate"
        /\ r \in sent => r \in reachable /\ override[r] # "none"
    BY <2>1 DEF IInv, RunInv, RunOK, Isolates, ActedNodes
  <2> QED
    BY <2>2, <2>3, <2>4 DEF r
<1> QED
  BY <1>1, InductiveInvariant, PTL
=============================================================================
