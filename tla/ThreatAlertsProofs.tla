------------------------ MODULE ThreatAlertsProofs -------------------------
(***************************************************************************)
(* Proofs about ThreatAlerts for any clusters, callers, batches, threshold *)
(* and retry limit.  IInv is the inductive invariant:                      *)
(*   ByInv     an incident is active exactly while somebody has registered *)
(*             it, so a caller that finds none may enter one;              *)
(*   RaceInv   who is entering an incident that is registered was already  *)
(*             doing so when it began, and has not alerted for it yet;     *)
(*   AlertAccounted, inductive next to them.                               *)
(* The last part is about AgentVerdicts, the functions an investigation is *)
(* made of: their invariant is the property of each input.                 *)
(***************************************************************************)
EXTENDS ThreatAlerts, AgentVerdicts, FiniteSetTheorems, TLAPS

ByInv == \A c \in Clusters : c \in active <=> by[c] # {}

RaceInv ==
  \A c \in Clusters : \A t \in Entering(c) : by[c] # {} => t \in racing[c] /\ t \notin by[c]

IInv == TypeOK /\ ByInv /\ RaceInv /\ AlertAccounted

-----------------------------------------------------------------------------
(* A window belongs to a cluster. *)
LEMMA WindowCluster == \A w \in Windows : ClusterOf(w) \in Clusters
  BY WindowsAssumption DEF ClusterOf

(* What every action may use of the cluster in hand. *)
LEMMA HandCluster ==
  ASSUME TypeOK, NEW t \in Callers,
         pc[t] \in InMethod
  PROVE  cur[t] \in Windows /\ ClusterOf(cur[t]) \in Clusters
  BY WindowCluster DEF TypeOK

(* A caller that takes a window in hand has one. *)
LEMMA HeldWindow ==
  ASSUME TypeOK, NEW t \in Callers, NEW w \in Windows, NEW p, Hold(t, w), Goto(t, p)
  PROVE  \A u \in Callers :
           pc'[u] \in InMethod => cur'[u] \in Windows
  BY DEF TypeOK, Hold, Goto

(* What a caller reports are incidents of clusters. *)
LEMMA ReportedClusters == \A t \in Callers : Reported(t) \subseteq Clusters
  BY DEF Reported

(* A caller's output goes, and what it reported was sent or is lost. *)
LEMMA OutputGone ==
  ASSUME AlertAccounted, NEW t \in Callers, UNCHANGED <<active, by>>,
         alerted \union lost \union Reported(t) \subseteq alerted' \union lost',
         \A u \in Callers \ {t} : pc'[u] = pc[u] /\ cur'[u] = cur[u] /\ threats'[u] = threats[u]
  PROVE  AlertAccounted'
<1> SUFFICES ASSUME NEW c \in active'
             PROVE  c \in alerted' \union lost' \/ \E u \in Callers : c \in Reported(u)'
  BY DEF AlertAccounted
<1>1. CASE c \in alerted \union lost \union Reported(t)
  BY <1>1
<1>2. CASE \E u \in Callers \ {t} : c \in Reported(u)
  BY <1>2 DEF Reported
<1> QED
  BY <1>1, <1>2 DEF AlertAccounted

(* A batch that raises loses the alerts of its caller, and nobody else's. *)
LEMMA FailsAccounted ==
  ASSUME TypeOK, AlertAccounted, NEW t \in Callers, Fails(t) PROVE AlertAccounted'
<1>1. /\ UNCHANGED <<active, by, alerted>> /\ lost' = lost \union Reported(t)
      /\ \A u \in Callers \ {t} : pc'[u] = pc[u] /\ cur'[u] = cur[u] /\ threats'[u] = threats[u]
  BY DEF Fails, tracker, TypeOK, Goto, Hold
<1> QED
  BY <1>1, OutputGone

(* What is reported stays accounted for, and so does what a caller adds to it. *)
LEMMA StillAccounted ==
  ASSUME AlertAccounted, UNCHANGED <<alerted, lost>>,
         \A u \in Callers : Reported(u) \subseteq Reported(u)',
         \A c \in active' : c \in active \/ \E u \in Callers : c \in Reported(u)'
  PROVE  AlertAccounted'
  BY DEF AlertAccounted

(* Every step keeps the types. *)
LEMMA TypeStep == TypeOK /\ [Next]_vars => TypeOK'
<1> SUFFICES ASSUME TypeOK, [Next]_vars PROVE TypeOK'
  OBVIOUS
<1> USE WindowCluster, BatchesAssumption, ThresholdAssumption, RetriesAssumption DEF TypeOK, Points, InMethod, Clearers
<1>1. ASSUME NEW c \in Clusters, Age(c) PROVE TypeOK'
  BY <1>1 DEF Age, lists, tracker, history
<1>2. ASSUME NEW t \in Callers, Receive(t) PROVE TypeOK'
  BY <1>2 DEF Receive, Goto, Hold, lists, tracker, history
<1>3. ASSUME NEW t \in Callers, NEW w \in Windows, WindowNormal(t, w) PROVE TypeOK'
  <2>1. pc' \in [Callers -> Points] /\ clearer' \in [Callers -> Clearers \union {"none"}]
    BY <1>3 DEF WindowNormal, Goto, Hold, Put, Drop, lists, tracker, history
  <2>2. /\ todo' \in [Callers -> SUBSET Windows] /\ found' \in [Callers -> SUBSET Windows]
       /\ confirmed' \in [Callers -> SUBSET Windows] /\ threats' \in [Callers -> SUBSET Windows]
    BY <1>3 DEF WindowNormal, Goto, Hold, Put, Drop, lists, tracker, history
  <2>3. cur' \in [Callers -> Windows \union {<<>>}]
    BY <1>3 DEF WindowNormal, Goto, Hold, Put, Drop, lists, tracker, history
  <2>4. \A u \in Callers : pc'[u] \in InMethod => cur'[u] \in Windows
    <3>1. CASE ClusterOf(w) \in active
      <4>1. Hold(t, w) /\ Goto(t, "count")
        BY <1>3, <3>1 DEF WindowNormal
      <4> QED
        BY <4>1, HeldWindow
    <3>2. CASE ClusterOf(w) \notin active
      <4>1. UNCHANGED <<cur, pc>>
        BY <1>3, <3>2 DEF WindowNormal
      <4> QED
        BY <4>1
    <3> QED
      BY <3>1, <3>2
  <2>5. active' \subseteq Clusters /\ old' \subseteq active' /\ keyed' \subseteq Clusters
    BY <1>3 DEF WindowNormal, Goto, Hold, Put, Drop, lists, tracker, history
  <2>6. normals' \in [Clusters -> Nat] /\ retries' \in [Clusters -> 0..MaxRetries]
    BY <1>3 DEF WindowNormal, Goto, Hold, Put, Drop, lists, tracker, history
  <2>7. /\ by' \in [Clusters -> SUBSET Callers] /\ racing' \in [Clusters -> SUBSET Callers]
       /\ alerted' \subseteq Clusters /\ lost' \subseteq Clusters
    BY <1>3 DEF WindowNormal, Goto, Hold, Put, Drop, lists, tracker, history
  <2> QED
    BY <2>1, <2>2, <2>3, <2>4, <2>5, <2>6, <2>7
<1>4. ASSUME NEW t \in Callers, Count(t) PROVE TypeOK'
  <2>1. cur[t] \in Windows /\ ClusterOf(cur[t]) \in Clusters
    BY <1>4, HandCluster DEF Count, InMethod
  <2>2. pc' \in [Callers -> Points] /\ clearer' \in [Callers -> Clearers \union {"none"}]
    BY <1>4, <2>1 DEF Count, Goto, Hold, lists, tracker, history
  <2>3. /\ todo' \in [Callers -> SUBSET Windows] /\ found' \in [Callers -> SUBSET Windows]
       /\ confirmed' \in [Callers -> SUBSET Windows] /\ threats' \in [Callers -> SUBSET Windows]
    BY <1>4, <2>1 DEF Count, Goto, Hold, lists, tracker, history
  <2>4. cur' \in [Callers -> Windows \union {<<>>}]
    BY <1>4, <2>1 DEF Count, Goto, Hold, lists, tracker, history
  <2>5. \A u \in Callers : pc'[u] \in InMethod => cur'[u] \in Windows
    BY <1>4, <2>1 DEF Count, Goto, Hold, lists, tracker, history
  <2>6. active' \subseteq Clusters /\ old' \subseteq active' /\ keyed' \subseteq Clusters
    BY <1>4, <2>1 DEF Count, Goto, Hold, lists, tracker, history
  <2>7. normals' \in [Clusters -> Nat] /\ retries' \in [Clusters -> 0..MaxRetries]
    BY <1>4, <2>1 DEF Count, Goto, Hold, lists, tracker, history
  <2>8. /\ by' \in [Clusters -> SUBSET Callers] /\ racing' \in [Clusters -> SUBSET Callers]
       /\ alerted' \subseteq Clusters /\ lost' \subseteq Clusters
    BY <1>4, <2>1 DEF Count, Goto, Hold, lists, tracker, history
  <2> QED
    BY <2>2, <2>3, <2>4, <2>5, <2>6, <2>7, <2>8
<1>5. ASSUME NEW t \in Callers, CompareCalm(t) PROVE TypeOK'
  <2>1. cur[t] \in Windows /\ ClusterOf(cur[t]) \in Clusters
    BY <1>5, HandCluster DEF CompareCalm, InMethod
  <2>2. pc' \in [Callers -> Points] /\ clearer' \in [Callers -> Clearers \union {"none"}]
    BY <1>5, <2>1 DEF CompareCalm, Goto, Hold, Calls, lists, tracker, history
  <2>3. /\ todo' \in [Callers -> SUBSET Windows] /\ found' \in [Callers -> SUBSET Windows]
       /\ confirmed' \in [Callers -> SUBSET Windows] /\ threats' \in [Callers -> SUBSET Windows]
    BY <1>5, <2>1 DEF CompareCalm, Goto, Hold, Calls, lists, tracker, history
  <2>4. cur' \in [Callers -> Windows \union {<<>>}]
    BY <1>5, <2>1 DEF CompareCalm, Goto, Hold, Calls, lists, tracker, history
  <2>5. \A u \in Callers : pc'[u] \in InMethod => cur'[u] \in Windows
    BY <1>5, <2>1 DEF CompareCalm, Goto, Hold, Calls, lists, tracker, history
  <2>6. active' \subseteq Clusters /\ old' \subseteq active' /\ keyed' \subseteq Clusters
    BY <1>5, <2>1 DEF CompareCalm, Goto, Hold, Calls, lists, tracker, history
  <2>7. normals' \in [Clusters -> Nat] /\ retries' \in [Clusters -> 0..MaxRetries]
    BY <1>5, <2>1 DEF CompareCalm, Goto, Hold, Calls, lists, tracker, history
  <2>8. /\ by' \in [Clusters -> SUBSET Callers] /\ racing' \in [Clusters -> SUBSET Callers]
       /\ alerted' \subseteq Clusters /\ lost' \subseteq Clusters
    BY <1>5, <2>1 DEF CompareCalm, Goto, Hold, Calls, lists, tracker, history
  <2> QED
    BY <2>2, <2>3, <2>4, <2>5, <2>6, <2>7, <2>8
<1>6. ASSUME NEW t \in Callers, CompareRaises(t) PROVE TypeOK'
  <2>1. cur[t] \in Windows /\ ClusterOf(cur[t]) \in Clusters
    BY <1>6, HandCluster DEF CompareRaises, InMethod
  <2>2. pc' \in [Callers -> Points] /\ clearer' \in [Callers -> Clearers \union {"none"}]
    BY <1>6, <2>1 DEF CompareRaises, Goto, Hold, Fails, lists, tracker, history
  <2>3. /\ todo' \in [Callers -> SUBSET Windows] /\ found' \in [Callers -> SUBSET Windows]
       /\ confirmed' \in [Callers -> SUBSET Windows] /\ threats' \in [Callers -> SUBSET Windows]
    BY <1>6, <2>1 DEF CompareRaises, Goto, Hold, Fails, lists, tracker, history
  <2>4. cur' \in [Callers -> Windows \union {<<>>}]
    BY <1>6, <2>1 DEF CompareRaises, Goto, Hold, Fails, lists, tracker, history
  <2>5. \A u \in Callers : pc'[u] \in InMethod => cur'[u] \in Windows
    BY <1>6, <2>1 DEF CompareRaises, Goto, Hold, Fails, lists, tracker, history
  <2>6. active' \subseteq Clusters /\ old' \subseteq active' /\ keyed' \subseteq Clusters
    BY <1>6, <2>1 DEF CompareRaises, Goto, Hold, Fails, lists, tracker, history
  <2>7. normals' \in [Clusters -> Nat] /\ retries' \in [Clusters -> 0..MaxRetries]
    BY <1>6, <2>1 DEF CompareRaises, Goto, Hold, Fails, lists, tracker, history
  <2>8. /\ by' \in [Clusters -> SUBSET Callers] /\ racing' \in [Clusters -> SUBSET Callers]
       /\ alerted' \subseteq Clusters /\ lost' \subseteq Clusters
    BY <1>6, <2>1, ReportedClusters DEF CompareRaises, Goto, Hold, Fails, lists, tracker, history
  <2> QED
    BY <2>2, <2>3, <2>4, <2>5, <2>6, <2>7, <2>8
<1>7. ASSUME NEW t \in Callers, NEW w \in Windows, WindowSuspicious(t, w) PROVE TypeOK'
  <2>1. pc' \in [Callers -> Points] /\ clearer' \in [Callers -> Clearers \union {"none"}]
    BY <1>7 DEF WindowSuspicious, Goto, Hold, Put, Drop, lists, tracker, history
  <2>2. /\ todo' \in [Callers -> SUBSET Windows] /\ found' \in [Callers -> SUBSET Windows]
       /\ confirmed' \in [Callers -> SUBSET Windows] /\ threats' \in [Callers -> SUBSET Windows]
    <3>1. /\ todo' = Drop(t, w, todo) /\ UNCHANGED <<confirmed, threats>>
          /\ found' \in {found, Put(t, w, found)}
      BY <1>7 DEF WindowSuspicious
    <3>2. Put(t, w, found) \in [Callers -> SUBSET Windows]
      BY DEF Put
    <3>3. Drop(t, w, todo) \in [Callers -> SUBSET Windows]
      BY DEF Drop
    <3> QED
      BY <3>1, <3>2, <3>3
  <2>3. cur' \in [Callers -> Windows \union {<<>>}]
    BY <1>7 DEF WindowSuspicious, Goto, Hold, Put, Drop, lists, tracker, history
  <2>4. \A u \in Callers : pc'[u] \in InMethod => cur'[u] \in Windows
    <3>1. CASE ClusterOf(w) \in active
      <4>1. Hold(t, w) /\ Goto(t, "suspect")
        BY <1>7, <3>1 DEF WindowSuspicious
      <4> QED
        BY <4>1, HeldWindow
    <3>2. CASE ClusterOf(w) \notin active
      <4>1. UNCHANGED <<cur, pc>>
        BY <1>7, <3>2 DEF WindowSuspicious
      <4> QED
        BY <4>1
    <3> QED
      BY <3>1, <3>2
  <2>5. active' \subseteq Clusters /\ old' \subseteq active' /\ keyed' \subseteq Clusters
    BY <1>7 DEF WindowSuspicious, Goto, Hold, Put, Drop, lists, tracker, history
  <2>6. normals' \in [Clusters -> Nat] /\ retries' \in [Clusters -> 0..MaxRetries]
    BY <1>7 DEF WindowSuspicious, Goto, Hold, Put, Drop, lists, tracker, history
  <2>7. /\ by' \in [Clusters -> SUBSET Callers] /\ racing' \in [Clusters -> SUBSET Callers]
       /\ alerted' \subseteq Clusters /\ lost' \subseteq Clusters
    BY <1>7 DEF WindowSuspicious, Goto, Hold, Put, Drop, lists, tracker, history
  <2> QED
    BY <2>1, <2>2, <2>3, <2>4, <2>5, <2>6, <2>7
<1>8. ASSUME NEW t \in Callers, Suspect(t) PROVE TypeOK'
  <2>1. cur[t] \in Windows /\ ClusterOf(cur[t]) \in Clusters
    BY <1>8, HandCluster DEF Suspect, InMethod
  <2>2. pc' \in [Callers -> Points] /\ clearer' \in [Callers -> Clearers \union {"none"}]
    BY <1>8, <2>1 DEF Suspect, Goto, Hold, Calls, lists, tracker, history
  <2>3. /\ todo' \in [Callers -> SUBSET Windows] /\ found' \in [Callers -> SUBSET Windows]
       /\ confirmed' \in [Callers -> SUBSET Windows] /\ threats' \in [Callers -> SUBSET Windows]
    BY <1>8, <2>1 DEF Suspect, Goto, Hold, Calls, lists, tracker, history
  <2>4. cur' \in [Callers -> Windows \union {<<>>}]
    BY <1>8, <2>1 DEF Suspect, Goto, Hold, Calls, lists, tracker, history
  <2>5. \A u \in Callers : pc'[u] \in InMethod => cur'[u] \in Windows
    BY <1>8, <2>1 DEF Suspect, Goto, Hold, Calls, lists, tracker, history
  <2>6. active' \subseteq Clusters /\ old' \subseteq active' /\ keyed' \subseteq Clusters
    BY <1>8, <2>1 DEF Suspect, Goto, Hold, Calls, lists, tracker, history
  <2>7. normals' \in [Clusters -> Nat] /\ retries' \in [Clusters -> 0..MaxRetries]
    BY <1>8, <2>1 DEF Suspect, Goto, Hold, Calls, lists, tracker, history
  <2>8. /\ by' \in [Clusters -> SUBSET Callers] /\ racing' \in [Clusters -> SUBSET Callers]
       /\ alerted' \subseteq Clusters /\ lost' \subseteq Clusters
    BY <1>8, <2>1 DEF Suspect, Goto, Hold, Calls, lists, tracker, history
  <2> QED
    BY <2>2, <2>3, <2>4, <2>5, <2>6, <2>7, <2>8
<1>9. ASSUME NEW t \in Callers, SuspectRaises(t) PROVE TypeOK'
  <2>1. cur[t] \in Windows /\ ClusterOf(cur[t]) \in Clusters
    BY <1>9, HandCluster DEF SuspectRaises, InMethod
  <2>2. pc' \in [Callers -> Points] /\ clearer' \in [Callers -> Clearers \union {"none"}]
    BY <1>9, <2>1 DEF SuspectRaises, Goto, Hold, Fails, lists, tracker, history
  <2>3. /\ todo' \in [Callers -> SUBSET Windows] /\ found' \in [Callers -> SUBSET Windows]
       /\ confirmed' \in [Callers -> SUBSET Windows] /\ threats' \in [Callers -> SUBSET Windows]
    BY <1>9, <2>1 DEF SuspectRaises, Goto, Hold, Fails, lists, tracker, history
  <2>4. cur' \in [Callers -> Windows \union {<<>>}]
    BY <1>9, <2>1 DEF SuspectRaises, Goto, Hold, Fails, lists, tracker, history
  <2>5. \A u \in Callers : pc'[u] \in InMethod => cur'[u] \in Windows
    BY <1>9, <2>1 DEF SuspectRaises, Goto, Hold, Fails, lists, tracker, history
  <2>6. active' \subseteq Clusters /\ old' \subseteq active' /\ keyed' \subseteq Clusters
    BY <1>9, <2>1 DEF SuspectRaises, Goto, Hold, Fails, lists, tracker, history
  <2>7. normals' \in [Clusters -> Nat] /\ retries' \in [Clusters -> 0..MaxRetries]
    BY <1>9, <2>1 DEF SuspectRaises, Goto, Hold, Fails, lists, tracker, history
  <2>8. /\ by' \in [Clusters -> SUBSET Callers] /\ racing' \in [Clusters -> SUBSET Callers]
       /\ alerted' \subseteq Clusters /\ lost' \subseteq Clusters
    BY <1>9, <2>1, ReportedClusters DEF SuspectRaises, Goto, Hold, Fails, lists, tracker, history
  <2> QED
    BY <2>2, <2>3, <2>4, <2>5, <2>6, <2>7, <2>8
<1>10. ASSUME NEW t \in Callers, DetectionEnds(t) PROVE TypeOK'
  <2>1. pc' \in [Callers -> Points] /\ clearer' \in [Callers -> Clearers \union {"none"}]
    BY <1>10 DEF DetectionEnds, Goto, Hold, lists, tracker, history
  <2>2. /\ todo' \in [Callers -> SUBSET Windows] /\ found' \in [Callers -> SUBSET Windows]
       /\ confirmed' \in [Callers -> SUBSET Windows] /\ threats' \in [Callers -> SUBSET Windows]
    BY <1>10 DEF DetectionEnds, Goto, Hold, lists, tracker, history
  <2>3. cur' \in [Callers -> Windows \union {<<>>}]
    BY <1>10 DEF DetectionEnds, Goto, Hold, lists, tracker, history
  <2>4. \A u \in Callers : pc'[u] \in InMethod => cur'[u] \in Windows
    BY <1>10 DEF DetectionEnds, Goto, Hold, lists, tracker, history
  <2>5. active' \subseteq Clusters /\ old' \subseteq active' /\ keyed' \subseteq Clusters
    BY <1>10 DEF DetectionEnds, Goto, Hold, lists, tracker, history
  <2>6. normals' \in [Clusters -> Nat] /\ retries' \in [Clusters -> 0..MaxRetries]
    BY <1>10 DEF DetectionEnds, Goto, Hold, lists, tracker, history
  <2>7. /\ by' \in [Clusters -> SUBSET Callers] /\ racing' \in [Clusters -> SUBSET Callers]
       /\ alerted' \subseteq Clusters /\ lost' \subseteq Clusters
    BY <1>10 DEF DetectionEnds, Goto, Hold, lists, tracker, history
  <2> QED
    BY <2>1, <2>2, <2>3, <2>4, <2>5, <2>6, <2>7
<1>11. ASSUME NEW t \in Callers, ClearIncident(t) PROVE TypeOK'
  <2>1. cur[t] \in Windows /\ ClusterOf(cur[t]) \in Clusters
    BY <1>11, HandCluster DEF ClearIncident, InMethod
  <2>2. pc' \in [Callers -> Points] /\ clearer' \in [Callers -> Clearers \union {"none"}]
    BY <1>11, <2>1 DEF ClearIncident, Goto, Hold, lists, tracker, history
  <2>3. /\ todo' \in [Callers -> SUBSET Windows] /\ found' \in [Callers -> SUBSET Windows]
       /\ confirmed' \in [Callers -> SUBSET Windows] /\ threats' \in [Callers -> SUBSET Windows]
    BY <1>11, <2>1 DEF ClearIncident, Goto, Hold, lists, tracker, history
  <2>4. cur' \in [Callers -> Windows \union {<<>>}]
    BY <1>11, <2>1 DEF ClearIncident, Goto, Hold, lists, tracker, history
  <2>5. \A u \in Callers : pc'[u] \in InMethod => cur'[u] \in Windows
    BY <1>11, <2>1 DEF ClearIncident, Goto, Hold, lists, tracker, history
  <2>6. active' \subseteq Clusters /\ old' \subseteq active' /\ keyed' \subseteq Clusters
    BY <1>11, <2>1 DEF ClearIncident, Goto, Hold, lists, tracker, history
  <2>7. normals' \in [Clusters -> Nat] /\ retries' \in [Clusters -> 0..MaxRetries]
    BY <1>11, <2>1 DEF ClearIncident, Goto, Hold, lists, tracker, history
  <2>8. /\ by' \in [Clusters -> SUBSET Callers] /\ racing' \in [Clusters -> SUBSET Callers]
       /\ alerted' \subseteq Clusters /\ lost' \subseteq Clusters
    BY <1>11, <2>1 DEF ClearIncident, Goto, Hold, lists, tracker, history
  <2> QED
    BY <2>2, <2>3, <2>4, <2>5, <2>6, <2>7, <2>8
<1>12. ASSUME NEW t \in Callers, ClearCount(t) PROVE TypeOK'
  <2>1. cur[t] \in Windows /\ ClusterOf(cur[t]) \in Clusters
    BY <1>12, HandCluster DEF ClearCount, InMethod
  <2>2. pc' \in [Callers -> Points] /\ clearer' \in [Callers -> Clearers \union {"none"}]
    BY <1>12, <2>1 DEF ClearCount, Goto, Hold, Put, lists, tracker, history
  <2>3. /\ todo' \in [Callers -> SUBSET Windows] /\ found' \in [Callers -> SUBSET Windows]
       /\ confirmed' \in [Callers -> SUBSET Windows] /\ threats' \in [Callers -> SUBSET Windows]
    <3>1. UNCHANGED <<todo, confirmed, threats>> /\ found' \in {found, Put(t, cur[t], found)}
      BY <1>12, <2>1 DEF ClearCount
    <3>2. Put(t, cur[t], found) \in [Callers -> SUBSET Windows]
      BY <2>1 DEF Put
    <3> QED
      BY <3>1, <3>2
  <2>4. cur' \in [Callers -> Windows \union {<<>>}]
    BY <1>12, <2>1 DEF ClearCount, Goto, Hold, Put, lists, tracker, history
  <2>5. \A u \in Callers : pc'[u] \in InMethod => cur'[u] \in Windows
    BY <1>12, <2>1 DEF ClearCount, Goto, Hold, Put, lists, tracker, history
  <2>6. active' \subseteq Clusters /\ old' \subseteq active' /\ keyed' \subseteq Clusters
    BY <1>12, <2>1 DEF ClearCount, Goto, Hold, Put, lists, tracker, history
  <2>7. normals' \in [Clusters -> Nat] /\ retries' \in [Clusters -> 0..MaxRetries]
    BY <1>12, <2>1 DEF ClearCount, Goto, Hold, Put, lists, tracker, history
  <2>8. /\ by' \in [Clusters -> SUBSET Callers] /\ racing' \in [Clusters -> SUBSET Callers]
       /\ alerted' \subseteq Clusters /\ lost' \subseteq Clusters
    BY <1>12, <2>1 DEF ClearCount, Goto, Hold, Put, lists, tracker, history
  <2> QED
    BY <2>2, <2>3, <2>4, <2>5, <2>6, <2>7, <2>8
<1>13. ASSUME NEW t \in Callers, NEW w \in Windows, InvestigateConfirmed(t, w) PROVE TypeOK'
  <2>1. pc' \in [Callers -> Points] /\ clearer' \in [Callers -> Clearers \union {"none"}]
    BY <1>13 DEF InvestigateConfirmed, Goto, Hold, Put, Drop, lists, tracker, history
  <2>2. /\ todo' \in [Callers -> SUBSET Windows] /\ found' \in [Callers -> SUBSET Windows]
       /\ confirmed' \in [Callers -> SUBSET Windows] /\ threats' \in [Callers -> SUBSET Windows]
    BY <1>13 DEF InvestigateConfirmed, Goto, Hold, Put, Drop, lists, tracker, history
  <2>3. cur' \in [Callers -> Windows \union {<<>>}]
    BY <1>13 DEF InvestigateConfirmed, Goto, Hold, Put, Drop, lists, tracker, history
  <2>4. \A u \in Callers : pc'[u] \in InMethod => cur'[u] \in Windows
    BY <1>13 DEF InvestigateConfirmed, Goto, Hold, Put, Drop, lists, tracker, history
  <2>5. active' \subseteq Clusters /\ old' \subseteq active' /\ keyed' \subseteq Clusters
    BY <1>13 DEF InvestigateConfirmed, Goto, Hold, Put, Drop, lists, tracker, history
  <2>6. normals' \in [Clusters -> Nat] /\ retries' \in [Clusters -> 0..MaxRetries]
    BY <1>13 DEF InvestigateConfirmed, Goto, Hold, Put, Drop, lists, tracker, history
  <2>7. /\ by' \in [Clusters -> SUBSET Callers] /\ racing' \in [Clusters -> SUBSET Callers]
       /\ alerted' \subseteq Clusters /\ lost' \subseteq Clusters
    BY <1>13 DEF InvestigateConfirmed, Goto, Hold, Put, Drop, lists, tracker, history
  <2> QED
    BY <2>1, <2>2, <2>3, <2>4, <2>5, <2>6, <2>7
<1>14. ASSUME NEW t \in Callers, NEW w \in Windows, InvestigateOther(t, w) PROVE TypeOK'
  <2>1. pc' \in [Callers -> Points] /\ clearer' \in [Callers -> Clearers \union {"none"}]
    BY <1>14 DEF InvestigateOther, Goto, Hold, Put, Drop, lists, tracker, history
  <2>2. /\ todo' \in [Callers -> SUBSET Windows] /\ found' \in [Callers -> SUBSET Windows]
       /\ confirmed' \in [Callers -> SUBSET Windows] /\ threats' \in [Callers -> SUBSET Windows]
    BY <1>14 DEF InvestigateOther, Goto, Hold, Put, Drop, lists, tracker, history
  <2>3. cur' \in [Callers -> Windows \union {<<>>}]
    BY <1>14 DEF InvestigateOther, Goto, Hold, Put, Drop, lists, tracker, history
  <2>4. \A u \in Callers : pc'[u] \in InMethod => cur'[u] \in Windows
    BY <1>14 DEF InvestigateOther, Goto, Hold, Put, Drop, lists, tracker, history
  <2>5. active' \subseteq Clusters /\ old' \subseteq active' /\ keyed' \subseteq Clusters
    BY <1>14 DEF InvestigateOther, Goto, Hold, Put, Drop, lists, tracker, history
  <2>6. normals' \in [Clusters -> Nat] /\ retries' \in [Clusters -> 0..MaxRetries]
    BY <1>14 DEF InvestigateOther, Goto, Hold, Put, Drop, lists, tracker, history
  <2>7. /\ by' \in [Clusters -> SUBSET Callers] /\ racing' \in [Clusters -> SUBSET Callers]
       /\ alerted' \subseteq Clusters /\ lost' \subseteq Clusters
    BY <1>14 DEF InvestigateOther, Goto, Hold, Put, Drop, lists, tracker, history
  <2> QED
    BY <2>1, <2>2, <2>3, <2>4, <2>5, <2>6, <2>7
<1>15. ASSUME NEW t \in Callers, NEW w \in Windows, InvestigateInsufficient(t, w) PROVE TypeOK'
  <2>1. pc' \in [Callers -> Points] /\ clearer' \in [Callers -> Clearers \union {"none"}]
    BY <1>15 DEF InvestigateInsufficient, Goto, Hold, Put, Drop, lists, tracker, history
  <2>2. /\ todo' \in [Callers -> SUBSET Windows] /\ found' \in [Callers -> SUBSET Windows]
       /\ confirmed' \in [Callers -> SUBSET Windows] /\ threats' \in [Callers -> SUBSET Windows]
    BY <1>15 DEF InvestigateInsufficient, Goto, Hold, Put, Drop, lists, tracker, history
  <2>3. cur' \in [Callers -> Windows \union {<<>>}]
    BY <1>15 DEF InvestigateInsufficient, Goto, Hold, Put, Drop, lists, tracker, history
  <2>4. \A u \in Callers : pc'[u] \in InMethod => cur'[u] \in Windows
    BY <1>15 DEF InvestigateInsufficient, Goto, Hold, Put, Drop, lists, tracker, history
  <2>5. active' \subseteq Clusters /\ old' \subseteq active' /\ keyed' \subseteq Clusters
    BY <1>15 DEF InvestigateInsufficient, Goto, Hold, Put, Drop, lists, tracker, history
  <2>6. normals' \in [Clusters -> Nat] /\ retries' \in [Clusters -> 0..MaxRetries]
    BY <1>15 DEF InvestigateInsufficient, Goto, Hold, Put, Drop, lists, tracker, history
  <2>7. /\ by' \in [Clusters -> SUBSET Callers] /\ racing' \in [Clusters -> SUBSET Callers]
       /\ alerted' \subseteq Clusters /\ lost' \subseteq Clusters
    BY <1>15 DEF InvestigateInsufficient, Goto, Hold, Put, Drop, lists, tracker, history
  <2> QED
    BY <2>1, <2>2, <2>3, <2>4, <2>5, <2>6, <2>7
<1>16. ASSUME NEW t \in Callers, InvestigationEnds(t) PROVE TypeOK'
  <2>1. pc' \in [Callers -> Points] /\ clearer' \in [Callers -> Clearers \union {"none"}]
    BY <1>16 DEF InvestigationEnds, Goto, Hold, lists, tracker, history
  <2>2. /\ todo' \in [Callers -> SUBSET Windows] /\ found' \in [Callers -> SUBSET Windows]
       /\ confirmed' \in [Callers -> SUBSET Windows] /\ threats' \in [Callers -> SUBSET Windows]
    BY <1>16 DEF InvestigationEnds, Goto, Hold, lists, tracker, history
  <2>3. cur' \in [Callers -> Windows \union {<<>>}]
    BY <1>16 DEF InvestigationEnds, Goto, Hold, lists, tracker, history
  <2>4. \A u \in Callers : pc'[u] \in InMethod => cur'[u] \in Windows
    BY <1>16 DEF InvestigationEnds, Goto, Hold, lists, tracker, history
  <2>5. active' \subseteq Clusters /\ old' \subseteq active' /\ keyed' \subseteq Clusters
    BY <1>16 DEF InvestigationEnds, Goto, Hold, lists, tracker, history
  <2>6. normals' \in [Clusters -> Nat] /\ retries' \in [Clusters -> 0..MaxRetries]
    BY <1>16 DEF InvestigationEnds, Goto, Hold, lists, tracker, history
  <2>7. /\ by' \in [Clusters -> SUBSET Callers] /\ racing' \in [Clusters -> SUBSET Callers]
       /\ alerted' \subseteq Clusters /\ lost' \subseteq Clusters
    BY <1>16 DEF InvestigationEnds, Goto, Hold, lists, tracker, history
  <2> QED
    BY <2>1, <2>2, <2>3, <2>4, <2>5, <2>6, <2>7
<1>17. ASSUME NEW t \in Callers, NEW w \in Windows, Register(t, w) PROVE TypeOK'
  <2>1. pc' \in [Callers -> Points] /\ clearer' \in [Callers -> Clearers \union {"none"}]
    BY <1>17 DEF Register, Goto, Hold, Put, Drop, lists, tracker, history
  <2>2. /\ todo' \in [Callers -> SUBSET Windows] /\ found' \in [Callers -> SUBSET Windows]
       /\ confirmed' \in [Callers -> SUBSET Windows] /\ threats' \in [Callers -> SUBSET Windows]
    BY <1>17 DEF Register, Goto, Hold, Put, Drop, lists, tracker, history
  <2>3. cur' \in [Callers -> Windows \union {<<>>}]
    BY <1>17 DEF Register, Goto, Hold, Put, Drop, lists, tracker, history
  <2>4. \A u \in Callers : pc'[u] \in InMethod => cur'[u] \in Windows
    BY <1>17, HeldWindow DEF Register
  <2>5. active' \subseteq Clusters /\ old' \subseteq active' /\ keyed' \subseteq Clusters
    BY <1>17 DEF Register, Goto, Hold, Put, Drop, lists, tracker, history
  <2>6. normals' \in [Clusters -> Nat] /\ retries' \in [Clusters -> 0..MaxRetries]
    BY <1>17 DEF Register, Goto, Hold, Put, Drop, lists, tracker, history
  <2>7. /\ by' \in [Clusters -> SUBSET Callers] /\ racing' \in [Clusters -> SUBSET Callers]
       /\ alerted' \subseteq Clusters /\ lost' \subseteq Clusters
    BY <1>17 DEF Register, Goto, Hold, Put, Drop, lists, tracker, history
  <2> QED
    BY <2>1, <2>2, <2>3, <2>4, <2>5, <2>6, <2>7
<1>18. ASSUME NEW t \in Callers, Lookup(t) PROVE TypeOK'
  <2>1. cur[t] \in Windows /\ ClusterOf(cur[t]) \in Clusters
    BY <1>18, HandCluster DEF Lookup, InMethod
  <2>2. pc' \in [Callers -> Points] /\ clearer' \in [Callers -> Clearers \union {"none"}]
    BY <1>18, <2>1 DEF Lookup, Goto, Hold, Calls, lists, tracker, history
  <2>3. /\ todo' \in [Callers -> SUBSET Windows] /\ found' \in [Callers -> SUBSET Windows]
       /\ confirmed' \in [Callers -> SUBSET Windows] /\ threats' \in [Callers -> SUBSET Windows]
    BY <1>18, <2>1 DEF Lookup, Goto, Hold, Calls, lists, tracker, history
  <2>4. cur' \in [Callers -> Windows \union {<<>>}]
    BY <1>18, <2>1 DEF Lookup, Goto, Hold, Calls, lists, tracker, history
  <2>5. \A u \in Callers : pc'[u] \in InMethod => cur'[u] \in Windows
    BY <1>18, <2>1 DEF Lookup, Goto, Hold, Calls, lists, tracker, history
  <2>6. active' \subseteq Clusters /\ old' \subseteq active' /\ keyed' \subseteq Clusters
    BY <1>18, <2>1 DEF Lookup, Goto, Hold, Calls, lists, tracker, history
  <2>7. normals' \in [Clusters -> Nat] /\ retries' \in [Clusters -> 0..MaxRetries]
    BY <1>18, <2>1 DEF Lookup, Goto, Hold, Calls, lists, tracker, history
  <2>8. /\ by' \in [Clusters -> SUBSET Callers] /\ racing' \in [Clusters -> SUBSET Callers]
       /\ alerted' \subseteq Clusters /\ lost' \subseteq Clusters
    BY <1>18, <2>1 DEF Lookup, Goto, Hold, Calls, lists, tracker, history
  <2> QED
    BY <2>2, <2>3, <2>4, <2>5, <2>6, <2>7, <2>8
<1>19. ASSUME NEW t \in Callers, LookupRaises(t) PROVE TypeOK'
  <2>1. cur[t] \in Windows /\ ClusterOf(cur[t]) \in Clusters
    BY <1>19, HandCluster DEF LookupRaises, InMethod
  <2>2. pc' \in [Callers -> Points] /\ clearer' \in [Callers -> Clearers \union {"none"}]
    BY <1>19, <2>1 DEF LookupRaises, Goto, Hold, Fails, lists, tracker, history
  <2>3. /\ todo' \in [Callers -> SUBSET Windows] /\ found' \in [Callers -> SUBSET Windows]
       /\ confirmed' \in [Callers -> SUBSET Windows] /\ threats' \in [Callers -> SUBSET Windows]
    BY <1>19, <2>1 DEF LookupRaises, Goto, Hold, Fails, lists, tracker, history
  <2>4. cur' \in [Callers -> Windows \union {<<>>}]
    BY <1>19, <2>1 DEF LookupRaises, Goto, Hold, Fails, lists, tracker, history
  <2>5. \A u \in Callers : pc'[u] \in InMethod => cur'[u] \in Windows
    BY <1>19, <2>1 DEF LookupRaises, Goto, Hold, Fails, lists, tracker, history
  <2>6. active' \subseteq Clusters /\ old' \subseteq active' /\ keyed' \subseteq Clusters
    BY <1>19, <2>1 DEF LookupRaises, Goto, Hold, Fails, lists, tracker, history
  <2>7. normals' \in [Clusters -> Nat] /\ retries' \in [Clusters -> 0..MaxRetries]
    BY <1>19, <2>1 DEF LookupRaises, Goto, Hold, Fails, lists, tracker, history
  <2>8. /\ by' \in [Clusters -> SUBSET Callers] /\ racing' \in [Clusters -> SUBSET Callers]
       /\ alerted' \subseteq Clusters /\ lost' \subseteq Clusters
    BY <1>19, <2>1, ReportedClusters DEF LookupRaises, Goto, Hold, Fails, lists, tracker, history
  <2> QED
    BY <2>2, <2>3, <2>4, <2>5, <2>6, <2>7, <2>8
<1>20. ASSUME NEW t \in Callers, Reset(t) PROVE TypeOK'
  <2>1. cur[t] \in Windows /\ ClusterOf(cur[t]) \in Clusters
    BY <1>20, HandCluster DEF Reset, InMethod
  <2>2. pc' \in [Callers -> Points] /\ clearer' \in [Callers -> Clearers \union {"none"}]
    BY <1>20, <2>1 DEF Reset, Goto, Hold, ZeroNormals, lists, tracker, history
  <2>3. /\ todo' \in [Callers -> SUBSET Windows] /\ found' \in [Callers -> SUBSET Windows]
       /\ confirmed' \in [Callers -> SUBSET Windows] /\ threats' \in [Callers -> SUBSET Windows]
    BY <1>20, <2>1 DEF Reset, Goto, Hold, ZeroNormals, lists, tracker, history
  <2>4. cur' \in [Callers -> Windows \union {<<>>}]
    BY <1>20, <2>1 DEF Reset, Goto, Hold, ZeroNormals, lists, tracker, history
  <2>5. \A u \in Callers : pc'[u] \in InMethod => cur'[u] \in Windows
    BY <1>20, <2>1 DEF Reset, Goto, Hold, ZeroNormals, lists, tracker, history
  <2>6. active' \subseteq Clusters /\ old' \subseteq active' /\ keyed' \subseteq Clusters
    BY <1>20, <2>1 DEF Reset, Goto, Hold, ZeroNormals, lists, tracker, history
  <2>7. normals' \in [Clusters -> Nat] /\ retries' \in [Clusters -> 0..MaxRetries]
    BY <1>20, <2>1 DEF Reset, Goto, Hold, ZeroNormals, lists, tracker, history
  <2>8. /\ by' \in [Clusters -> SUBSET Callers] /\ racing' \in [Clusters -> SUBSET Callers]
       /\ alerted' \subseteq Clusters /\ lost' \subseteq Clusters
    BY <1>20, <2>1 DEF Reset, Goto, Hold, ZeroNormals, lists, tracker, history
  <2> QED
    BY <2>2, <2>3, <2>4, <2>5, <2>6, <2>7, <2>8
<1>21. ASSUME NEW t \in Callers, Enter(t) PROVE TypeOK'
  <2>1. cur[t] \in Windows /\ ClusterOf(cur[t]) \in Clusters
    BY <1>21, HandCluster DEF Enter, InMethod
  <2>2. pc' \in [Callers -> Points] /\ clearer' \in [Callers -> Clearers \union {"none"}]
    BY <1>21, <2>1 DEF Enter, Goto, Hold, Activate, lists, tracker, history
  <2>3. /\ todo' \in [Callers -> SUBSET Windows] /\ found' \in [Callers -> SUBSET Windows]
       /\ confirmed' \in [Callers -> SUBSET Windows] /\ threats' \in [Callers -> SUBSET Windows]
    BY <1>21, <2>1 DEF Enter, Goto, Hold, Activate, lists, tracker, history
  <2>4. cur' \in [Callers -> Windows \union {<<>>}]
    BY <1>21, <2>1 DEF Enter, Goto, Hold, Activate, lists, tracker, history
  <2>5. \A u \in Callers : pc'[u] \in InMethod => cur'[u] \in Windows
    BY <1>21, <2>1 DEF Enter, Goto, Hold, Activate, lists, tracker, history
  <2>6. active' \subseteq Clusters /\ old' \subseteq active' /\ keyed' \subseteq Clusters
    BY <1>21, <2>1 DEF Enter, Goto, Hold, Activate, lists, tracker, history
  <2>7. normals' \in [Clusters -> Nat] /\ retries' \in [Clusters -> 0..MaxRetries]
    BY <1>21, <2>1 DEF Enter, Goto, Hold, Activate, lists, tracker, history
  <2>8. /\ by' \in [Clusters -> SUBSET Callers] /\ racing' \in [Clusters -> SUBSET Callers]
       /\ alerted' \subseteq Clusters /\ lost' \subseteq Clusters
    <3>1. Entering(ClusterOf(cur[t])) \subseteq Callers
      BY DEF Entering
    <3> QED
      BY <1>21, <2>1, <3>1 DEF Enter, Goto, Hold, Activate, lists, tracker, history
  <2> QED
    BY <2>2, <2>3, <2>4, <2>5, <2>6, <2>7, <2>8
<1>22. ASSUME NEW t \in Callers, Zero(t) PROVE TypeOK'
  <2>1. cur[t] \in Windows /\ ClusterOf(cur[t]) \in Clusters
    BY <1>22, HandCluster DEF Zero, InMethod
  <2>2. pc' \in [Callers -> Points] /\ clearer' \in [Callers -> Clearers \union {"none"}]
    BY <1>22, <2>1 DEF Zero, Goto, Hold, ZeroNormals, Put, lists, tracker, history
  <2>3. /\ todo' \in [Callers -> SUBSET Windows] /\ found' \in [Callers -> SUBSET Windows]
       /\ confirmed' \in [Callers -> SUBSET Windows] /\ threats' \in [Callers -> SUBSET Windows]
    BY <1>22, <2>1 DEF Zero, Goto, Hold, ZeroNormals, Put, lists, tracker, history
  <2>4. cur' \in [Callers -> Windows \union {<<>>}]
    BY <1>22, <2>1 DEF Zero, Goto, Hold, ZeroNormals, Put, lists, tracker, history
  <2>5. \A u \in Callers : pc'[u] \in InMethod => cur'[u] \in Windows
    BY <1>22, <2>1 DEF Zero, Goto, Hold, ZeroNormals, Put, lists, tracker, history
  <2>6. active' \subseteq Clusters /\ old' \subseteq active' /\ keyed' \subseteq Clusters
    BY <1>22, <2>1 DEF Zero, Goto, Hold, ZeroNormals, Put, lists, tracker, history
  <2>7. normals' \in [Clusters -> Nat] /\ retries' \in [Clusters -> 0..MaxRetries]
    BY <1>22, <2>1 DEF Zero, Goto, Hold, ZeroNormals, Put, lists, tracker, history
  <2>8. /\ by' \in [Clusters -> SUBSET Callers] /\ racing' \in [Clusters -> SUBSET Callers]
       /\ alerted' \subseteq Clusters /\ lost' \subseteq Clusters
    BY <1>22, <2>1 DEF Zero, Goto, Hold, ZeroNormals, Put, lists, tracker, history
  <2> QED
    BY <2>2, <2>3, <2>4, <2>5, <2>6, <2>7, <2>8
<1>23. ASSUME NEW t \in Callers, RegistrationEnds(t) PROVE TypeOK'
  <2>1. pc' \in [Callers -> Points] /\ clearer' \in [Callers -> Clearers \union {"none"}]
    BY <1>23 DEF RegistrationEnds, Goto, Hold, lists, tracker, history
  <2>2. /\ todo' \in [Callers -> SUBSET Windows] /\ found' \in [Callers -> SUBSET Windows]
       /\ confirmed' \in [Callers -> SUBSET Windows] /\ threats' \in [Callers -> SUBSET Windows]
    BY <1>23 DEF RegistrationEnds, Goto, Hold, lists, tracker, history
  <2>3. cur' \in [Callers -> Windows \union {<<>>}]
    BY <1>23 DEF RegistrationEnds, Goto, Hold, lists, tracker, history
  <2>4. \A u \in Callers : pc'[u] \in InMethod => cur'[u] \in Windows
    BY <1>23 DEF RegistrationEnds, Goto, Hold, lists, tracker, history
  <2>5. active' \subseteq Clusters /\ old' \subseteq active' /\ keyed' \subseteq Clusters
    BY <1>23 DEF RegistrationEnds, Goto, Hold, lists, tracker, history
  <2>6. normals' \in [Clusters -> Nat] /\ retries' \in [Clusters -> 0..MaxRetries]
    BY <1>23 DEF RegistrationEnds, Goto, Hold, lists, tracker, history
  <2>7. /\ by' \in [Clusters -> SUBSET Callers] /\ racing' \in [Clusters -> SUBSET Callers]
       /\ alerted' \subseteq Clusters /\ lost' \subseteq Clusters
    BY <1>23 DEF RegistrationEnds, Goto, Hold, lists, tracker, history
  <2> QED
    BY <2>1, <2>2, <2>3, <2>4, <2>5, <2>6, <2>7
<1>24. ASSUME NEW t \in Callers, Forward(t) PROVE TypeOK'
  <2>1. pc' \in [Callers -> Points] /\ clearer' \in [Callers -> Clearers \union {"none"}]
    BY <1>24 DEF Forward, Goto, Hold, lists, tracker, history
  <2>2. /\ todo' \in [Callers -> SUBSET Windows] /\ found' \in [Callers -> SUBSET Windows]
       /\ confirmed' \in [Callers -> SUBSET Windows] /\ threats' \in [Callers -> SUBSET Windows]
    BY <1>24 DEF Forward, Goto, Hold, lists, tracker, history
  <2>3. cur' \in [Callers -> Windows \union {<<>>}]
    BY <1>24 DEF Forward, Goto, Hold, lists, tracker, history
  <2>4. \A u \in Callers : pc'[u] \in InMethod => cur'[u] \in Windows
    BY <1>24 DEF Forward, Goto, Hold, lists, tracker, history
  <2>5. active' \subseteq Clusters /\ old' \subseteq active' /\ keyed' \subseteq Clusters
    BY <1>24 DEF Forward, Goto, Hold, lists, tracker, history
  <2>6. normals' \in [Clusters -> Nat] /\ retries' \in [Clusters -> 0..MaxRetries]
    BY <1>24 DEF Forward, Goto, Hold, lists, tracker, history
  <2>7. /\ by' \in [Clusters -> SUBSET Callers] /\ racing' \in [Clusters -> SUBSET Callers]
       /\ alerted' \subseteq Clusters /\ lost' \subseteq Clusters
    BY <1>24, ReportedClusters DEF Forward, Goto, Hold, lists, tracker, history
  <2> QED
    BY <2>1, <2>2, <2>3, <2>4, <2>5, <2>6, <2>7
<1>25. CASE UNCHANGED vars
  BY <1>25 DEF vars, lists, tracker, history
<1> QED
  BY <1>1, <1>2, <1>3, <1>4, <1>5, <1>6, <1>7, <1>8, <1>9, <1>10, <1>11, <1>12, <1>13, <1>14, <1>15, <1>16, <1>17, <1>18, <1>19, <1>20, <1>21, <1>22, <1>23, <1>24, <1>25 DEF Next, ProcessBatch, Detect, Investigate

(* An incident is registered by somebody exactly as long as it is active. *)
LEMMA ByStep == TypeOK /\ ByInv /\ [Next]_vars => ByInv'
<1> SUFFICES ASSUME TypeOK, ByInv, [Next]_vars PROVE ByInv'
  OBVIOUS
<1> USE WindowCluster DEF TypeOK, ByInv
<1>1. ASSUME NEW c \in Clusters, Age(c) PROVE ByInv'
  BY <1>1 DEF Age, lists, tracker, history
<1>2. ASSUME NEW t \in Callers, Receive(t) PROVE ByInv'
  BY <1>2 DEF Receive, Goto, Hold, lists, tracker, history
<1>3. ASSUME NEW t \in Callers, NEW w \in Windows, WindowNormal(t, w) PROVE ByInv'
  BY <1>3 DEF WindowNormal, Goto, Hold, Put, Drop, lists, tracker, history
<1>4. ASSUME NEW t \in Callers, Count(t) PROVE ByInv'
  <2>1. cur[t] \in Windows /\ ClusterOf(cur[t]) \in Clusters
    BY <1>4, HandCluster DEF Count, InMethod
  <2> QED
    BY <1>4, <2>1 DEF Count, Goto, Hold, lists, tracker, history
<1>5. ASSUME NEW t \in Callers, CompareCalm(t) PROVE ByInv'
  <2>1. cur[t] \in Windows /\ ClusterOf(cur[t]) \in Clusters
    BY <1>5, HandCluster DEF CompareCalm, InMethod
  <2> QED
    BY <1>5, <2>1 DEF CompareCalm, Goto, Hold, Calls, lists, tracker, history
<1>6. ASSUME NEW t \in Callers, CompareRaises(t) PROVE ByInv'
  <2>1. cur[t] \in Windows /\ ClusterOf(cur[t]) \in Clusters
    BY <1>6, HandCluster DEF CompareRaises, InMethod
  <2> QED
    BY <1>6, <2>1 DEF CompareRaises, Goto, Hold, Fails, lists, tracker, history
<1>7. ASSUME NEW t \in Callers, NEW w \in Windows, WindowSuspicious(t, w) PROVE ByInv'
  BY <1>7 DEF WindowSuspicious, Goto, Hold, Put, Drop, lists, tracker, history
<1>8. ASSUME NEW t \in Callers, Suspect(t) PROVE ByInv'
  <2>1. cur[t] \in Windows /\ ClusterOf(cur[t]) \in Clusters
    BY <1>8, HandCluster DEF Suspect, InMethod
  <2> QED
    BY <1>8, <2>1 DEF Suspect, Goto, Hold, Calls, lists, tracker, history
<1>9. ASSUME NEW t \in Callers, SuspectRaises(t) PROVE ByInv'
  <2>1. cur[t] \in Windows /\ ClusterOf(cur[t]) \in Clusters
    BY <1>9, HandCluster DEF SuspectRaises, InMethod
  <2> QED
    BY <1>9, <2>1 DEF SuspectRaises, Goto, Hold, Fails, lists, tracker, history
<1>10. ASSUME NEW t \in Callers, DetectionEnds(t) PROVE ByInv'
  BY <1>10 DEF DetectionEnds, Goto, Hold, lists, tracker, history
<1>11. ASSUME NEW t \in Callers, ClearIncident(t) PROVE ByInv'
  <2>1. cur[t] \in Windows /\ ClusterOf(cur[t]) \in Clusters
    BY <1>11, HandCluster DEF ClearIncident, InMethod
  <2> QED
    BY <1>11, <2>1 DEF ClearIncident, Goto, Hold, lists, tracker, history
<1>12. ASSUME NEW t \in Callers, ClearCount(t) PROVE ByInv'
  <2>1. cur[t] \in Windows /\ ClusterOf(cur[t]) \in Clusters
    BY <1>12, HandCluster DEF ClearCount, InMethod
  <2> QED
    BY <1>12, <2>1 DEF ClearCount, Goto, Hold, Put, lists, tracker, history
<1>13. ASSUME NEW t \in Callers, NEW w \in Windows, InvestigateConfirmed(t, w) PROVE ByInv'
  BY <1>13 DEF InvestigateConfirmed, Goto, Hold, Put, Drop, lists, tracker, history
<1>14. ASSUME NEW t \in Callers, NEW w \in Windows, InvestigateOther(t, w) PROVE ByInv'
  BY <1>14 DEF InvestigateOther, Goto, Hold, Put, Drop, lists, tracker, history
<1>15. ASSUME NEW t \in Callers, NEW w \in Windows, InvestigateInsufficient(t, w) PROVE ByInv'
  BY <1>15 DEF InvestigateInsufficient, Goto, Hold, Put, Drop, lists, tracker, history
<1>16. ASSUME NEW t \in Callers, InvestigationEnds(t) PROVE ByInv'
  BY <1>16 DEF InvestigationEnds, Goto, Hold, lists, tracker, history
<1>17. ASSUME NEW t \in Callers, NEW w \in Windows, Register(t, w) PROVE ByInv'
  BY <1>17 DEF Register, Goto, Hold, Put, Drop, lists, tracker, history
<1>18. ASSUME NEW t \in Callers, Lookup(t) PROVE ByInv'
  <2>1. cur[t] \in Windows /\ ClusterOf(cur[t]) \in Clusters
    BY <1>18, HandCluster DEF Lookup, InMethod
  <2> QED
    BY <1>18, <2>1 DEF Lookup, Goto, Hold, Calls, lists, tracker, history
<1>19. ASSUME NEW t \in Callers, LookupRaises(t) PROVE ByInv'
  <2>1. cur[t] \in Windows /\ ClusterOf(cur[t]) \in Clusters
    BY <1>19, HandCluster DEF LookupRaises, InMethod
  <2> QED
    BY <1>19, <2>1 DEF LookupRaises, Goto, Hold, Fails, lists, tracker, history
<1>20. ASSUME NEW t \in Callers, Reset(t) PROVE ByInv'
  <2>1. cur[t] \in Windows /\ ClusterOf(cur[t]) \in Clusters
    BY <1>20, HandCluster DEF Reset, InMethod
  <2> QED
    BY <1>20, <2>1 DEF Reset, Goto, Hold, ZeroNormals, lists, tracker, history
<1>21. ASSUME NEW t \in Callers, Enter(t) PROVE ByInv'
  <2>1. cur[t] \in Windows /\ ClusterOf(cur[t]) \in Clusters
    BY <1>21, HandCluster DEF Enter, InMethod
  <2> QED
    BY <1>21, <2>1 DEF Enter, Goto, Hold, Activate, lists, tracker, history
<1>22. ASSUME NEW t \in Callers, Zero(t) PROVE ByInv'
  <2>1. cur[t] \in Windows /\ ClusterOf(cur[t]) \in Clusters
    BY <1>22, HandCluster DEF Zero, InMethod
  <2> QED
    BY <1>22, <2>1 DEF Zero, Goto, Hold, ZeroNormals, Put, lists, tracker, history
<1>23. ASSUME NEW t \in Callers, RegistrationEnds(t) PROVE ByInv'
  BY <1>23 DEF RegistrationEnds, Goto, Hold, lists, tracker, history
<1>24. ASSUME NEW t \in Callers, Forward(t) PROVE ByInv'
  BY <1>24 DEF Forward, Goto, Hold, lists, tracker, history
<1>25. CASE UNCHANGED vars
  BY <1>25 DEF vars, lists, tracker, history
<1> QED
  BY <1>1, <1>2, <1>3, <1>4, <1>5, <1>6, <1>7, <1>8, <1>9, <1>10, <1>11, <1>12, <1>13, <1>14, <1>15, <1>16, <1>17, <1>18, <1>19, <1>20, <1>21, <1>22, <1>23, <1>24, <1>25 DEF Next, ProcessBatch, Detect, Investigate

(* An incident becomes active with its alert in the caller's hands, and leaves them only by a request, sent or lost. *)
LEMMA AccountedStep == TypeOK /\ AlertAccounted /\ [Next]_vars => AlertAccounted'
<1> SUFFICES ASSUME TypeOK, AlertAccounted, [Next]_vars PROVE AlertAccounted'
  OBVIOUS
<1> USE WindowCluster DEF TypeOK, AlertAccounted, Reported
<1>1. ASSUME NEW c \in Clusters, Age(c) PROVE AlertAccounted'
  BY <1>1 DEF Age, lists, tracker, history
<1>2. ASSUME NEW t \in Callers, Receive(t) PROVE AlertAccounted'
  BY <1>2 DEF Receive, Goto, Hold, lists, tracker, history
<1>3. ASSUME NEW t \in Callers, NEW w \in Windows, WindowNormal(t, w) PROVE AlertAccounted'
  BY <1>3 DEF WindowNormal, Goto, Hold, Put, Drop, lists, tracker, history
<1>4. ASSUME NEW t \in Callers, Count(t) PROVE AlertAccounted'
  <2>1. cur[t] \in Windows /\ ClusterOf(cur[t]) \in Clusters
    BY <1>4, HandCluster DEF Count, InMethod
  <2> QED
    BY <1>4, <2>1 DEF Count, Goto, Hold, lists, tracker, history
<1>5. ASSUME NEW t \in Callers, CompareCalm(t) PROVE AlertAccounted'
  <2>1. cur[t] \in Windows /\ ClusterOf(cur[t]) \in Clusters
    BY <1>5, HandCluster DEF CompareCalm, InMethod
  <2> QED
    BY <1>5, <2>1 DEF CompareCalm, Goto, Hold, Calls, lists, tracker, history
<1>6. ASSUME NEW t \in Callers, CompareRaises(t) PROVE AlertAccounted'
  <2>1. Fails(t)
    BY <1>6 DEF CompareRaises
  <2> QED
    BY <2>1, FailsAccounted
<1>7. ASSUME NEW t \in Callers, NEW w \in Windows, WindowSuspicious(t, w) PROVE AlertAccounted'
  BY <1>7 DEF WindowSuspicious, Goto, Hold, Put, Drop, lists, tracker, history
<1>8. ASSUME NEW t \in Callers, Suspect(t) PROVE AlertAccounted'
  <2>1. cur[t] \in Windows /\ ClusterOf(cur[t]) \in Clusters
    BY <1>8, HandCluster DEF Suspect, InMethod
  <2> QED
    BY <1>8, <2>1 DEF Suspect, Goto, Hold, Calls, lists, tracker, history
<1>9. ASSUME NEW t \in Callers, SuspectRaises(t) PROVE AlertAccounted'
  <2>1. Fails(t)
    BY <1>9 DEF SuspectRaises
  <2> QED
    BY <2>1, FailsAccounted
<1>10. ASSUME NEW t \in Callers, DetectionEnds(t) PROVE AlertAccounted'
  BY <1>10 DEF DetectionEnds, Goto, Hold, lists, tracker, history
<1>11. ASSUME NEW t \in Callers, ClearIncident(t) PROVE AlertAccounted'
  <2>1. cur[t] \in Windows /\ ClusterOf(cur[t]) \in Clusters
    BY <1>11, HandCluster DEF ClearIncident, InMethod
  <2> QED
    BY <1>11, <2>1 DEF ClearIncident, Goto, Hold, lists, tracker, history
<1>12. ASSUME NEW t \in Callers, ClearCount(t) PROVE AlertAccounted'
  <2>1. cur[t] \in Windows /\ ClusterOf(cur[t]) \in Clusters
    BY <1>12, HandCluster DEF ClearCount, InMethod
  <2> QED
    BY <1>12, <2>1 DEF ClearCount, Goto, Hold, Put, lists, tracker, history
<1>13. ASSUME NEW t \in Callers, NEW w \in Windows, InvestigateConfirmed(t, w) PROVE AlertAccounted'
  BY <1>13 DEF InvestigateConfirmed, Goto, Hold, Put, Drop, lists, tracker, history
<1>14. ASSUME NEW t \in Callers, NEW w \in Windows, InvestigateOther(t, w) PROVE AlertAccounted'
  BY <1>14 DEF InvestigateOther, Goto, Hold, Put, Drop, lists, tracker, history
<1>15. ASSUME NEW t \in Callers, NEW w \in Windows, InvestigateInsufficient(t, w) PROVE AlertAccounted'
  BY <1>15 DEF InvestigateInsufficient, Goto, Hold, Put, Drop, lists, tracker, history
<1>16. ASSUME NEW t \in Callers, InvestigationEnds(t) PROVE AlertAccounted'
  BY <1>16 DEF InvestigationEnds, Goto, Hold, lists, tracker, history
<1>17. ASSUME NEW t \in Callers, NEW w \in Windows, Register(t, w) PROVE AlertAccounted'
  BY <1>17 DEF Register, Goto, Hold, Put, Drop, lists, tracker, history
<1>18. ASSUME NEW t \in Callers, Lookup(t) PROVE AlertAccounted'
  <2>1. cur[t] \in Windows /\ ClusterOf(cur[t]) \in Clusters
    BY <1>18, HandCluster DEF Lookup, InMethod
  <2> QED
    BY <1>18, <2>1 DEF Lookup, Goto, Hold, Calls, lists, tracker, history
<1>19. ASSUME NEW t \in Callers, LookupRaises(t) PROVE AlertAccounted'
  <2>1. Fails(t)
    BY <1>19 DEF LookupRaises
  <2> QED
    BY <2>1, FailsAccounted
<1>20. ASSUME NEW t \in Callers, Reset(t) PROVE AlertAccounted'
  <2>1. cur[t] \in Windows /\ ClusterOf(cur[t]) \in Clusters
    BY <1>20, HandCluster DEF Reset, InMethod
  <2> QED
    BY <1>20, <2>1 DEF Reset, Goto, Hold, ZeroNormals, lists, tracker, history
<1>21. ASSUME NEW t \in Callers, Enter(t) PROVE AlertAccounted'
  <2>1. ClusterOf(cur[t]) \in Clusters
    BY <1>21, HandCluster DEF Enter, InMethod
  <2>2. /\ pc' = [pc EXCEPT ![t] = "zero"] /\ pc[t] = "enter" /\ UNCHANGED <<cur, threats, alerted, lost>>
        /\ active' = active \union {ClusterOf(cur[t])}
        /\ by' = [by EXCEPT ![ClusterOf(cur[t])] = @ \union {t}]
    BY <1>21 DEF Enter, Activate, Goto, lists
  <2>3. ClusterOf(cur[t]) \in Reported(t)'
    BY <2>1, <2>2 DEF Reported
  <2>4. \A u \in Callers : Reported(u) \subseteq Reported(u)'
    BY <2>1, <2>2 DEF Reported
  <2> HIDE DEF TypeOK, AlertAccounted, Reported
  <2> QED
    BY <2>2, <2>3, <2>4, StillAccounted
<1>22. ASSUME NEW t \in Callers, Zero(t) PROVE AlertAccounted'
  <2>1. cur[t] \in Windows /\ ClusterOf(cur[t]) \in Clusters
    BY <1>22, HandCluster DEF Zero, InMethod
  <2> QED
    BY <1>22, <2>1 DEF Zero, Goto, Hold, ZeroNormals, Put, lists, tracker, history
<1>23. ASSUME NEW t \in Callers, RegistrationEnds(t) PROVE AlertAccounted'
  <2>1. /\ pc[t] = "register" /\ UNCHANGED <<threats, cur, by, active, alerted, lost>>
        /\ \A u \in Callers \ {t} : pc'[u] = pc[u]
    BY <1>23 DEF RegistrationEnds, Goto, lists, tracker, history
  <2>2. \A u \in Callers : Reported(u) \subseteq Reported(u)'
    BY <2>1 DEF Reported
  <2> HIDE DEF TypeOK, AlertAccounted, Reported
  <2> QED
    BY <2>1, <2>2, StillAccounted
<1>24. ASSUME NEW t \in Callers, Forward(t) PROVE AlertAccounted'
  <2>1. /\ UNCHANGED <<active, by, cur>> /\ alerted \union lost \union Reported(t) \subseteq alerted' \union lost'
        /\ \A u \in Callers \ {t} : pc'[u] = pc[u] /\ threats'[u] = threats[u]
    BY <1>24 DEF Forward, Goto, tracker
  <2> HIDE DEF TypeOK, AlertAccounted, Reported
  <2> QED
    BY <2>1, OutputGone
<1>25. CASE UNCHANGED vars
  BY <1>25 DEF vars, lists, tracker, history
<1> QED
  BY <1>1, <1>2, <1>3, <1>4, <1>5, <1>6, <1>7, <1>8, <1>9, <1>10, <1>11, <1>12, <1>13, <1>14, <1>15, <1>16, <1>17, <1>18, <1>19, <1>20, <1>21, <1>22, <1>23, <1>24, <1>25 DEF Next, ProcessBatch, Detect, Investigate

(* Nobody joins those who are entering an incident while it is registered. *)
LEMMA RaceStep == TypeOK /\ ByInv /\ RaceInv /\ [Next]_vars => RaceInv'
<1> SUFFICES ASSUME TypeOK, ByInv, RaceInv, [Next]_vars PROVE RaceInv'
  OBVIOUS
<1> USE WindowCluster DEF TypeOK, ByInv, RaceInv, Entering
<1>1. ASSUME NEW c \in Clusters, Age(c) PROVE RaceInv'
  BY <1>1 DEF Age, lists, tracker, history
<1>2. ASSUME NEW t \in Callers, Receive(t) PROVE RaceInv'
  BY <1>2 DEF Receive, Goto, Hold, lists, tracker, history
<1>3. ASSUME NEW t \in Callers, NEW w \in Windows, WindowNormal(t, w) PROVE RaceInv'
  BY <1>3 DEF WindowNormal, Goto, Hold, Put, Drop, lists, tracker, history
<1>4. ASSUME NEW t \in Callers, Count(t) PROVE RaceInv'
  <2>1. cur[t] \in Windows /\ ClusterOf(cur[t]) \in Clusters
    BY <1>4, HandCluster DEF Count, InMethod
  <2> QED
    BY <1>4, <2>1 DEF Count, Goto, Hold, lists, tracker, history
<1>5. ASSUME NEW t \in Callers, CompareCalm(t) PROVE RaceInv'
  <2>1. cur[t] \in Windows /\ ClusterOf(cur[t]) \in Clusters
    BY <1>5, HandCluster DEF CompareCalm, InMethod
  <2> QED
    BY <1>5, <2>1 DEF CompareCalm, Goto, Hold, Calls, lists, tracker, history
<1>6. ASSUME NEW t \in Callers, CompareRaises(t) PROVE RaceInv'
  <2>1. cur[t] \in Windows /\ ClusterOf(cur[t]) \in Clusters
    BY <1>6, HandCluster DEF CompareRaises, InMethod
  <2> QED
    BY <1>6, <2>1 DEF CompareRaises, Goto, Hold, Fails, lists, tracker, history
<1>7. ASSUME NEW t \in Callers, NEW w \in Windows, WindowSuspicious(t, w) PROVE RaceInv'
  BY <1>7 DEF WindowSuspicious, Goto, Hold, Put, Drop, lists, tracker, history
<1>8. ASSUME NEW t \in Callers, Suspect(t) PROVE RaceInv'
  <2>1. cur[t] \in Windows /\ ClusterOf(cur[t]) \in Clusters
    BY <1>8, HandCluster DEF Suspect, InMethod
  <2>2. CASE ClusterOf(cur[t]) \in old
    BY <1>8, <2>1, <2>2 DEF Suspect, Goto, Calls, history
  <2>3. CASE ClusterOf(cur[t]) \notin old
    BY <1>8, <2>1, <2>3 DEF Suspect, Goto, Hold, history
  <2> QED
    BY <2>2, <2>3
<1>9. ASSUME NEW t \in Callers, SuspectRaises(t) PROVE RaceInv'
  <2>1. cur[t] \in Windows /\ ClusterOf(cur[t]) \in Clusters
    BY <1>9, HandCluster DEF SuspectRaises, InMethod
  <2> QED
    BY <1>9, <2>1 DEF SuspectRaises, Goto, Hold, Fails, lists, tracker, history
<1>10. ASSUME NEW t \in Callers, DetectionEnds(t) PROVE RaceInv'
  BY <1>10 DEF DetectionEnds, Goto, Hold, lists, tracker, history
<1>11. ASSUME NEW t \in Callers, ClearIncident(t) PROVE RaceInv'
  <2>1. cur[t] \in Windows /\ ClusterOf(cur[t]) \in Clusters
    BY <1>11, HandCluster DEF ClearIncident, InMethod
  <2> QED
    BY <1>11, <2>1 DEF ClearIncident, Goto, Hold, lists, tracker, history
<1>12. ASSUME NEW t \in Callers, ClearCount(t) PROVE RaceInv'
  <2>1. cur[t] \in Windows /\ ClusterOf(cur[t]) \in Clusters
    BY <1>12, HandCluster DEF ClearCount, InMethod
  <2> QED
    BY <1>12, <2>1 DEF ClearCount, Goto, Hold, Put, lists, tracker, history
<1>13. ASSUME NEW t \in Callers, NEW w \in Windows, InvestigateConfirmed(t, w) PROVE RaceInv'
  BY <1>13 DEF InvestigateConfirmed, Goto, Hold, Put, Drop, lists, tracker, history
<1>14. ASSUME NEW t \in Callers, NEW w \in Windows, InvestigateOther(t, w) PROVE RaceInv'
  BY <1>14 DEF InvestigateOther, Goto, Hold, Put, Drop, lists, tracker, history
<1>15. ASSUME NEW t \in Callers, NEW w \in Windows, InvestigateInsufficient(t, w) PROVE RaceInv'
  BY <1>15 DEF InvestigateInsufficient, Goto, Hold, Put, Drop, lists, tracker, history
<1>16. ASSUME NEW t \in Callers, InvestigationEnds(t) PROVE RaceInv'
  BY <1>16 DEF InvestigationEnds, Goto, Hold, lists, tracker, history
<1>17. ASSUME NEW t \in Callers, NEW w \in Windows, Register(t, w) PROVE RaceInv'
  BY <1>17 DEF Register, Goto, Hold, Put, Drop, lists, tracker, history
<1>18. ASSUME NEW t \in Callers, Lookup(t) PROVE RaceInv'
  <2>1. cur[t] \in Windows /\ ClusterOf(cur[t]) \in Clusters
    BY <1>18, HandCluster DEF Lookup, InMethod
  <2> QED
    BY <1>18, <2>1 DEF Lookup, Goto, Hold, Calls, lists, tracker, history
<1>19. ASSUME NEW t \in Callers, LookupRaises(t) PROVE RaceInv'
  <2>1. cur[t] \in Windows /\ ClusterOf(cur[t]) \in Clusters
    BY <1>19, HandCluster DEF LookupRaises, InMethod
  <2> QED
    BY <1>19, <2>1 DEF LookupRaises, Goto, Hold, Fails, lists, tracker, history
<1>20. ASSUME NEW t \in Callers, Reset(t) PROVE RaceInv'
  <2>1. cur[t] \in Windows /\ ClusterOf(cur[t]) \in Clusters
    BY <1>20, HandCluster DEF Reset, InMethod
  <2> QED
    BY <1>20, <2>1 DEF Reset, Goto, Hold, ZeroNormals, lists, tracker, history
<1>21. ASSUME NEW t \in Callers, Enter(t) PROVE RaceInv'
  <2>1. cur[t] \in Windows /\ ClusterOf(cur[t]) \in Clusters
    BY <1>21, HandCluster DEF Enter, InMethod
  <2> QED
    BY <1>21, <2>1 DEF Enter, Goto, Hold, Activate, lists, tracker, history
<1>22. ASSUME NEW t \in Callers, Zero(t) PROVE RaceInv'
  <2>1. cur[t] \in Windows /\ ClusterOf(cur[t]) \in Clusters
    BY <1>22, HandCluster DEF Zero, InMethod
  <2> QED
    BY <1>22, <2>1 DEF Zero, Goto, Hold, ZeroNormals, Put, lists, tracker, history
<1>23. ASSUME NEW t \in Callers, RegistrationEnds(t) PROVE RaceInv'
  BY <1>23 DEF RegistrationEnds, Goto, Hold, lists, tracker, history
<1>24. ASSUME NEW t \in Callers, Forward(t) PROVE RaceInv'
  BY <1>24 DEF Forward, Goto, Hold, lists, tracker, history
<1>25. CASE UNCHANGED vars
  BY <1>25 DEF vars, lists, tracker, history
<1> QED
  BY <1>1, <1>2, <1>3, <1>4, <1>5, <1>6, <1>7, <1>8, <1>9, <1>10, <1>11, <1>12, <1>13, <1>14, <1>15, <1>16, <1>17, <1>18, <1>19, <1>20, <1>21, <1>22, <1>23, <1>24, <1>25 DEF Next, ProcessBatch, Detect, Investigate

(* The inductive invariant holds throughout. *)
THEOREM InductiveInvariant == Spec => []IInv
<1>1. Init => IInv
  <2> SUFFICES ASSUME Init PROVE IInv
    OBVIOUS
  <2>1. 0 \in 0..MaxRetries /\ 0 \in 0..Threshold
    BY RetriesAssumption, ThresholdAssumption
  <2>2. TypeOK
    BY <2>1 DEF Init, TypeOK, Points, InMethod, Clearers
  <2>3. ByInv /\ RaceInv /\ AlertAccounted
    BY DEF Init, ByInv, RaceInv, Entering, AlertAccounted
  <2> QED
    BY <2>2, <2>3 DEF IInv
<1>2. IInv /\ [Next]_vars => IInv'
  BY TypeStep, ByStep, AccountedStep, RaceStep DEF IInv
<1> QED
  BY <1>1, <1>2, PTL DEF Spec

(* Type correctness (TypeOK): every list of every caller and both trackers keep
   their types for any batches, threshold and retry limit. *)
THEOREM TypeCorrect == Spec => []TypeOK
<1>1. IInv => TypeOK
  BY DEF IInv
<1> QED
  BY <1>1, InductiveInvariant, PTL

(* No interleaving of the callers registers an incident that nobody reports
   (process_batch, forward_to_aquapulse_platform). *)
THEOREM ActiveIncidentsAccounted == Spec => []AlertAccounted
<1>1. IInv => AlertAccounted
  BY DEF IInv
<1> QED
  BY <1>1, InductiveInvariant, PTL

(* An incident that is registered is registered again only by a caller that had found
   none before it began, and once by each: without a race there is one alert
   (register_incident, is_active, clear). *)
THEOREM SecondAlertsRaced == Spec => []OnlyRacersAlert
<1>1. IInv => OnlyRacersAlert
  <2> SUFFICES ASSUME IInv, NEW t \in Callers, pc[t] = "enter", by[ClusterOf(cur[t])] # {}
               PROVE  t \in racing[ClusterOf(cur[t])] \ by[ClusterOf(cur[t])]
    BY DEF OnlyRacersAlert
  <2>1. ClusterOf(cur[t]) \in Clusters
    BY HandCluster DEF IInv, InMethod
  <2>2. t \in Entering(ClusterOf(cur[t]))
    BY DEF Entering
  <2> QED
    BY <2>1, <2>2 DEF IInv, RaceInv
<1> QED
  BY <1>1, InductiveInvariant, PTL

-----------------------------------------------------------------------------
(***************************************************************************)
(* What the agent makes of one cluster (AgentVerdicts).                    *)
(***************************************************************************)
\* The greatest and the least of two numbers, and of one.
LEMMA OfTwo ==
  ASSUME NEW x \in Int, NEW y \in Int
  PROVE  /\ Max({x, y}) = IF x >= y THEN x ELSE y
         /\ Min({x, y}) = IF x <= y THEN x ELSE y
BY DEF Min, Max

LEMMA OfOne == ASSUME NEW x \in Int PROVE Max(Magnitudes({x})) = IF x < 0 THEN -x ELSE x
<1>1. Magnitudes({x}) = {IF x < 0 THEN -x ELSE x}
  BY DEF Magnitudes
<1>2. (IF x < 0 THEN -x ELSE x) \in Int
  OBVIOUS
<1> QED
  BY <1>1, <1>2, OfTwo

\* The forest's score, whatever it is, moves no window over the guardrails.
LEMMA EveryGuardrailDecides == ASSUME NEW w \in DetectorWindows PROVE GuardrailsDecide(w)
<1>1. /\ w.dp \in Int /\ w.dq \in Int /\ w.ps \in Int /\ w.qs \in Int /\ w.forest \in Int
  BY DetectorWindowsAssumption
<1>2. MajorLeak(w) \/ ModerateLeak(w) => LeakProbability(w) >= 75
  <2>1. Max({90, w.forest}) >= 75 /\ Max({75, w.forest}) >= 75
    BY <1>1, OfTwo
  <2> QED
    BY <2>1 DEF LeakProbability
<1>3. Noise(w) => ~ MajorLeak(w)
  BY <1>1, OfOne DEF Noise, MajorLeak
<1>4. Noise(w) /\ ~ ModerateLeak(w) => ~ LeakProbability(w) >= 75
  <2>1. PICK f \in Int : f = w.forest
    BY <1>1
  <2>2. Min({5, f}) = IF 5 <= f THEN 5 ELSE f
    BY OfTwo
  <2>3. ~ Min({5, w.forest}) >= 75
    BY <2>1, <2>2
  <2> QED
    BY <1>3, <2>3 DEF LeakProbability
<1> QED
  BY <1>2, <1>4 DEF GuardrailsDecide, Suspected

-----------------------------------------------------------------------------
LEMMA ReachabilityOf ==
  /\ Reachability("reachable") = "REACHABLE"
  /\ Reachability("unreachable") = "UNREACHABLE"
  /\ Reachability("no_field") = "UNKNOWN"
  /\ Reachability("raises") = "UNKNOWN"
BY DEF Reachability

\* What the decision tree tells of each answer.
LEMMA VerdictUnknown ==
  ASSUME NEW c, Reachability(c.reply) = "UNKNOWN"
  PROVE  Verdict(c) = [class |-> "insufficient_data", reach |-> "UNKNOWN", level |-> "UNAVAILABLE",
                       unavailable |-> TRUE, stale |-> FALSE, congestionFailed |-> FALSE, requeue |-> TRUE]
BY Zenon DEF Verdict

LEMMA VerdictReachable ==
  ASSUME NEW c, Reachability(c.reply) = "REACHABLE"
  PROVE  /\ Verdict(c).class = "confirmed_anomaly" /\ Verdict(c).reach = "REACHABLE"
         /\ ~ Verdict(c).unavailable /\ ~ Verdict(c).stale
BY Zenon DEF Verdict

LEMMA VerdictFailed ==
  ASSUME NEW c, Reachability(c.reply) = "UNREACHABLE", CongestionFailed(c)
  PROVE  /\ Verdict(c).class = "insufficient_data" /\ Verdict(c).requeue /\ Verdict(c).unavailable
BY Zenon DEF Verdict

LEMMA VerdictUnreachable ==
  ASSUME NEW c, Reachability(c.reply) = "UNREACHABLE"
  PROVE  Verdict(c).class # "confirmed_anomaly"
BY Zenon DEF Verdict

LEMMA TierOfInsufficient == ASSUME NEW v, NEW r, v.class = "insufficient_data" PROVE Tier(v, r) = 2
BY Zenon DEF Tier

LEMMA TwoAreAnOutage == ASSUME NEW v, v.unavailable PROVE PlatformOffline(<<v, v>>)
<1>1. {i \in DOMAIN <<v, v>> : <<v, v>>[i].unavailable} = 1..2
  OBVIOUS
<1>2. Cardinality(1..2) = 2
  <2>1. PICK a \in Int, b \in Int : a = 1 /\ b = 2
    OBVIOUS
  <2>2. Cardinality(a..b) = IF a > b THEN 0 ELSE b - a + 1
    BY FS_Interval
  <2> QED
    BY <2>1, <2>2
<1> QED
  BY <1>1, <1>2 DEF PlatformOffline, Quantify

LEMMA EveryFailureIsNoVerdict == ASSUME NEW c \in Answered PROVE FailureIsNoVerdict(c)
<1> SUFFICES ASSUME c.reply \in {"no_field", "raises"} \/ (c.reply = "unreachable" /\ CongestionFailed(c))
             PROVE  /\ Verdict(c).class = "insufficient_data" /\ Verdict(c).requeue
                    /\ Verdict(c).unavailable
  BY TierOfInsufficient, TwoAreAnOutage DEF FailureIsNoVerdict
<1>1. CASE c.reply \in {"no_field", "raises"}
  BY <1>1, ReachabilityOf, VerdictUnknown
<1>2. CASE c.reply = "unreachable" /\ CongestionFailed(c)
  BY <1>2, ReachabilityOf, VerdictFailed
<1> QED
  BY <1>1, <1>2

LEMMA EveryThreatIsOnline == ASSUME NEW c \in Answered PROVE ThreatsAreOnline(c)
<1> DEFINE g == InvestigateCluster(c, [n |-> 4, fit |-> 0], "raises")
<1> SUFFICES ASSUME Published(g)
             PROVE  /\ ~ g.verdict.stale
                    /\ NetworkStatus(g.verdict).online <=> ~ c.crashes
                    /\ c.crashes => g.tier = 1
  BY DEF ThreatsAreOnline
<1>1. c.reply \in Replies /\ c.crashes \in BOOLEAN
  BY AnsweredAssumption
<1>2. CASE c.crashes
  BY <1>2 DEF InvestigateCluster, Fallback, NetworkStatus
<1>3. CASE ~ c.crashes
  <2>1. g.verdict = Verdict(c)
    BY <1>3 DEF InvestigateCluster, Graph
  <2>2. Verdict(c).class = "confirmed_anomaly"
    BY <2>1 DEF Published
  <2>3. Reachability(c.reply) # "UNREACHABLE" /\ Reachability(c.reply) # "UNKNOWN"
    BY <2>2, VerdictUnreachable, VerdictUnknown
  <2>4. Reachability(c.reply) = "REACHABLE"
    BY <1>1, <2>3, ReachabilityOf DEF Replies
  <2>5. /\ Verdict(c).reach = "REACHABLE" /\ ~ Verdict(c).unavailable /\ ~ Verdict(c).stale
    BY <2>4, VerdictReachable
  <2> QED
    BY <1>3, <2>1, <2>5 DEF NetworkStatus
<1> QED
  BY <1>2, <1>3

-----------------------------------------------------------------------------
LEMMA SeverityTierOf ==
  ASSUME NEW r, r.n \in Int
  PROVE  /\ r.n < 5 => SeverityTier(r) = 1
         /\ ~ r.n < 5 /\ Tier3(r) => SeverityTier(r) = 3
         /\ ~ r.n < 5 /\ ~ Tier3(r) /\ Tier2(r) => SeverityTier(r) = 2
         /\ ~ r.n < 5 /\ ~ Tier3(r) /\ ~ Tier2(r) => SeverityTier(r) = 1
<1>1. r.n < 5 \/ r.n >= 5
  OBVIOUS
<1>2. ~ (r.n < 5 /\ r.n >= 5)
  OBVIOUS
<1> QED
  BY <1>1, <1>2, Zenon DEF SeverityTier

LEMMA TierGrows ==
  ASSUME NEW x \in Observation, NEW y \in Observation, NoMilder(x, y)
  PROVE  (Tier3(x) => Tier3(y)) /\ (Tier2(x) => Tier2(y))
<1> DEFINE z == ZoneThresholds(x.zone)
<1>1. z = ZoneThresholds(y.zone) /\ z.t2 \in Int /\ z.t3 \in Int /\ z.slope \in Int
  <2>1. x.zone = y.zone
    BY DEF NoMilder
  <2> QED
    BY <2>1 DEF ZoneThresholds
<1> HIDE DEF z
<1>2. /\ x.drop \in Int /\ y.drop \in Int /\ x.surge \in Int /\ y.surge \in Int
      /\ x.slope \in Int /\ y.slope \in Int /\ x.fit \in Int /\ y.fit \in Int
  BY DEF Observation
<1>3. /\ x.drop <= y.drop /\ x.surge <= y.surge /\ x.fit <= y.fit /\ y.slope <= x.slope
      /\ HighCriticality(x) <=> HighCriticality(y)
  BY DEF NoMilder, HighCriticality
<1>4. Tier3(x) => Tier3(y)
  BY <1>1, <1>2, <1>3 DEF Tier3, z
<1>5. Tier2(x) => Tier2(y)
  BY <1>1, <1>2, <1>3 DEF Tier2, z
<1> QED
  BY <1>4, <1>5

LEMMA EveryTierMonotone == ASSUME NEW i \in ObservationPairs PROVE TierMonotone(i)
<1> SUFFICES ASSUME NEW x \in Observation, NEW y \in Observation, NoMilder(x, y)
             PROVE  SeverityTier(x) <= SeverityTier(y)
  BY ObservationPairsAssumption DEF TierMonotone
<1>1. x.n \in Int /\ y.n \in Int /\ x.n <= y.n
  BY DEF Observation, NoMilder
<1>2. y.n < 5 => x.n < 5
  BY <1>1
<1>3. (Tier3(x) => Tier3(y)) /\ (Tier2(x) => Tier2(y))
  BY TierGrows
<1> QED
  BY <1>1, <1>2, <1>3, SeverityTierOf

\* For all windows, answers and pairs of observations: the guardrails decide over any score of the
\* forest, no failed answer becomes a verdict, every published threat is of a device that answered
\* or of an investigation that crashed, and no worse observation gets a lower tier.
THEOREM VerdictsHold == VerdictsSpec => []VerdictsCautious
<1> DEFINE Tried == /\ subject = "window" => input \in DetectorWindows
                    /\ subject = "camara" => input \in Answered
                    /\ subject = "tier" => input \in ObservationPairs
<1>1. Untried => Tried
  BY DEF Untried
<1>2. Tried /\ [TryWindow \/ TryCamara \/ TryTier]_trial => Tried'
  BY DEF TryWindow, TryCamara, TryTier, Try, trial
<1>3. Tried => VerdictsCautious
  BY EveryGuardrailDecides, EveryFailureIsNoVerdict, EveryThreatIsOnline, EveryTierMonotone DEF VerdictsCautious, For
<1> QED
  BY <1>1, <1>2, <1>3, PTL DEF VerdictsSpec
=============================================================================
