------------------------ MODULE SliceLifecycleProofs ------------------------
(***************************************************************************)
(* Proofs about SliceLifecycle for any number of registrations, devices,   *)
(* incidents and notifications.  IInv is the inductive invariant:          *)
(*   ActivationInv  counts what each channel has still to send;            *)
(*   JobInv         ties the two attach loops to the watcher's control     *)
(*                  point and to the entry of PENDING_ATTACHMENTS;         *)
(*   SoloInv        is what one live watcher at a time may rely on: the    *)
(*                  entry is its own, or gone because somebody attaches.   *)
(* The module's second part is about the requests of RequestBatch, for any *)
(* messages, answers and polls.                                            *)
(***************************************************************************)
EXTENDS SliceLifecycle, RequestBatch, FiniteSetTheorems, WellFoundedInduction, TLAPS

ActivationInv ==
  \A w \in Watchers :
    /\ w \notin attempted => activations[w] = 0
    /\ activations[w] + (IF pc[w] = "activate" THEN 1 ELSE 0)
                      + (IF hook.at = "activate" /\ hook.data = w THEN 1 ELSE 0) <= 2

JobInv ==
  \A w \in Watchers :
    /\ attach["watch"][w] # 0 => pc[w] \in {"attach", "done"}
    /\ pc[w] = "attach" => attach["watch"][w] # 0
    /\ pc[w] = "done" => attach["watch"][w] \notin Devices \/ Raises(w, attach["watch"][w])
    /\ pc[w] = "idle" => attach["hook"][w] = 0
    /\ pending = w => attach["hook"][w] = 0 /\ pc[w] # "idle"

OneLive == \A v, w \in Watchers : Live(v) /\ Live(w) => v = w

OwnEntry ==
  \A w \in Watchers :
    Live(w) => \/ pending = w
               \/ pending = None /\ (attach["hook"][w] # 0 \/ pc[w] = "attach")

FromWatcher(w, d) == pc[w] = "done" \/ attach["watch"][w] > d

Reached ==
  \A i \in Incidents :
    /\ attach["hook"][i[1]] > i[2] => Decided(i)
    /\ attach["watch"][i[1]] > i[2] => Decided(i)
    /\ pc[i[1]] = "done" /\ Spared(i) => Decided(i) \/ attach["hook"][i[1]] # 0

Bounded ==
  \A i \in Incidents :
    grants[i] + denies[i] <= (IF FromWatcher(i[1], i[2]) THEN 1 ELSE 0)
                              + (IF attach["hook"][i[1]] > i[2] THEN 1 ELSE 0)

SoloInv == ~overlapped => OneLive /\ OwnEntry /\ Reached /\ Bounded

IInv == TypeOK /\ ActivationInv /\ JobInv /\ SoloInv

-----------------------------------------------------------------------------
(* Every step keeps the types. *)
LEMMA TypeStep == TypeOK /\ [Next]_vars => TypeOK'
<1> SUFFICES ASSUME TypeOK, [Next]_vars PROVE TypeOK'
  OBVIOUS
<1> USE DevicesAssumption, NoneAssumption, HooksAssumption, IncidentsAssumption DEF TypeOK, Devices, Channels, WatchPoints, SliceStates, Terminal, IdleHook
<1>1. CASE SliceAvailable
  BY <1>1 DEF SliceAvailable, network, server, decisions, Becomes
<1>2. CASE SliceOperates
  BY <1>2 DEF SliceOperates, network, server, decisions, Becomes
<1>3. CASE SliceFails
  BY <1>3 DEF SliceFails, network, server, decisions, Becomes
<1>4. CASE HookAvailable
  BY <1>4 DEF HookAvailable, network, server, decisions
<1>5. CASE HookCheck
  BY <1>5 DEF HookCheck, network, server, decisions
<1>6. CASE HookActivate
  <2>1. hook.data \in Watchers
    BY <1>6 DEF HookActivate
  <2>2. order' \in {"none", "placed"} /\ UNCHANGED <<slice, announced>>
    BY <1>6 DEF HookActivate, ActivateCall, network
  <2>3. activations' \in [Watchers -> Nat]
    BY <1>6, <2>1 DEF HookActivate, ActivateCall
  <2> QED
    BY <1>6, <2>1, <2>2, <2>3 DEF HookActivate, decisions
<1>7. CASE HookOperating
  BY <1>7 DEF HookOperating, network, server, decisions
<1>8. ASSUME NEW w \in Watchers, Register(w) PROVE TypeOK'
  BY <1>8 DEF Register, network, server, decisions
<1>9. ASSUME NEW w \in Watchers, WatchPoll(w) PROVE TypeOK'
  BY <1>9 DEF WatchPoll, network, server, decisions, WatchGoto
<1>10. ASSUME NEW w \in Watchers, WatchWait(w) PROVE TypeOK'
  BY <1>10 DEF WatchWait, network, server, decisions, WatchGoto
<1>11. ASSUME NEW w \in Watchers, WatchReap(w) PROVE TypeOK'
  BY <1>11 DEF WatchReap, network, server, decisions, DeleteCall, Becomes, WatchGoto
<1>12. ASSUME NEW w \in Watchers, WatchReapNotify(w) PROVE TypeOK'
  BY <1>12 DEF WatchReapNotify, network, server, decisions, Deny, WatchGoto
<1>13. ASSUME NEW w \in Watchers, WatchActivate(w) PROVE TypeOK'
  <2>1. order' \in {"none", "placed"} /\ UNCHANGED <<slice, announced>>
    BY <1>13 DEF WatchActivate, ActivateCall, network
  <2>2. activations' \in [Watchers -> Nat]
    BY <1>13 DEF WatchActivate, ActivateCall
  <2>3. pc' \in [Watchers -> WatchPoints] /\ attempted' \subseteq Watchers
    BY <1>13 DEF WatchActivate, WatchGoto
  <2> QED
    BY <1>13, <2>1, <2>2, <2>3 DEF WatchActivate, decisions
<1>14. ASSUME NEW w \in Watchers, WatchOperating(w) PROVE TypeOK'
  BY <1>14 DEF WatchOperating, network, server, decisions, WatchGoto
<1>15. ASSUME NEW w \in Watchers, WatchTake(w) PROVE TypeOK'
  BY <1>15 DEF WatchTake, network, server, decisions, WatchGoto
<1>16. ASSUME NEW w \in Watchers, WatchTerminal(w) PROVE TypeOK'
  BY <1>16 DEF WatchTerminal, network, server, decisions, Deny, WatchGoto
<1>17. ASSUME NEW w \in Watchers, WatchReturn(w) PROVE TypeOK'
  BY <1>17 DEF WatchReturn, network, server, decisions, WatchGoto
<1>18. ASSUME NEW c \in Channels, NEW w \in Watchers, AttachDevice(c, w) PROVE TypeOK'
  BY <1>18 DEF AttachDevice, network, server, decisions, Grant, Deny
<1>19. ASSUME NEW i \in Incidents, ReleaseDeactivate(i) PROVE TypeOK'
  BY <1>19 DEF ReleaseDeactivate, network, server, decisions, Becomes
<1>20. ASSUME NEW i \in Incidents, ReleaseDelete(i) PROVE TypeOK'
  BY <1>20 DEF ReleaseDelete, network, server, decisions, DeleteCall, Becomes
<1>21. ASSUME NEW i \in Incidents, ReleaseGivesUp(i) PROVE TypeOK'
  BY <1>21 DEF ReleaseGivesUp, network, server, decisions
<1>22. CASE UNCHANGED vars
  BY <1>22 DEF vars, network, server, decisions
<1> QED
  BY <1>1, <1>2, <1>3, <1>4, <1>5, <1>6, <1>7, <1>8, <1>9, <1>10, <1>11, <1>12, <1>13, <1>14, <1>15, <1>16, <1>17, <1>18, <1>19, <1>20, <1>21, <1>22 DEF Next, Operator, Hook, Watch, Release

(* Every step keeps the activation count within what the channels may spend. *)
LEMMA ActivationStep == TypeOK /\ ActivationInv /\ [Next]_vars => ActivationInv'
<1> SUFFICES ASSUME TypeOK, ActivationInv, [Next]_vars PROVE ActivationInv'
  OBVIOUS
<1> USE DevicesAssumption, NoneAssumption, HooksAssumption, IncidentsAssumption DEF TypeOK, Devices, Channels, WatchPoints, SliceStates, Terminal, IdleHook, ActivationInv
<1>1. CASE SliceAvailable
  BY <1>1 DEF SliceAvailable, network, server, decisions, Becomes
<1>2. CASE SliceOperates
  BY <1>2 DEF SliceOperates, network, server, decisions, Becomes
<1>3. CASE SliceFails
  BY <1>3 DEF SliceFails, network, server, decisions, Becomes
<1>4. CASE HookAvailable
  BY <1>4 DEF HookAvailable, network, server, decisions
<1>5. CASE HookCheck
  BY <1>5 DEF HookCheck, network, server, decisions
<1>6. CASE HookActivate
  BY <1>6 DEF HookActivate, network, server, decisions, ActivateCall
<1>7. CASE HookOperating
  BY <1>7 DEF HookOperating, network, server, decisions
<1>8. ASSUME NEW w \in Watchers, Register(w) PROVE ActivationInv'
  BY <1>8 DEF Register, network, server, decisions
<1>9. ASSUME NEW w \in Watchers, WatchPoll(w) PROVE ActivationInv'
  BY <1>9 DEF WatchPoll, network, server, decisions, WatchGoto
<1>10. ASSUME NEW w \in Watchers, WatchWait(w) PROVE ActivationInv'
  BY <1>10 DEF WatchWait, network, server, decisions, WatchGoto
<1>11. ASSUME NEW w \in Watchers, WatchReap(w) PROVE ActivationInv'
  BY <1>11 DEF WatchReap, network, server, decisions, DeleteCall, Becomes, WatchGoto
<1>12. ASSUME NEW w \in Watchers, WatchReapNotify(w) PROVE ActivationInv'
  BY <1>12 DEF WatchReapNotify, network, server, decisions, Deny, WatchGoto
<1>13. ASSUME NEW w \in Watchers, WatchActivate(w) PROVE ActivationInv'
  BY <1>13 DEF WatchActivate, network, server, decisions, ActivateCall, WatchGoto
<1>14. ASSUME NEW w \in Watchers, WatchOperating(w) PROVE ActivationInv'
  BY <1>14 DEF WatchOperating, network, server, decisions, WatchGoto
<1>15. ASSUME NEW w \in Watchers, WatchTake(w) PROVE ActivationInv'
  BY <1>15 DEF WatchTake, network, server, decisions, WatchGoto
<1>16. ASSUME NEW w \in Watchers, WatchTerminal(w) PROVE ActivationInv'
  BY <1>16 DEF WatchTerminal, network, server, decisions, Deny, WatchGoto
<1>17. ASSUME NEW w \in Watchers, WatchReturn(w) PROVE ActivationInv'
  BY <1>17 DEF WatchReturn, network, server, decisions, WatchGoto
<1>18. ASSUME NEW c \in Channels, NEW w \in Watchers, AttachDevice(c, w) PROVE ActivationInv'
  BY <1>18 DEF AttachDevice, network, server, decisions, Grant, Deny
<1>19. ASSUME NEW i \in Incidents, ReleaseDeactivate(i) PROVE ActivationInv'
  BY <1>19 DEF ReleaseDeactivate, network, server, decisions, Becomes
<1>20. ASSUME NEW i \in Incidents, ReleaseDelete(i) PROVE ActivationInv'
  BY <1>20 DEF ReleaseDelete, network, server, decisions, DeleteCall, Becomes
<1>21. ASSUME NEW i \in Incidents, ReleaseGivesUp(i) PROVE ActivationInv'
  BY <1>21 DEF ReleaseGivesUp, network, server, decisions
<1>22. CASE UNCHANGED vars
  BY <1>22 DEF vars, network, server, decisions
<1> QED
  BY <1>1, <1>2, <1>3, <1>4, <1>5, <1>6, <1>7, <1>8, <1>9, <1>10, <1>11, <1>12, <1>13, <1>14, <1>15, <1>16, <1>17, <1>18, <1>19, <1>20, <1>21, <1>22 DEF Next, Operator, Hook, Watch, Release

(* Every step keeps the attach loops tied to control points and entry. *)
LEMMA JobStep == TypeOK /\ JobInv /\ [Next]_vars => JobInv'
<1> SUFFICES ASSUME TypeOK, JobInv, [Next]_vars PROVE JobInv'
  OBVIOUS
<1> USE DevicesAssumption, NoneAssumption, HooksAssumption, IncidentsAssumption DEF TypeOK, Devices, Channels, WatchPoints, SliceStates, Terminal, IdleHook, JobInv
<1>1. CASE SliceAvailable
  BY <1>1 DEF SliceAvailable, network, server, decisions, Becomes
<1>2. CASE SliceOperates
  BY <1>2 DEF SliceOperates, network, server, decisions, Becomes
<1>3. CASE SliceFails
  BY <1>3 DEF SliceFails, network, server, decisions, Becomes
<1>4. CASE HookAvailable
  BY <1>4 DEF HookAvailable, network, server, decisions
<1>5. CASE HookCheck
  BY <1>5 DEF HookCheck, network, server, decisions
<1>6. CASE HookActivate
  BY <1>6 DEF HookActivate, network, server, decisions, ActivateCall
<1>7. CASE HookOperating
  BY <1>7 DEF HookOperating, network, server, decisions
<1>8. ASSUME NEW w \in Watchers, Register(w) PROVE JobInv'
  BY <1>8 DEF Register, network, server, decisions
<1>9. ASSUME NEW w \in Watchers, WatchPoll(w) PROVE JobInv'
  BY <1>9 DEF WatchPoll, network, server, decisions, WatchGoto
<1>10. ASSUME NEW w \in Watchers, WatchWait(w) PROVE JobInv'
  BY <1>10 DEF WatchWait, network, server, decisions, WatchGoto
<1>11. ASSUME NEW w \in Watchers, WatchReap(w) PROVE JobInv'
  BY <1>11 DEF WatchReap, network, server, decisions, DeleteCall, Becomes, WatchGoto
<1>12. ASSUME NEW w \in Watchers, WatchReapNotify(w) PROVE JobInv'
  BY <1>12 DEF WatchReapNotify, network, server, decisions, Deny, WatchGoto
<1>13. ASSUME NEW w \in Watchers, WatchActivate(w) PROVE JobInv'
  BY <1>13 DEF WatchActivate, network, server, decisions, ActivateCall, WatchGoto
<1>14. ASSUME NEW w \in Watchers, WatchOperating(w) PROVE JobInv'
  BY <1>14 DEF WatchOperating, network, server, decisions, WatchGoto
<1>15. ASSUME NEW w \in Watchers, WatchTake(w) PROVE JobInv'
  BY <1>15 DEF WatchTake, network, server, decisions, WatchGoto
<1>16. ASSUME NEW w \in Watchers, WatchTerminal(w) PROVE JobInv'
  BY <1>16 DEF WatchTerminal, network, server, decisions, Deny, WatchGoto
<1>17. ASSUME NEW w \in Watchers, WatchReturn(w) PROVE JobInv'
  BY <1>17 DEF WatchReturn, network, server, decisions, WatchGoto
<1>18. ASSUME NEW c \in Channels, NEW w \in Watchers, AttachDevice(c, w) PROVE JobInv'
  BY <1>18 DEF AttachDevice, network, server, decisions, Grant, Deny
<1>19. ASSUME NEW i \in Incidents, ReleaseDeactivate(i) PROVE JobInv'
  BY <1>19 DEF ReleaseDeactivate, network, server, decisions, Becomes
<1>20. ASSUME NEW i \in Incidents, ReleaseDelete(i) PROVE JobInv'
  BY <1>20 DEF ReleaseDelete, network, server, decisions, DeleteCall, Becomes
<1>21. ASSUME NEW i \in Incidents, ReleaseGivesUp(i) PROVE JobInv'
  BY <1>21 DEF ReleaseGivesUp, network, server, decisions
<1>22. CASE UNCHANGED vars
  BY <1>22 DEF vars, network, server, decisions
<1> QED
  BY <1>1, <1>2, <1>3, <1>4, <1>5, <1>6, <1>7, <1>8, <1>9, <1>10, <1>11, <1>12, <1>13, <1>14, <1>15, <1>16, <1>17, <1>18, <1>19, <1>20, <1>21, <1>22 DEF Next, Operator, Hook, Watch, Release

(* An incident that is spared is listed, and is behind a loop that has ended. *)
LEMMA SparedListed ==
  ASSUME NEW i \in Incidents, Spared(i)
  PROVE  i \in Listed(i[1])
  BY DEF Spared, Listed, Raises, IncidentsOf

LEMMA SparedPassed ==
  ASSUME NEW i \in Incidents, Spared(i), NEW n \in Nat \ {0}, n > NumDevices \/ Raises(i[1], n)
  PROVE  n > i[2]
<1>1. i[2] \in 1..NumDevices
  BY IncidentsAssumption DEF Devices
<1> QED
  BY <1>1, DevicesAssumption DEF Spared

(* While registrations do not overlap, every step keeps the four parts of SoloInv. *)
LEMMA SoloStep == TypeOK /\ JobInv /\ SoloInv /\ [Next]_vars => SoloInv'
<1> SUFFICES ASSUME TypeOK, JobInv, SoloInv, [Next]_vars, ~overlapped'
             PROVE  OneLive' /\ OwnEntry' /\ Reached' /\ Bounded'
  BY DEF SoloInv
<1> DEFINE Goal == OneLive' /\ OwnEntry' /\ Reached' /\ Bounded'
<1>a. ~overlapped
  BY DEF Next, vars, Operator, Hook, Watch, Release, SliceAvailable, SliceOperates, SliceFails, HookAvailable, HookCheck, HookActivate, HookOperating, Register, WatchPoll, WatchWait, WatchReap, WatchReapNotify, WatchActivate, WatchOperating, WatchTake, WatchTerminal, WatchReturn, AttachDevice, ReleaseDeactivate, ReleaseDelete, ReleaseGivesUp
<1>b. OneLive /\ OwnEntry /\ Reached /\ Bounded
  BY <1>a DEF SoloInv
<1> USE DevicesAssumption, NoneAssumption, IncidentsAssumption, <1>b
    DEF TypeOK, JobInv, OneLive, OwnEntry, Reached, Bounded, FromWatcher, Live, Decided,
        Devices, Channels, WatchPoints
<1>1. CASE SliceAvailable
  BY <1>1 DEF SliceAvailable, network, server, decisions
<1>2. CASE SliceOperates
  BY <1>2 DEF SliceOperates, network, server, decisions
<1>3. CASE SliceFails
  BY <1>3 DEF SliceFails, network, server, decisions, Becomes
<1>4. CASE HookAvailable
  BY <1>4 DEF HookAvailable, network, server, decisions
<1>5. CASE HookCheck
  BY <1>5 DEF HookCheck, network, server, decisions
<1>6. CASE HookActivate
  BY <1>6 DEF HookActivate, network, server, decisions, ActivateCall
<1>7. CASE HookOperating
  BY <1>7 DEF HookOperating, network, server, decisions
<1>8. ASSUME NEW w \in Watchers, Register(w) PROVE Goal
  BY <1>8 DEF Register, network, server, decisions
<1>9. ASSUME NEW w \in Watchers, WatchPoll(w) PROVE Goal
  BY <1>9 DEF WatchPoll, network, server, decisions, WatchGoto
<1>10. ASSUME NEW w \in Watchers, WatchWait(w) PROVE Goal
  BY <1>10 DEF WatchWait, network, server, decisions, WatchGoto
<1>11. ASSUME NEW w \in Watchers, WatchReap(w) PROVE Goal
  BY <1>11 DEF WatchReap, network, server, decisions, WatchGoto
<1>12. ASSUME NEW w \in Watchers, WatchReapNotify(w) PROVE Goal
  <2>1. \A i \in Listed(pending) : i \in Incidents /\ i[1] = pending
    BY DEF Listed, IncidentsOf
  <2>2. \A i \in Incidents : i[1] \in Watchers /\ i[2] \in Devices
    OBVIOUS
  <2>3. \A i \in Incidents : i[1] = pending /\ Spared(i) => i \in Listed(pending)
    BY SparedListed
  <2>4. Deny(Listed(pending)) /\ pc[w] = "reap" /\ pc' = [pc EXCEPT ![w] = "done"]
        /\ UNCHANGED <<pending, attach, grants>>
    BY <1>12 DEF WatchReapNotify, WatchGoto
  <2>5. OneLive' /\ OwnEntry'
    BY <2>4
  <2>6. Reached'
    BY <2>2, <2>3, <2>4 DEF Deny
  <2>7. Bounded'
    BY <2>1, <2>2, <2>4 DEF Deny
  <2> QED
    BY <2>5, <2>6, <2>7
<1>13. ASSUME NEW w \in Watchers, WatchActivate(w) PROVE Goal
  <2>1. /\ \E p \in {"activate", "poll"} : pc' = [pc EXCEPT ![w] = p]
        /\ pc[w] \in {"decide", "activate"}
        /\ UNCHANGED <<pending, attach, grants, denies>>
    BY <1>13 DEF WatchActivate, decisions, WatchGoto
  <2> QED
    BY <2>1
<1>14. ASSUME NEW w \in Watchers, WatchOperating(w) PROVE Goal
  BY <1>14 DEF WatchOperating, network, server, decisions, WatchGoto
<1>15. ASSUME NEW w \in Watchers, WatchTake(w) PROVE Goal
  BY <1>15 DEF WatchTake, network, server, decisions, WatchGoto
<1>16. ASSUME NEW w \in Watchers, WatchTerminal(w) PROVE Goal
  <2>1. \A i \in Listed(w) : i \in Incidents /\ i[1] = w
    BY DEF Listed, IncidentsOf
  <2>2. \A i \in Incidents : i[1] \in Watchers /\ i[2] \in Devices
    OBVIOUS
  <2>3. \A i \in Incidents : i[1] = w /\ Spared(i) => i \in Listed(w)
    BY SparedListed
  <2>4. Deny(Listed(w)) /\ pc[w] = "decide" /\ pc' = [pc EXCEPT ![w] = "done"]
        /\ UNCHANGED <<pending, attach, grants>>
    BY <1>16 DEF WatchTerminal, WatchGoto
  <2>5. OneLive' /\ OwnEntry'
    BY <2>4
  <2>6. Reached'
    BY <2>2, <2>3, <2>4 DEF Deny
  <2>7. Bounded'
    BY <2>1, <2>2, <2>4 DEF Deny
  <2> QED
    BY <2>5, <2>6, <2>7
<1>17. ASSUME NEW w \in Watchers, WatchReturn(w) PROVE Goal
  <2>1. /\ pc[w] = "attach" /\ pc' = [pc EXCEPT ![w] = "done"]
        /\ attach["watch"][w] > NumDevices \/ Raises(w, attach["watch"][w])
        /\ UNCHANGED <<pending, attach, grants, denies>>
    BY <1>17 DEF WatchReturn, decisions, WatchGoto
  <2>2. attach["watch"][w] \in Nat \ {0}
    BY <2>1
  <2>3. \A i \in Incidents : i[1] = w /\ Spared(i) => Decided(i)
    <3> SUFFICES ASSUME NEW i \in Incidents, i[1] = w, Spared(i) PROVE Decided(i)
      OBVIOUS
    <3>1. attach["watch"][w] > i[2]
      BY ONLY <2>1, <2>2, SparedPassed, i \in Incidents, i[1] = w, Spared(i)
    <3> QED
      BY <3>1
  <2> QED
    BY <2>1, <2>3
<1>18. ASSUME NEW c \in Channels, NEW w \in Watchers, AttachDevice(c, w) PROVE Goal
  <2>1. /\ attach[c][w] \in Devices /\ ~Raises(w, attach[c][w])
        /\ attach' = [attach EXCEPT ![c][w] = attach[c][w] + 1]
        /\ UNCHANGED <<pending, pc>>
    BY <1>18 DEF AttachDevice
  <2>2. \A i \in Incidents : i[1] \in Watchers /\ i[2] \in Devices
    OBVIOUS
  <2>3. \A i \in Incidents :
          /\ grants[i] \in Nat /\ denies[i] \in Nat
          /\ grants'[i] \in Nat /\ denies'[i] \in Nat
          /\ grants'[i] + denies'[i] =
               grants[i] + denies[i] + (IF i[1] = w /\ i[2] = attach[c][w] THEN 1 ELSE 0)
    BY <1>18 DEF AttachDevice, Grant, Deny, IncidentAt, IncidentsOf
  <2>4. \A e \in Channels, v \in Watchers :
          /\ attach[e][v] \in Nat /\ attach'[e][v] \in Nat
          /\ attach'[e][v] = IF e = c /\ v = w THEN attach[e][v] + 1 ELSE attach[e][v]
    BY <2>1
  <2>5. OneLive' /\ OwnEntry'
    BY <2>1, <2>4
  <2>6. Reached'
    <3> SUFFICES ASSUME NEW i \in Incidents
                 PROVE  /\ attach'["hook"][i[1]] > i[2] => Decided(i)'
                        /\ attach'["watch"][i[1]] > i[2] => Decided(i)'
                        /\ pc'[i[1]] = "done" /\ Spared(i) => Decided(i)' \/ attach'["hook"][i[1]] # 0
      OBVIOUS
    <3>1. Decided(i) => Decided(i)'
      BY <2>3
    <3>2. \A e \in Channels :
            attach'[e][i[1]] > i[2] => attach[e][i[1]] > i[2] \/ Decided(i)'
      <4> SUFFICES ASSUME NEW e \in Channels,
                          attach'[e][i[1]] > i[2], ~(attach[e][i[1]] > i[2])
                   PROVE  Decided(i)'
        OBVIOUS
      <4>4. attach'[e][i[1]] > i[2] /\ ~(attach[e][i[1]] > i[2])
        OBVIOUS
      <4>0. i[1] \in Watchers /\ i[2] \in Nat
        BY <2>2
      <4>1. i[1] = w /\ e = c
        BY <2>4, <4>0
      <4>2. attach'[c][w] = attach[c][w] + 1 /\ attach[c][w] \in Nat
        BY <2>4
      <4>3. attach'[c][w] > i[2] /\ ~(attach[c][w] > i[2])
        BY ONLY <4>1, <4>4
      <4>5. attach[c][w] = i[2]
        BY ONLY <4>0, <4>2, <4>3
      <4> QED
        BY <2>3, <4>1, <4>5
    <3>3. attach["hook"][i[1]] # 0 => attach'["hook"][i[1]] # 0
      BY <2>2, <2>4
    <3> QED
      BY <2>1, <3>1, <3>2, <3>3
  <2>7. Bounded'
    <3> SUFFICES ASSUME NEW i \in Incidents
                 PROVE  (grants[i] + denies[i] <= (IF FromWatcher(i[1], i[2]) THEN 1 ELSE 0)
                           + (IF attach["hook"][i[1]] > i[2] THEN 1 ELSE 0))'
      OBVIOUS
    <3>1. CASE i[1] = w /\ i[2] = attach[c][w] /\ c = "watch"
      BY <2>1, <2>2, <2>3, <2>4, <3>1
    <3>2. CASE i[1] = w /\ i[2] = attach[c][w] /\ c = "hook"
      BY <2>1, <2>2, <2>3, <2>4, <3>2
    <3>3. CASE ~(i[1] = w /\ i[2] = attach[c][w])
      BY <2>1, <2>2, <2>3, <2>4, <3>3
    <3> QED
      BY <3>1, <3>2, <3>3
  <2> QED
    BY <2>5, <2>6, <2>7
<1>19. ASSUME NEW i \in Incidents, ReleaseDeactivate(i) PROVE Goal
  BY <1>19 DEF ReleaseDeactivate, network, server, decisions
<1>20. ASSUME NEW i \in Incidents, ReleaseDelete(i) PROVE Goal
  BY <1>20 DEF ReleaseDelete, network, server, decisions
<1>21. ASSUME NEW i \in Incidents, ReleaseGivesUp(i) PROVE Goal
  BY <1>21 DEF ReleaseGivesUp, network, server, decisions
<1>22. CASE UNCHANGED vars
  BY <1>22 DEF vars, network, server, decisions
<1> QED
  BY <1>1, <1>2, <1>3, <1>4, <1>5, <1>6, <1>7, <1>8, <1>9, <1>10, <1>11, <1>12, <1>13, <1>14, <1>15, <1>16, <1>17, <1>18, <1>19, <1>20, <1>21, <1>22 DEF Next, Operator, Hook, Watch, Release

(* The initial state satisfies the inductive invariant. *)
LEMMA InitIInv == Init => IInv
<1> SUFFICES ASSUME Init PROVE IInv
  OBVIOUS
<1> USE DevicesAssumption, NoneAssumption, HooksAssumption, IncidentsAssumption
    DEF Init, IdleHook, Devices, Channels, WatchPoints, SliceStates, Terminal
<1>0. /\ attach \in [Channels -> [Watchers -> 0..(NumDevices + 1)]]
      /\ activations \in [Watchers -> Nat]
      /\ grants \in [Incidents -> Nat] /\ denies \in [Incidents -> Nat]
  OBVIOUS
<1>01. /\ pc \in [Watchers -> WatchPoints] /\ view \in [Watchers -> SliceStates]
       /\ release \in [Incidents -> {"no", "deactivated", "done"}]
  OBVIOUS
<1>02. overlapped \in BOOLEAN
  OBVIOUS
<1>03. hooks \in 0..MaxHooks
  OBVIOUS
<1>04. hook \in {IdleHook} \union [at: {"check", "activate"}, data: Watchers]
  OBVIOUS
<1>1. TypeOK
  BY <1>0, <1>01, <1>02, <1>03, <1>04 DEF TypeOK
<1>2. ActivationInv /\ JobInv
  BY DEF ActivationInv, JobInv
<1>3. \A i \in Incidents : i[1] \in Watchers /\ i[2] \in Devices
  OBVIOUS
<1>4. SoloInv
  BY <1>3 DEF SoloInv, OneLive, OwnEntry, Live, Reached, Bounded
<1> QED
  BY <1>1, <1>2, <1>4 DEF IInv

(* The variables keep their types, for any registrations and faults. *)
THEOREM TypeCorrect == Spec => []TypeOK
<1>1. Init => TypeOK
  BY InitIInv DEF IInv
<1> QED
  BY <1>1, TypeStep, PTL DEF Spec

(* IInv holds in every reachable state. *)
THEOREM InductiveInvariant == Spec => []IInv
<1>1. IInv /\ [Next]_vars => IInv'
  BY TypeStep, ActivationStep, JobStep, SoloStep DEF IInv
<1> QED
  BY InitIInv, <1>1, PTL DEF Spec

(* No incident before a malformed entry or device is dropped when its      *)
(* slice's registrations do not overlap.                                   *)
THEOREM NoIncidentLost == Spec => []NoLostIncident
<1>1. IInv => NoLostIncident
  <2> SUFFICES ASSUME IInv, ~overlapped, NEW i \in Incidents, pc[i[1]] = "done", Spared(i)
               PROVE  Decided(i) \/ attach["hook"][i[1]] \in 1..i[2]
    BY DEF NoLostIncident
  <2>1. i[1] \in Watchers /\ i[2] \in Nat
    BY IncidentsAssumption, DevicesAssumption DEF Devices
  <2>2. attach["hook"][i[1]] \in Nat
    BY <2>1, DevicesAssumption DEF IInv, TypeOK, Channels
  <2>3. Decided(i) \/ (attach["hook"][i[1]] # 0 /\ ~(attach["hook"][i[1]] > i[2]))
    BY DEF IInv, SoloInv, Reached
  <2> QED
    BY <2>1, <2>2, <2>3
<1> QED
  BY <1>1, InductiveInvariant, PTL

(* An incident hears at most once from each of the two channels. *)
THEOREM DecisionsBounded == Spec => []DecisionBound
<1>1. IInv => DecisionBound
  <2> SUFFICES ASSUME IInv, ~overlapped, NEW i \in Incidents
               PROVE  grants[i] + denies[i] <= (IF attach["hook"][i[1]] > i[2] THEN 2 ELSE 1)
    BY DEF DecisionBound
  <2>1. grants[i] \in Nat /\ denies[i] \in Nat
    BY DEF IInv, TypeOK
  <2>2. grants[i] + denies[i] <= (IF FromWatcher(i[1], i[2]) THEN 1 ELSE 0)
                                 + (IF attach["hook"][i[1]] > i[2] THEN 1 ELSE 0)
    BY DEF IInv, SoloInv, Bounded
  <2> QED
    BY <2>1, <2>2
<1> QED
  BY <1>1, InductiveInvariant, PTL

(* A registration is activated at most twice, once by each channel. *)
THEOREM ActivationsBounded == Spec => []ActivationBound
<1>1. IInv => ActivationBound
  <2> SUFFICES ASSUME IInv, NEW w \in Watchers PROVE activations[w] <= 2
    BY DEF ActivationBound
  <2>1. activations[w] \in Nat
    BY DEF IInv, TypeOK
  <2> QED
    BY <2>1 DEF IInv, ActivationInv
<1> QED
  BY <1>1, InductiveInvariant, PTL

-----------------------------------------------------------------------------
(* Without notifications and overlapping registrations nothing is ever taken *)
(* over by the notification handler.                                         *)
LEMMA WatcherAloneStep ==
  ASSUME MaxHooks = 0, AllowOverlap = FALSE, TypeOK, WatcherAlone, JobInv, [Next]_vars
  PROVE  WatcherAlone'
<1> USE DEF WatcherAlone, TypeOK, Channels
<1>1. CASE Operator \/ Hook
  BY <1>1 DEF Operator, Hook, SliceAvailable, SliceOperates, SliceFails, HookAvailable,
              HookCheck, HookActivate, HookOperating, server
<1>2. ASSUME NEW w \in Watchers, Register(w) PROVE WatcherAlone'
  BY <1>2 DEF Register
<1>3. ASSUME NEW w \in Watchers, Watch(w) PROVE WatcherAlone'
  BY <1>3 DEF Watch, WatchPoll, WatchWait, WatchReap, WatchReapNotify, WatchActivate,
              WatchOperating, WatchTake, WatchTerminal, WatchReturn
<1>4. ASSUME NEW c \in Channels, NEW w \in Watchers, AttachDevice(c, w) PROVE WatcherAlone'
  BY <1>4 DEF AttachDevice, Devices
<1>5. ASSUME NEW i \in Incidents, Release(i) PROVE WatcherAlone'
  BY <1>5 DEF Release, ReleaseDeactivate, ReleaseDelete, ReleaseGivesUp, server
<1>6. CASE UNCHANGED vars
  BY <1>6 DEF vars, server
<1> QED
  BY <1>1, <1>2, <1>3, <1>4, <1>5, <1>6 DEF Next

(* An incident its watcher has not reached has heard nothing. *)
LEMMA Unheard ==
  ASSUME IInv, WatcherAlone, NEW i \in Incidents, ~FromWatcher(i[1], i[2])
  PROVE  Heard[i] = <<0, 0>>
<1>1. grants[i] \in Nat /\ denies[i] \in Nat /\ i[1] \in Watchers /\ i[2] \in Nat
  BY IncidentsAssumption, DevicesAssumption DEF IInv, TypeOK, Devices
<1>2. grants[i] + denies[i] <= 0
  BY <1>1 DEF IInv, SoloInv, Bounded, WatcherAlone
<1> QED
  BY <1>1, <1>2 DEF Heard

(* Denying, or granting, incidents nobody has heard from is an abstract step. *)
LEMMA DenyDecides ==
  ASSUME TypeOK, NEW S \in SUBSET Incidents, \A i \in S : Heard[i] = <<0, 0>>,
         Deny(S), UNCHANGED grants
  PROVE  Decision!Decide(S, <<0, 1>>)
<1>1. ASSUME NEW i \in S PROVE denies[i] = 0 /\ grants[i] = 0
  BY <1>1 DEF Heard
<1> QED
  BY <1>1 DEF Decision!Decide, Decision!Undecided, Heard, Deny

LEMMA GrantDecides ==
  ASSUME TypeOK, NEW i \in Incidents, Heard[i] = <<0, 0>>, Grant({i}), UNCHANGED denies
  PROVE  Decision!Decide({i}, <<1, 0>>)
<1>1. denies[i] = 0 /\ grants[i] = 0
  BY DEF Heard
<1> QED
  BY <1>1 DEF Decision!Decide, Decision!Undecided, Heard, Grant

LEMMA RefinementStep ==
  ASSUME IInv, WatcherAlone, [Next]_vars
  PROVE  [Decision!DecisionNext]_Heard
<1> USE DEF IInv
<1> DEFINE Goal == [Decision!DecisionNext]_Heard
<1>0. \A i \in Incidents : i[1] \in Watchers /\ i[2] \in Devices
  BY IncidentsAssumption
<1>1. UNCHANGED decisions => Goal
  BY DEF decisions, Heard
<1>2. ASSUME NEW S \in SUBSET Incidents, Deny(S), UNCHANGED grants,
             \A i \in S : ~FromWatcher(i[1], i[2])
      PROVE  Goal
  <2>1. Decision!Decide(S, <<0, 1>>)
    BY <1>2, Unheard, DenyDecides
  <2> QED
    BY <2>1 DEF Decision!DecisionNext, Decision!Denied
<1>3. ASSUME NEW w \in Watchers, WatchReapNotify(w) PROVE Goal
  <2>1. pending \in {w, None}
    BY <1>3 DEF WatchReapNotify, WatcherAlone, SoloInv, OwnEntry, Live
  <2>2. ASSUME NEW i \in Listed(pending) PROVE ~FromWatcher(i[1], i[2])
    <3>1. i \in Incidents /\ i[1] = w /\ i[2] \in Nat
      BY <1>0, <2>1, <2>2, NoneAssumption, DevicesAssumption DEF Listed, IncidentsOf, Devices
    <3>2. attach["watch"][w] = 0 /\ pc[w] # "done"
      BY <1>3 DEF WatchReapNotify, JobInv
    <3> QED
      BY <3>1, <3>2 DEF FromWatcher
  <2> QED
    BY <1>2, <1>3, <2>2 DEF WatchReapNotify, Listed, IncidentsOf
<1>4. ASSUME NEW w \in Watchers, WatchTerminal(w) PROVE Goal
  <2>1. ASSUME NEW i \in Listed(w) PROVE ~FromWatcher(i[1], i[2])
    <3>1. i \in Incidents /\ i[1] = w /\ i[2] \in Nat
      BY <1>0, <2>1, DevicesAssumption DEF Listed, IncidentsOf, Devices
    <3>2. attach["watch"][w] = 0 /\ pc[w] # "done"
      BY <1>4 DEF WatchTerminal, JobInv
    <3> QED
      BY <3>1, <3>2 DEF FromWatcher
  <2> QED
    BY <1>2, <1>4, <2>1 DEF WatchTerminal, Listed, IncidentsOf
<1>5. ASSUME NEW c \in Channels, NEW w \in Watchers, AttachDevice(c, w) PROVE Goal
  <2> DEFINE d == attach[c][w]
             S == IncidentAt(w, d)
  <2>1. c = "watch" /\ pc[w] = "attach" /\ d \in Nat
    BY <1>5, DevicesAssumption DEF AttachDevice, Devices, WatcherAlone, Channels, JobInv
  <2>2. S \in SUBSET Incidents
    BY DEF IncidentAt, IncidentsOf
  <2>3. ASSUME NEW i \in S PROVE ~FromWatcher(i[1], i[2]) /\ i[1] = w /\ i[2] = d
    BY <2>1, <2>3 DEF IncidentAt, IncidentsOf, FromWatcher
  <2>4. CASE Deny(S) /\ UNCHANGED grants
    BY <1>2, <2>2, <2>3, <2>4
  <2>5. CASE Grant(S) /\ UNCHANGED denies
    <3>1. CASE S = {}
      BY <2>5, <3>1 DEF Grant, Heard, TypeOK
    <3>2. CASE S # {}
      <4>1. PICK i \in Incidents : i \in S
        BY <2>2, <3>2
      <4>2. S = {i}
        <5>1. ASSUME NEW j \in S PROVE j = i
          BY <2>2, <2>3, <4>1, <5>1, IncidentsAssumption
        <5> QED
          BY <4>1, <5>1
      <4>3. Decision!Decide({i}, <<1, 0>>)
        BY <2>3, <2>5, <4>1, <4>2, Unheard, GrantDecides
      <4> QED
        BY <4>3 DEF Decision!DecisionNext, Decision!Granted
    <3> QED
      BY <3>1, <3>2
  <2> QED
    BY <1>5, <2>4, <2>5 DEF AttachDevice
<1>6. CASE Operator \/ Hook \/ UNCHANGED vars
  BY <1>1, <1>6 DEF Operator, Hook, SliceAvailable, SliceOperates, SliceFails,
     HookAvailable, HookCheck, HookActivate, HookOperating, vars
<1>7. ASSUME NEW w \in Watchers, Register(w) \/ Watch(w) PROVE Goal
  BY <1>1, <1>3, <1>4, <1>7 DEF Watch, Register, WatchPoll, WatchWait, WatchReap,
     WatchActivate, WatchOperating, WatchTake, WatchReturn
<1>8. ASSUME NEW i \in Incidents, Release(i) PROVE Goal
  BY <1>1, <1>8 DEF Release, ReleaseDeactivate, ReleaseDelete, ReleaseGivesUp
<1> QED
  BY <1>5, <1>6, <1>7, <1>8 DEF Next

(* Whatever calls fail, and as long as no notification takes an entry, every *)
(* step of the watchers decides as IncidentDecision allows.                   *)
THEOREM WatcherDecidesOnce == Spec => DecidesOnce
<1>1. IInv /\ [Next]_vars => [WatcherAlone => Decision!DecisionNext \/ UNCHANGED Heard]_vars
  BY RefinementStep
<1> QED
  BY <1>1, InductiveInvariant, PTL DEF Spec, DecidesOnce

(* With no notification and no overlapping registration that is the whole     *)
(* behaviour of the registrations: they implement IncidentDecision.           *)
THEOREM WatcherImplements ==
  ASSUME MaxHooks = 0, AllowOverlap = FALSE
  PROVE  Spec => Decision!DecisionSpec
<1>1. Init => WatcherAlone
  BY DEF Init, WatcherAlone, Channels
<1>2. IInv /\ WatcherAlone /\ [Next]_vars => WatcherAlone'
  BY WatcherAloneStep DEF IInv
<1>3. Init => Decision!DecisionInit
  BY DEF Init, Decision!DecisionInit, Decision!Undecided, Heard
<1>4. IInv /\ WatcherAlone /\ [Next]_vars => [Decision!DecisionNext]_Heard
  BY RefinementStep
<1> QED
  BY <1>1, <1>2, <1>3, <1>4, InductiveInvariant, PTL DEF Spec, Decision!DecisionSpec

-----------------------------------------------------------------------------
(***************************************************************************)
(* RequestBatch: from a message's threats to requests, answers and responses*)
(* of the Response Agent.                                                  *)
(***************************************************************************)
(* Loops: what each round makes of the last one's outcome.                 *)
LEMMA SmallestNat == ASSUME NEW T \in SUBSET Nat, T # {} PROVE \E x \in T : \A y \in T : x <= y
<1> DEFINE R == {ss \in Nat \X Nat : ss[1] < ss[2]}
<1>1. R = OpToRel(<, Nat)
  BY DEF OpToRel
<1>2. IsWellFoundedOn(R, Nat)
  BY <1>1, NatLessThanWellFounded
<1>3. ASSUME NEW x \in Nat, NEW y \in Nat, y < x PROVE <<y, x>> \in R
  BY <1>3
<1> HIDE DEF R
<1>4. PICK x \in T : \A y \in T : <<y, x>> \notin R
  BY <1>2, WFMin
<1>5. \A y \in T : ~ (y < x)
  BY <1>3, <1>4
<1> QED
  BY <1>5

\* A set of naturals with 0 and each member's successor is all of them.
LEMMA AllReached ==
  ASSUME NEW T, 0 \in T, \A n \in Nat : n \in T => n + 1 \in T
  PROVE  \A n \in Nat : n \in T
<1> DEFINE Fails == {n \in Nat : n \notin T}
<1> SUFFICES ASSUME Fails # {} PROVE FALSE
  OBVIOUS
<1>1. PICK n \in Fails : \A m \in Fails : n <= m
  BY SmallestNat
<1>2. n # 0 /\ n - 1 \in Nat
  BY <1>1
<1>3. n - 1 \in T /\ (n - 1) + 1 = n
  BY <1>1, <1>2
<1> QED
  BY <1>1, <1>2, <1>3

\* What holds before a loop's first round and is kept by each round holds all the way.
LEMMA LoopKeeps ==
  ASSUME NEW n \in Nat, NEW T, 0 \in T, \A k \in 1..n : k - 1 \in T => k \in T
  PROVE  \A k \in 0..n : k \in T
<1> DEFINE U == {k \in Nat : k <= n => k \in T}
<1>1. 0 \in U
  OBVIOUS
<1>2. ASSUME NEW k \in Nat, k \in U PROVE k + 1 \in U
  <2> SUFFICES ASSUME k + 1 <= n PROVE k + 1 \in T
    OBVIOUS
  <2>1. k + 1 \in 1..n /\ (k + 1) - 1 = k /\ k \in T
    BY <1>2
  <2> QED
    BY <2>1
<1> HIDE DEF U
<1>3. \A k \in Nat : k \in U
  BY <1>1, <1>2, AllReached
<1> QED
  BY <1>3 DEF U

Loops(g, n, a, step) == g[0] = a /\ \A k \in 1..n : g[k] = step[<<g[k - 1], k>>]

\* A loop of n rounds has its outcomes.
LEMMA LoopThere ==
  ASSUME NEW V, NEW a \in V, NEW step, \A x \in V, k \in Nat : step[<<x, k>>] \in V
  PROVE  \A n \in Nat : \E g \in [0..n -> V] : Loops(g, n, a, step)
<1> DEFINE T == {n \in Nat : \E g \in [0..n -> V] : Loops(g, n, a, step)}
<1>1. 0 \in T
  <2> DEFINE g == [k \in 0..0 |-> a]
  <2>1. g \in [0..0 -> V] /\ Loops(g, 0, a, step)
    BY DEF Loops
  <2> QED
    BY <2>1
<1>2. ASSUME NEW n \in Nat, n \in T PROVE n + 1 \in T
  <2>1. PICK g \in [0..n -> V] : Loops(g, n, a, step)
    BY <1>2
  <2> DEFINE h == [k \in 0..(n + 1) |-> IF k = n + 1 THEN step[<<g[n], n + 1>>] ELSE g[k]]
  <2>2. h \in [0..(n + 1) -> V]
    <3> SUFFICES ASSUME NEW k \in 0..(n + 1) PROVE (IF k = n + 1 THEN step[<<g[n], n + 1>>] ELSE g[k]) \in V
      OBVIOUS
    <3>1. g[n] \in V /\ n + 1 \in Nat
      OBVIOUS
    <3>2. k # n + 1 => k \in 0..n
      OBVIOUS
    <3> QED
      BY <3>1, <3>2
  <2>3. h[0] = a
    BY <2>1 DEF Loops
  <2>4. ASSUME NEW k \in 1..(n + 1) PROVE h[k] = step[<<h[k - 1], k>>]
    <3>1. CASE k = n + 1
      <4>1. h[n + 1] = step[<<g[n], n + 1>>]
        OBVIOUS
      <4>2. n \in 0..(n + 1) /\ n # n + 1
        OBVIOUS
      <4>3. h[n] = g[n]
        BY <4>2
      <4>4. k - 1 = n
        BY <3>1
      <4> HIDE DEF h
      <4> QED
        BY <3>1, <4>1, <4>3, <4>4
    <3>2. CASE k # n + 1
      <4>1. k \in 1..n /\ k - 1 \in 0..n /\ k - 1 # n + 1
        BY <3>2
      <4> QED
        BY <2>1, <4>1 DEF Loops
    <3> QED
      BY <3>1, <3>2
  <2> HIDE DEF h
  <2> QED
    BY <2>2, <2>3, <2>4 DEF Loops
<1> HIDE DEF T
<1>3. \A n \in Nat : n \in T
  BY <1>1, <1>2, AllReached
<1> QED
  BY <1>3 DEF T

LEMMA LeastIs ==
  ASSUME NEW S \in SUBSET Nat, NEW m \in S, \A x \in S : m <= x
  PROVE  Min(S) = m
<1>1. \A x \in S : (\A y \in S : x <= y) => x = m
  OBVIOUS
<1> QED
  BY <1>1 DEF Min

LEMMA LeastIn ==
  ASSUME NEW S \in SUBSET Nat, S # {}
  PROVE  Min(S) \in S /\ \A x \in S : Min(S) <= x
BY SmallestNat DEF Min

-----------------------------------------------------------------------------
(* Sorting: a set put in a total order, and what is taken from a sequence.  *)
Orders(R, S) == /\ \A x \in S : <<x, x>> \notin R
                /\ \A x, y, z \in S : <<x, y>> \in R /\ <<y, z>> \in R => <<x, z>> \in R
                /\ \A x, y \in S : x # y => <<x, y>> \in R \/ <<y, x>> \in R
Sorted(list, S, R) == /\ DOMAIN list = 1..Cardinality(S)
                      /\ \A k \in DOMAIN list : list[k] \in S
                      /\ \A x \in S : \E k \in DOMAIN list : list[k] = x
                      /\ \A k, l \in DOMAIN list : k < l => <<list[k], list[l]>> \in R
                      /\ \A k \in DOMAIN list : Cardinality({y \in S : <<y, list[k]>> \in R}) = k - 1

LEMMA SortedIs ==
  ASSUME NEW S, NEW R, IsFiniteSet(S), Orders(R, S)
  PROVE  Sorted(SortedBy(S, R), S, R)
<1> DEFINE Below(x) == {y \in S : <<y, x>> \in R}
           rank == [x \in S |-> Cardinality(Below(x))]
           n == Cardinality(S)
           list == SortedBy(S, R)
<1>1. n \in Nat
  BY FS_CardinalityType
<1>2. ASSUME NEW x \in S PROVE IsFiniteSet(Below(x)) /\ rank[x] \in Nat
  BY FS_Subset, FS_CardinalityType
<1>3. ASSUME NEW x \in S, NEW y \in S, <<x, y>> \in R PROVE rank[x] < rank[y]
  <2>1. Below(x) \in SUBSET Below(y)
    BY <1>3 DEF Orders
  <2>2. x \in Below(y) /\ x \notin Below(x)
    BY <1>3 DEF Orders
  <2>3. IsFiniteSet(Below(y)) /\ rank[x] \in Nat /\ rank[y] \in Nat
    BY <1>2
  <2> HIDE DEF Below
  <2>4. Cardinality(Below(x)) <= Cardinality(Below(y)) /\ Cardinality(Below(x)) # Cardinality(Below(y))
    BY <2>1, <2>2, <2>3, FS_Subset
  <2> QED
    BY <2>3, <2>4
<1>4. ASSUME NEW x \in S PROVE rank[x] + 1 \in 1..n
  <2>1. Below(x) \in SUBSET S /\ x \notin Below(x)
    BY DEF Orders
  <2>2. IsFiniteSet(Below(x)) /\ rank[x] \in Nat
    BY <1>2
  <2> HIDE DEF Below
  <2>3. Cardinality(Below(x)) <= n /\ Cardinality(Below(x)) # n
    BY <2>1, FS_Subset
  <2> QED
    BY <1>1, <2>2, <2>3
<1> DEFINE f == [x \in S |-> rank[x] + 1]
<1> HIDE DEF rank
<1>5. f \in Injection(S, 1..n)
  <2>1. f \in [S -> 1..n]
    BY <1>4
  <2>2. ASSUME NEW x \in S, NEW y \in S, f[x] = f[y] PROVE x = y
    <3> SUFFICES ASSUME x # y PROVE FALSE
      OBVIOUS
    <3>1. rank[x] \in Nat /\ rank[y] \in Nat
      BY <1>2
    <3>2. rank[x] < rank[y] \/ rank[y] < rank[x]
      BY <1>3 DEF Orders
    <3> QED
      BY <2>2, <3>1, <3>2
  <2> QED
    BY <2>1, <2>2 DEF Injection, IsInjective
<1>6. IsFiniteSet(1..n) /\ Cardinality(1..n) = n
  BY <1>1, FS_Interval
<1>7. f \in Surjection(S, 1..n)
  BY <1>5, <1>6, FS_Injection
<1>8. ASSUME NEW k \in 1..n PROVE \E x \in S : rank[x] = k - 1
  <2>1. PICK x \in S : f[x] = k
    BY <1>7 DEF Surjection
  <2>2. rank[x] \in Nat
    BY <1>2
  <2> QED
    BY <2>1, <2>2
<1>9. DOMAIN list = 1..n
  BY DEF SortedBy
<1>10. ASSUME NEW k \in 1..n PROVE list[k] \in S /\ rank[list[k]] = k - 1
  <2>1. list[k] = CHOOSE x \in S : Cardinality(Below(x)) = k - 1
    BY DEF SortedBy
  <2>2. \A x \in S : rank[x] = Cardinality(Below(x))
    BY DEF rank
  <2> HIDE DEF Below, list
  <2> QED
    BY <1>8, <2>1, <2>2
<1> HIDE DEF list
<1>11. ASSUME NEW x \in S PROVE \E k \in 1..n : list[k] = x
  <2>1. rank[x] + 1 \in 1..n /\ rank[x] \in Nat
    BY <1>2, <1>4
  <2>2. list[rank[x] + 1] \in S /\ rank[list[rank[x] + 1]] = rank[x]
    BY <1>10, <2>1
  <2>3. list[rank[x] + 1] = x
    <3> SUFFICES ASSUME list[rank[x] + 1] # x PROVE FALSE
      OBVIOUS
    <3>1. rank[list[rank[x] + 1]] < rank[x] \/ rank[x] < rank[list[rank[x] + 1]]
      BY <1>3, <2>2 DEF Orders
    <3> QED
      BY <2>1, <2>2, <3>1
  <2> QED
    BY <2>1, <2>3
<1>12. ASSUME NEW k \in 1..n, NEW l \in 1..n, k < l PROVE <<list[k], list[l]>> \in R
  <2>1. list[k] \in S /\ list[l] \in S /\ rank[list[k]] = k - 1 /\ rank[list[l]] = l - 1
    BY <1>10
  <2>2. list[k] # list[l]
    BY <1>12, <2>1
  <2>3. <<list[l], list[k]>> \notin R
    <3> SUFFICES ASSUME <<list[l], list[k]>> \in R PROVE FALSE
      OBVIOUS
    <3>1. rank[list[l]] < rank[list[k]]
      BY <1>3, <2>1
    <3> QED
      BY <1>12, <2>1, <3>1
  <2> QED
    BY <2>1, <2>2, <2>3 DEF Orders
<1>13. ASSUME NEW k \in 1..n PROVE Cardinality({y \in S : <<y, list[k]>> \in R}) = k - 1
  BY <1>10 DEF rank
<1> QED
  BY <1>9, <1>10, <1>11, <1>12, <1>13 DEF Sorted, list

\* The positions taken, in their order.
Positions(at, S) == /\ DOMAIN at = 1..Cardinality(S)
                    /\ \A k \in DOMAIN at : at[k] \in S
                    /\ \A x \in S : \E k \in DOMAIN at : at[k] = x
                    /\ \A k, l \in DOMAIN at : k < l => at[k] < at[l]
                    /\ \A k \in DOMAIN at : Cardinality({y \in S : y <= at[k]}) = k

LEMMA TakenIs ==
  ASSUME NEW s, NEW S \in SUBSET Nat, IsFiniteSet(S)
  PROVE  \E at : /\ Positions(at, S)
                 /\ DOMAIN Taken(s, S) = DOMAIN at
                 /\ \A k \in DOMAIN at : Taken(s, S)[k] = s[at[k]]
<1> DEFINE at == SortedBy(S, Earlier(S))
<1>1. Orders(Earlier(S), S)
  BY DEF Orders, Earlier
<1>2. Sorted(at, S, Earlier(S))
  BY <1>1, SortedIs
<1>3. DOMAIN Taken(s, S) = DOMAIN at /\ \A k \in DOMAIN at : Taken(s, S)[k] = s[at[k]]
  BY DEF Taken
<1> HIDE DEF at
<1>4. ASSUME NEW k \in DOMAIN at, NEW l \in DOMAIN at, k < l PROVE at[k] < at[l]
  <2>1. <<at[k], at[l]>> \in Earlier(S)
    BY <1>2, <1>4 DEF Sorted
  <2> QED
    BY <2>1 DEF Earlier
<1>5. ASSUME NEW k \in DOMAIN at PROVE Cardinality({y \in S : y <= at[k]}) = k
  <2> DEFINE less == {y \in S : <<y, at[k]>> \in Earlier(S)}
             upTo == {y \in S : y <= at[k]}
  <2>1. at[k] \in S /\ Cardinality(less) = k - 1
    BY <1>2 DEF Sorted
  <2>2. upTo = less \union {at[k]} /\ at[k] \notin less
    <3>1. at[k] \in Nat
      BY <2>1
    <3>2. \A y : y \in less <=> y \in S /\ y < at[k]
      BY <2>1 DEF Earlier
    <3>3. \A y : y \in upTo <=> y \in S /\ y <= at[k]
      OBVIOUS
    <3> HIDE DEF less, upTo
    <3>4. ASSUME NEW y PROVE y \in upTo <=> y \in less \/ y = at[k]
      <4>1. PICK c \in Nat : c = at[k]
        BY <3>1
      <4>2. y \in S => y \in Nat
        OBVIOUS
      <4>3. y \in Nat => (y <= c <=> y < c \/ y = c)
        OBVIOUS
      <4> QED
        BY <2>1, <3>2, <3>3, <4>1, <4>2, <4>3
    <3> QED
      BY <3>1, <3>2, <3>4
  <2>3. IsFiniteSet(less)
    BY FS_Subset
  <2>4. k \in Nat
    <3>1. Cardinality(S) \in Nat
      BY FS_CardinalityType
    <3> QED
      BY <1>2, <3>1 DEF Sorted
  <2> HIDE DEF less, upTo
  <2>5. Cardinality(upTo) = (k - 1) + 1
    BY <2>1, <2>2, <2>3, FS_AddElement
  <2> QED
    BY <2>4, <2>5 DEF upTo
<1>6. Positions(at, S)
  BY <1>2, <1>4, <1>5 DEF Sorted, Positions
<1> QED
  BY <1>3, <1>6
-----------------------------------------------------------------------------
(* The tools' answers.                                                     *)
Polled(g, first, polls) ==
  g = [k \in 0..Len(polls) |-> IF k = 0 THEN first
                               ELSE IF g[k - 1] \in TERMINAL_QOD \/ polls[k] = "raises" THEN g[k - 1] ELSE polls[k]]

LEMMA PollsThere ==
  ASSUME NEW first, NEW polls, polls \in Seq(Range(polls))
  PROVE  \E g : Polled(g, first, polls)
<1> DEFINE n == Len(polls)
           V == {first} \union Range(polls)
           next(x, k) == IF x \in TERMINAL_QOD \/ polls[k] = "raises" THEN x ELSE polls[k]
           step == [p \in V \X Nat |-> IF p[2] \in 1..n THEN next(p[1], p[2]) ELSE p[1]]
<1>1. n \in Nat /\ DOMAIN polls = 1..n
  OBVIOUS
<1>2. ASSUME NEW x \in V, NEW k \in Nat PROVE step[<<x, k>>] \in V
  <2>1. step[<<x, k>>] = IF k \in 1..n THEN next(x, k) ELSE x
    OBVIOUS
  <2>2. k \in 1..n => polls[k] \in V
    BY <1>1 DEF Range
  <2> HIDE DEF V, step
  <2> QED
    BY <1>2, <2>1, <2>2
<1>3. first \in V
  OBVIOUS
<1> HIDE DEF V, step
<1>4. PICK g \in [0..n -> V] : Loops(g, n, first, step)
  BY <1>1, <1>2, <1>3, LoopThere
<1>5. ASSUME NEW k \in 1..n PROVE g[k] = next(g[k - 1], k)
  <2>1. k \in Nat /\ k - 1 \in 0..n
    BY <1>1
  <2>2. g[k - 1] \in V
    BY <2>1
  <2>3. g[k] = step[<<g[k - 1], k>>]
    BY <1>4 DEF Loops
  <2> HIDE DEF next
  <2>4. step[<<g[k - 1], k>>] = next(g[k - 1], k)
    BY <2>1, <2>2 DEF step
  <2> QED
    BY <2>3, <2>4
<1>6. g[0] = first
  BY <1>4 DEF Loops
<1> HIDE DEF next
<1>7. g = [k \in 0..n |-> IF k = 0 THEN first ELSE next(g[k - 1], k)]
  <2>1. ASSUME NEW k \in 0..n PROVE g[k] = IF k = 0 THEN first ELSE next(g[k - 1], k)
    <3>1. k # 0 => k \in 1..n
      BY <1>1
    <3> QED
      BY <1>5, <1>6, <3>1
  <2> QED
    BY <2>1
<1> QED
  BY <1>7 DEF Polled, next, n

\* The status after the polls: a final one stays, and each was read.
LEMMA PolledIs ==
  ASSUME NEW first, NEW polls, polls \in Seq(Range(polls))
  PROVE  /\ PollQod(first, polls) \in {first} \union Range(polls)
         /\ first = "REQUESTED" /\ polls # << >> /\ polls[1] \in TERMINAL_QOD => PollQod(first, polls) = polls[1]
<1> DEFINE n == Len(polls)
           g == CHOOSE h : Polled(h, first, polls)
<1>1. n \in Nat /\ DOMAIN polls = 1..n
  OBVIOUS
<1>2. PollQod(first, polls) = IF first = "REQUESTED" THEN g[n] ELSE first
  BY DEF PollQod, Polled
<1>3. Polled(g, first, polls)
  BY PollsThere
<1> HIDE DEF g
<1>4. g[0] = first /\ \A k \in 1..n : g[k] = IF g[k - 1] \in TERMINAL_QOD \/ polls[k] = "raises" THEN g[k - 1] ELSE polls[k]
  <2>1. 0 \in 0..n /\ \A k \in 1..n : k \in 0..n /\ k # 0
    BY <1>1
  <2> QED
    BY <1>3, <2>1 DEF Polled
<1> DEFINE T == {k \in Nat : g[k] \in {first} \union Range(polls)}
<1>5. \A k \in 0..n : k \in T
  <2>1. 0 \in T
    BY <1>4
  <2>2. ASSUME NEW k \in 1..n, k - 1 \in T PROVE k \in T
    <3>1. polls[k] \in Range(polls)
      BY <1>1 DEF Range
    <3>2. k \in Nat
      BY <1>1
    <3> QED
      BY <1>4, <2>2, <3>1, <3>2
  <2> HIDE DEF T
  <2> QED
    BY <1>1, <2>1, <2>2, LoopKeeps
<1> DEFINE U == {k \in Nat : k # 0 => g[k] = polls[1]}
<1>6. ASSUME polls # << >>, first = "REQUESTED", polls[1] \in TERMINAL_QOD PROVE \A k \in 0..n : k \in U
  <2>1. 0 \in U
    OBVIOUS
  <2>2. ASSUME NEW k \in 1..n, k - 1 \in U PROVE k \in U
    <3>1. k \in Nat /\ (k # 1 => k - 1 # 0)
      BY <1>1
    <3>2. polls[1] # "raises" /\ first \notin TERMINAL_QOD
      BY <1>6 DEF TERMINAL_QOD
    <3>3. CASE k = 1
      BY <1>4, <3>1, <3>2, <3>3
    <3>4. CASE k # 1
      <4>1. g[k - 1] = polls[1]
        BY <2>2, <3>1, <3>4
      <4> QED
        BY <1>4, <1>6, <3>1, <4>1
    <3> QED
      BY <3>3, <3>4
  <2> HIDE DEF U
  <2> QED
    BY <1>1, <2>1, <2>2, LoopKeeps
<1>7. n \in 0..n /\ (polls # << >> => n # 0)
  BY <1>1
<1> QED
  BY <1>2, <1>5, <1>6, <1>7

LEMMA SlicesTold ==
  ASSUME NEW given
  PROVE  LET answer == RequestNetworkSlice(given)
             told   == {d \in DOMAIN answer.devices : answer.devices[d] = "ATTACHED"}
         IN  /\ told \subseteq answer.made
             /\ \A d \in answer.made \ told : given[d] = "lost" \/ \E b \in Unreadable(given) : d < b
<1> DEFINE answer == RequestNetworkSlice(given)
           told   == {d \in DOMAIN answer.devices : answer.devices[d] = "ATTACHED"}
<1>1. /\ answer.made = {d \in Called(given) : given[d] \in {"ok", "lost"}}
      /\ answer.devices = [d \in Told(given) |-> IF given[d] = "ok" THEN "ATTACHED" ELSE "FAILED"]
  BY DEF RequestNetworkSlice
<1>2. told = {d \in Told(given) : given[d] = "ok"}
  BY <1>1
<1> SUFFICES /\ told \subseteq answer.made
             /\ \A d \in answer.made \ told : given[d] = "lost" \/ \E b \in Unreadable(given) : d < b
  OBVIOUS
<1> HIDE DEF told, answer
<1>3. CASE Unreadable(given) = {}
  <2>1. Told(given) = DOMAIN given /\ Called(given) = DOMAIN given
    BY <1>3 DEF Told, Called
  <2> QED
    BY <1>1, <1>2, <2>1
<1>4. CASE Unreadable(given) # {}
  <2>1. told = {}
    BY <1>2, <1>4 DEF Told
  <2>2. \A d \in Called(given) : \E b \in Unreadable(given) : d < b
    BY <1>4 DEF Called
  <2> QED
    BY <1>1, <2>1, <2>2
<1> QED
  BY <1>3, <1>4

LEMMA ToolsTold ==
  ASSUME NEW i \in ToolCalls
  PROVE  AllocationsTold(i)
<1> DEFINE answer == RequestNetworkSlice(i.attachments)
           told   == {d \in DOMAIN answer.devices : answer.devices[d] = "ATTACHED"}
<1>1. i.polls \in Seq(Range(i.polls))
  BY BatchAssumption
<1>2. /\ PollQod(i.create, i.polls) \in {i.create} \union Range(i.polls)
      /\ i.create = "REQUESTED" /\ i.polls # << >> /\ i.polls[1] \in TERMINAL_QOD => PollQod(i.create, i.polls) = i.polls[1]
  BY <1>1, PolledIs
<1>3. /\ told \subseteq answer.made
      /\ \A d \in answer.made \ told : i.attachments[d] = "lost" \/ \E b \in Unreadable(i.attachments) : d < b
  BY SlicesTold
<1>4. i.congestion # "HIGH" => CheckCongestion(i.congestion) # "HIGH"
  BY DEF CheckCongestion
<1> DEFINE qod == RequestQod(i.device, i.create, i.polls)
<1>5. /\ qod.session => qod.made
      /\ qod.made /\ ~qod.session => i.create \in {"lost", "no_id"}
      /\ qod.status = "AVAILABLE" => "AVAILABLE" \in {i.create} \union Range(i.polls)
      /\ i.create = "REQUESTED" /\ i.polls # << >> /\ i.polls[1] \in TERMINAL_QOD /\ qod.made => qod.status = i.polls[1]
  BY <1>2 DEF RequestQod, Recognized
<1> HIDE DEF told, answer, qod
<1> QED
  BY <1>3, <1>4, <1>5 DEF AllocationsTold, told, answer, qod

-----------------------------------------------------------------------------
(* The slice of the start.                                                 *)
Waits == [waiting : BOOLEAN, slice : {Null, "ready"}, called : BOOLEAN, calls : Nat]
Waited(g, states, activate) ==
  g = [k \in 0..Len(states) |-> IF k = 0 THEN Unpolled ELSE AfterPoll(g[k - 1], states[k], activate)]

LEMMA PollTyped ==
  ASSUME NEW s \in Waits, NEW state, NEW activate
  PROVE  AfterPoll(s, state, activate) \in Waits
<1>1. [s EXCEPT !.waiting = FALSE, !.slice = "ready"] \in Waits
  BY DEF Waits
<1>2. [s EXCEPT !.waiting = FALSE] \in Waits
  BY DEF Waits
<1>3. [s EXCEPT !.called = AfterActivate(FALSE, activate[s.calls + 1]), !.calls = @ + 1] \in Waits
  <2>1. AfterActivate(FALSE, activate[s.calls + 1]) \in BOOLEAN /\ s.calls + 1 \in Nat
    BY DEF AfterActivate, Waits
  <2> QED
    BY <2>1 DEF Waits
<1> QED
  BY <1>1, <1>2, <1>3 DEF AfterPoll

LEMMA WaitsThere ==
  ASSUME NEW states, NEW activate, states \in Seq(Range(states))
  PROVE  \E g \in [0..Len(states) -> Waits] : Waited(g, states, activate)
<1> DEFINE n == Len(states)
           step == [p \in Waits \X Nat |-> AfterPoll(p[1], states[p[2]], activate)]
<1>1. n \in Nat
  OBVIOUS
<1>2. ASSUME NEW x \in Waits, NEW k \in Nat PROVE step[<<x, k>>] = AfterPoll(x, states[k], activate)
  OBVIOUS
<1>3. ASSUME NEW x \in Waits, NEW k \in Nat PROVE step[<<x, k>>] \in Waits
  BY <1>2, PollTyped
<1>4. Unpolled \in Waits
  BY DEF Unpolled, Waits
<1> HIDE DEF step
<1>5. PICK g \in [0..n -> Waits] : Loops(g, n, Unpolled, step)
  BY <1>1, <1>3, <1>4, LoopThere
<1>6. ASSUME NEW k \in 0..n PROVE g[k] = IF k = 0 THEN Unpolled ELSE AfterPoll(g[k - 1], states[k], activate)
  <2>1. k # 0 => k \in 1..n /\ k \in Nat /\ k - 1 \in 0..n
    BY <1>1
  <2>2. k # 0 => g[k] = step[<<g[k - 1], k>>] /\ g[k - 1] \in Waits
    BY <1>5, <2>1 DEF Loops
  <2> QED
    BY <1>2, <1>5, <2>1, <2>2 DEF Loops
<1>7. g = [k \in 0..n |-> IF k = 0 THEN Unpolled ELSE AfterPoll(g[k - 1], states[k], activate)]
  BY <1>6
<1> QED
  BY <1>7 DEF Waited

\* What the polls so far have made of it.
WaitedTo(k, s, states, activate) ==
  /\ s.slice = Null \/ \E j \in DOMAIN states : states[j] = "OPERATING"
  /\ s.calls <= k
  /\ \A j \in 1..s.calls : activate[j] = "ok" => s.called /\ j = s.calls
  /\ s.called => s.calls \in 1..k /\ activate[s.calls] = "ok"
  /\ (\A j \in DOMAIN states : states[j] = "AVAILABLE") => s.waiting /\ (s.called \/ s.calls = k)

LEMMA PollKeeps ==
  ASSUME NEW states, NEW activate, NEW k \in Nat, k \in DOMAIN states, k # 0,
         NEW s \in Waits, WaitedTo(k - 1, s, states, activate)
  PROVE  WaitedTo(k, AfterPoll(s, states[k], activate), states, activate)
<1> DEFINE t == AfterPoll(s, states[k], activate)
<1>1. /\ s.waiting \in BOOLEAN /\ s.called \in BOOLEAN /\ s.calls \in Nat
  BY DEF Waits
<1>2. CASE s.waiting /\ states[k] = "AVAILABLE" /\ ~s.called
  <2>1. t = [s EXCEPT !.called = AfterActivate(FALSE, activate[s.calls + 1]), !.calls = @ + 1]
    BY <1>2 DEF AfterPoll
  <2>2. t.slice = s.slice /\ t.waiting = s.waiting /\ t.calls = s.calls + 1 /\ (t.called <=> activate[s.calls + 1] = "ok")
    BY <2>1 DEF Waits, AfterActivate
  <2> HIDE DEF t
  <2>3. \A j \in 1..t.calls : j = s.calls + 1 \/ j \in 1..s.calls
    BY <1>1, <2>2
  <2>4. \A j \in 1..s.calls : activate[j] # "ok"
    BY <1>2 DEF WaitedTo
  <2>5. s.calls + 1 <= k /\ s.calls + 1 \in 1..k
    BY <1>1 DEF WaitedTo
  <2>6. (\A j \in DOMAIN states : states[j] = "AVAILABLE") => t.calls = k
    BY <1>1, <1>2, <2>2 DEF WaitedTo
  <2>7. WaitedTo(k, t, states, activate)
    BY <1>2, <2>2, <2>3, <2>4, <2>5, <2>6 DEF WaitedTo
  <2> QED
    BY <2>7 DEF t
<1>3. CASE ~(s.waiting /\ states[k] = "AVAILABLE" /\ ~s.called)
  <2>1. t.calls = s.calls /\ t.called = s.called
    BY <1>3 DEF AfterPoll, Waits
  <2>2. t.slice = s.slice \/ states[k] = "OPERATING"
    BY <1>3 DEF AfterPoll, Waits
  <2>3. states[k] = "AVAILABLE" => t.waiting = s.waiting
    BY <1>3 DEF AfterPoll, Waits
  <2> HIDE DEF t
  <2>4. t.calls <= k /\ \A j \in 1..(k - 1) : j \in 1..k
    BY <1>1, <2>1 DEF WaitedTo
  <2>5. (\A j \in DOMAIN states : states[j] = "AVAILABLE") => t.waiting /\ t.called
    BY <1>3, <2>1, <2>3 DEF WaitedTo
  <2>6. WaitedTo(k, t, states, activate)
    BY <2>1, <2>2, <2>4, <2>5 DEF WaitedTo
  <2> QED
    BY <2>6 DEF t
<1> QED
  BY <1>2, <1>3

LEMMA StartTold ==
  ASSUME NEW i \in Startups
  PROVE  SliceToldTrue(i)
<1> DEFINE states == i.states
           activate == i.activate
           n == Len(states)
           g == CHOOSE h : Waited(h, states, activate)
           p == Provision(i.existing, i.create, states, activate)
<1>1. /\ states \in Seq(Range(states))
      /\ DOMAIN activate \subseteq Nat \ {0}
      /\ 1..n \subseteq DOMAIN activate
  BY BatchAssumption
<1>2. n \in Nat /\ DOMAIN states = 1..n
  BY <1>1
<1>3. p = IF i.existing \in GONE \union {"raises"} /\ i.create = "raises" THEN Unpolled ELSE g[n]
  BY DEF Provision, Waited
<1>4. Waited(g, states, activate)
  BY <1>1, WaitsThere
<1> HIDE DEF g
<1>5. g[0] = Unpolled /\ \A k \in 1..n : g[k] = AfterPoll(g[k - 1], states[k], activate)
  <2>1. 0 \in 0..n /\ \A k \in 1..n : k \in 0..n /\ k # 0
    BY <1>2
  <2> QED
    BY <1>4, <2>1 DEF Waited
<1> DEFINE T == {k \in Nat : g[k] \in Waits /\ WaitedTo(k, g[k], states, activate)}
<1>6. Unpolled \in Waits /\ WaitedTo(0, Unpolled, states, activate)
  BY DEF Unpolled, Waits, WaitedTo
<1>7. \A k \in 0..n : k \in T
  <2>1. 0 \in T
    BY <1>5, <1>6
  <2>2. ASSUME NEW k \in 1..n, k - 1 \in T PROVE k \in T
    <3>1. k \in Nat /\ k \in DOMAIN states /\ k # 0
      BY <1>2
    <3>2. g[k - 1] \in Waits /\ WaitedTo(k - 1, g[k - 1], states, activate)
      BY <2>2
    <3>3. AfterPoll(g[k - 1], states[k], activate) \in Waits
      BY <3>2, PollTyped
    <3>4. WaitedTo(k, AfterPoll(g[k - 1], states[k], activate), states, activate)
      BY <3>1, <3>2, PollKeeps
    <3> QED
      BY <1>5, <3>1, <3>3, <3>4
  <2> HIDE DEF T
  <2> QED
    BY <1>2, <2>1, <2>2, LoopKeeps
<1>8. n \in 0..n
  BY <1>2
<1>9. g[n] \in Waits /\ WaitedTo(n, g[n], states, activate)
  BY <1>7, <1>8
<1>10. /\ Unpolled.slice = Null /\ Unpolled.calls = 0
  BY DEF Unpolled
<1>11. p.calls \in Nat /\ (p.slice = Null \/ \E j \in DOMAIN states : states[j] = "OPERATING")
  BY <1>3, <1>9, <1>10 DEF Waits, WaitedTo
<1>12. SliceToAttach(Null, p.slice) # "" => "OPERATING" \in Range(states)
  BY <1>11 DEF SliceToAttach, Range
<1>13. \A k \in 1..(p.calls - 1) : activate[k] # "ok"
  <2>1. CASE p = g[n]
    <3>1. ASSUME NEW k \in 1..(p.calls - 1) PROVE k \in 1..p.calls /\ k # p.calls
      BY <1>11
    <3> QED
      BY <1>9, <2>1, <3>1 DEF WaitedTo
  <2>2. CASE p = Unpolled
    BY <1>10, <2>2
  <2> QED
    BY <1>3, <2>1, <2>2
<1>14. ASSUME \A k \in DOMAIN states : states[k] = "AVAILABLE", ~(i.existing \in GONE \union {"raises"} /\ i.create = "raises")
       PROVE  p.calls = Min({k \in DOMAIN activate : activate[k] = "ok"} \union {n})
  <2> DEFINE S == {k \in DOMAIN activate : activate[k] = "ok"} \union {n}
  <2>1. p = g[n]
    BY <1>3, <1>14
  <2>2. WaitedTo(n, p, states, activate) /\ p.calls \in Nat /\ p.called \in BOOLEAN
    BY <1>9, <2>1 DEF Waits
  <2>3. S \in SUBSET Nat
    BY <1>1, <1>2
  <2>4. p.called \/ p.calls = n
    BY <1>14, <2>2 DEF WaitedTo
  <2>5. p.calls \in S
    <3>1. CASE p.called
      <4>1. p.calls \in 1..n /\ activate[p.calls] = "ok"
        BY <2>2, <3>1 DEF WaitedTo
      <4> QED
        BY <1>1, <4>1
    <3> QED
      BY <2>4, <3>1
  <2>6. ASSUME NEW x \in S PROVE p.calls <= x
    <3>1. CASE x = n
      BY <2>2, <3>1 DEF WaitedTo
    <3>2. CASE x \in DOMAIN activate /\ activate[x] = "ok"
      <4>1. x \in Nat \ {0}
        BY <1>1, <3>2
      <4>2. x \in 1..p.calls => x = p.calls
        BY <2>2, <3>2 DEF WaitedTo
      <4> QED
        BY <2>2, <4>1, <4>2
    <3> QED
      BY <3>1, <3>2
  <2> HIDE DEF S
  <2>7. Min(S) = p.calls
    BY <2>3, <2>5, <2>6, LeastIs
  <2> QED
    BY <2>7 DEF S
<1> HIDE DEF p
<1> QED
  BY <1>12, <1>13, <1>14 DEF SliceToldTrue, p

-----------------------------------------------------------------------------
(* The decisions.                                                          *)
\* What increases is one to one.
LEMMA Increasing ==
  ASSUME NEW V \in SUBSET Nat, NEW W \in SUBSET Nat, NEW f \in [V -> W], IsFiniteSet(V),
         \A u, v \in V : u < v => f[u] < f[v],
         \A w \in W : \E v \in V : f[v] = w
  PROVE  IsFiniteSet(W) /\ Cardinality(W) = Cardinality(V)
<1>1. ASSUME NEW u \in V, NEW v \in V, f[u] = f[v] PROVE u = v
  <2> SUFFICES ASSUME u # v PROVE FALSE
    OBVIOUS
  <2>1. u < v \/ v < u
    OBVIOUS
  <2>2. f[u] < f[v] \/ f[v] < f[u]
    BY <2>1
  <2>3. f[u] \in Nat
    OBVIOUS
  <2> QED
    BY <1>1, <2>2, <2>3
<1>2. f \in Bijection(V, W)
  BY <1>1 DEF Bijection, Injection, Surjection, IsInjective
<1> QED
  BY <1>2, FS_Bijection DEF ExistsBijection

\* To take from what was taken is to take the positions both take.
LEMMA TakenTwice ==
  ASSUME NEW E \in SUBSET Nat, IsFiniteSet(E), NEW at, Positions(at, E),
         NEW V, V \subseteq DOMAIN at, NEW bt, Positions(bt, V),
         NEW W \in SUBSET E, \A k \in DOMAIN at : k \in V <=> at[k] \in W
  PROVE  Positions([k \in DOMAIN bt |-> at[bt[k]]], W)
<1> DEFINE ct == [k \in DOMAIN bt |-> at[bt[k]]]
<1>1. PICK c \in Nat : c = Cardinality(E)
  BY FS_CardinalityType
<1>2. /\ DOMAIN at = 1..c
      /\ \A k \in DOMAIN at : at[k] \in E
      /\ \A x \in E : \E k \in DOMAIN at : at[k] = x
      /\ \A k, l \in DOMAIN at : k < l => at[k] < at[l]
  BY <1>1 DEF Positions
<1>3. V \in SUBSET Nat /\ IsFiniteSet(V)
  <2>1. IsFiniteSet(1..c)
    BY <1>1, FS_Interval
  <2>2. V \in SUBSET (1..c)
    BY <1>2
  <2> QED
    BY <2>1, <2>2, FS_Subset
<1>4. /\ DOMAIN bt = 1..Cardinality(V)
      /\ \A k \in DOMAIN bt : bt[k] \in V
      /\ \A x \in V : \E k \in DOMAIN bt : bt[k] = x
      /\ \A k, l \in DOMAIN bt : k < l => bt[k] < bt[l]
      /\ \A k \in DOMAIN bt : Cardinality({y \in V : y <= bt[k]}) = k
  BY DEF Positions
<1>5. ASSUME NEW S \in SUBSET V, NEW U \in SUBSET W, \A v \in V : v \in S <=> at[v] \in U
      PROVE  Cardinality(U) = Cardinality(S)
  <2> DEFINE f == [v \in S |-> at[v]]
  <2>1. f \in [S -> U]
    BY <1>5
  <2>2. \A u, v \in S : u < v => f[u] < f[v]
    BY <1>2
  <2>3. ASSUME NEW w \in U PROVE \E v \in S : f[v] = w
    <3>1. PICK k \in DOMAIN at : at[k] = w
      BY <1>2
    <3>2. k \in V
      BY <3>1
    <3>3. k \in S
      BY <1>5, <3>1, <3>2
    <3> QED
      BY <3>1, <3>3
  <2>4. S \in SUBSET Nat /\ U \in SUBSET Nat /\ IsFiniteSet(S)
    BY <1>3, FS_Subset
  <2> HIDE DEF f
  <2> QED
    BY <2>1, <2>2, <2>3, <2>4, Increasing
<1>6. Cardinality(W) = Cardinality(V)
  BY <1>5
<1>7. \A k \in DOMAIN ct : ct[k] \in W
  BY <1>4
<1>8. ASSUME NEW x \in W PROVE \E k \in DOMAIN ct : ct[k] = x
  <2>1. PICK v \in DOMAIN at : at[v] = x
    BY <1>2
  <2>2. v \in V
    BY <2>1
  <2>3. PICK k \in DOMAIN bt : bt[k] = v
    BY <1>4, <2>2
  <2> QED
    BY <2>1, <2>3
<1>9. \A k, l \in DOMAIN ct : k < l => ct[k] < ct[l]
  BY <1>2, <1>4
<1>10. ASSUME NEW k \in DOMAIN ct PROVE Cardinality({y \in W : y <= ct[k]}) = k
  <2> DEFINE S == {y \in V : y <= bt[k]}
             U == {y \in W : y <= ct[k]}
  <2>1. bt[k] \in V /\ ct[k] = at[bt[k]]
    BY <1>4
  <2>2. ASSUME NEW v \in V PROVE v \in S <=> at[v] \in U
    <3>1. v \in Nat /\ bt[k] \in Nat /\ at[v] \in Nat /\ ct[k] \in Nat
      BY <1>2, <1>3, <2>1
    <3>2. v < bt[k] => at[v] < ct[k]
      BY <1>2, <2>1
    <3>3. bt[k] < v => ct[k] < at[v]
      BY <1>2, <2>1
    <3>4. v = bt[k] => at[v] = ct[k]
      BY <2>1
    <3>5. v <= bt[k] <=> at[v] <= ct[k]
      <4> HIDE DEF ct
      <4> QED
        BY <3>1, <3>2, <3>3, <3>4
    <3> HIDE DEF ct
    <3> QED
      BY <3>5
  <2> HIDE DEF S, U
  <2>3. S \in SUBSET V /\ U \in SUBSET W
    BY DEF S, U
  <2>4. Cardinality(U) = Cardinality(S)
    BY <1>5, <2>2, <2>3
  <2>5. Cardinality(S) = k
    BY <1>4 DEF S
  <2> QED
    BY <2>4, <2>5 DEF U
<1>11. DOMAIN ct = 1..Cardinality(W)
  BY <1>4, <1>6
<1> HIDE DEF ct
<1>12. Positions(ct, W)
  BY <1>7, <1>8, <1>9, <1>10, <1>11 DEF Positions
<1> QED
  BY <1>12 DEF ct

LEMMA DispatchTold ==
  ASSUME NEW i \in Dispatches
  PROVE  DispatchedOnce(i)
<1> DEFINE msgs == i.messages
           E == {k \in DOMAIN msgs : msgs[k].tool \in DISPATCHABLE /\ msgs[k].text = "json"}
           emitted == Emitted(msgs)
           V == {k \in DOMAIN emitted : ValidTier(emitted[k].tier)}
           W == {k \in DOMAIN msgs : LET m == msgs[k] IN m.tool \in DISPATCHABLE /\ m.text = "json" /\ ValidTier(m.tier)}
           runs == DispatchNode(msgs)
           sent == Taken(emitted, V)
<1>1. msgs \in Seq(Range(msgs))
  BY BatchAssumption
<1>2. PICK n \in Nat : DOMAIN msgs = 1..n
  BY <1>1
<1>3. E \in SUBSET Nat /\ IsFiniteSet(E) /\ W \in SUBSET E
  <2>1. IsFiniteSet(1..n) /\ E \in SUBSET (1..n) /\ W \in SUBSET E
    BY <1>2, FS_Interval
  <2> HIDE DEF E, W
  <2>2. IsFiniteSet(E)
    BY <2>1, FS_Subset
  <2> QED
    BY <2>1, <2>2
<1>4. emitted = Taken(msgs, E)
  BY DEF Emitted
<1>5. DOMAIN sent = DOMAIN runs /\ \A k \in DOMAIN sent : runs[k] = RunOf(sent[k])
  BY DEF DispatchNode
<1> HIDE DEF emitted, E, runs
<1>6. PICK at : Positions(at, E) /\ DOMAIN emitted = DOMAIN at /\ \A k \in DOMAIN at : emitted[k] = msgs[at[k]]
  BY <1>3, <1>4, TakenIs
<1>7. PICK c \in Nat : c = Cardinality(E)
  BY <1>3, FS_CardinalityType
<1>8. V \subseteq DOMAIN at /\ V \in SUBSET (1..c)
  BY <1>6, <1>7 DEF Positions
<1>9. V \in SUBSET Nat /\ IsFiniteSet(V)
  <2>1. IsFiniteSet(1..c)
    BY <1>7, FS_Interval
  <2> HIDE DEF V
  <2> QED
    BY <1>8, <2>1, FS_Subset
<1>10. ASSUME NEW k \in DOMAIN at PROVE k \in V <=> at[k] \in W
  <2>1. at[k] \in E /\ emitted[k] = msgs[at[k]]
    BY <1>6 DEF Positions
  <2> QED
    BY <1>6, <2>1 DEF E
<1> HIDE DEF V, W, sent
<1>11. PICK bt : Positions(bt, V) /\ DOMAIN sent = DOMAIN bt /\ \A k \in DOMAIN bt : sent[k] = emitted[bt[k]]
  BY <1>9, TakenIs DEF sent
<1> DEFINE ct == [k \in DOMAIN bt |-> at[bt[k]]]
<1>12. Positions(ct, W)
  BY <1>3, <1>6, <1>8, <1>10, <1>11, TakenTwice
<1>13. ASSUME NEW k \in DOMAIN bt PROVE ct[k] \in W /\ runs[k] = RunOf(msgs[ct[k]]) /\ Cardinality({x \in W : x <= ct[k]}) = k
  <2>1. bt[k] \in V
    BY <1>11 DEF Positions
  <2>2. bt[k] \in DOMAIN at
    BY <1>8, <2>1
  <2>3. sent[k] = msgs[ct[k]]
    BY <1>6, <1>11, <2>2
  <2>4. k \in DOMAIN ct
    OBVIOUS
  <2> HIDE DEF ct
  <2> QED
    BY <1>5, <1>11, <1>12, <2>3, <2>4 DEF Positions
<1>14. DOMAIN runs = 1..Cardinality(W) /\ DOMAIN runs = DOMAIN bt
  <2>1. DOMAIN ct = DOMAIN bt
    OBVIOUS
  <2> HIDE DEF ct
  <2> QED
    BY <1>5, <1>11, <1>12, <2>1 DEF Positions
<1>15. Len(runs) = Cardinality(W)
  <2>1. PICK w \in Nat : w = Cardinality(W)
    BY <1>3, FS_Subset, FS_CardinalityType
  <2>2. runs = [k \in 1..w |-> RunOf(sent[k])]
    <3>1. runs = [k \in DOMAIN sent |-> RunOf(sent[k])]
      BY DEF runs, sent, V, emitted, DispatchNode
    <3> QED
      BY <1>5, <1>14, <2>1, <3>1
  <2> QED
    BY <2>1, <2>2
<1>16. ASSUME NEW k \in DOMAIN runs
       PROVE  \E j \in W : /\ Cardinality({x \in W : x <= j}) = k
                           /\ runs[k].incident = msgs[j].incident
                           /\ runs[k].grant <=> msgs[j].tool = "emit_grant"
  <2>1. ct[k] \in W /\ runs[k] = RunOf(msgs[ct[k]]) /\ Cardinality({x \in W : x <= ct[k]}) = k
    BY <1>13, <1>14
  <2> HIDE DEF ct
  <2> DEFINE m == msgs[ct[k]]
  <2> HIDE DEF m
  <2>2. RunOf(m).incident = m.incident /\ (RunOf(m).grant <=> m.tool = "emit_grant")
    BY DEF RunOf
  <2>3. runs[k].incident = msgs[ct[k]].incident /\ (runs[k].grant <=> msgs[ct[k]].tool = "emit_grant")
    BY <2>1, <2>2 DEF m
  <2> QED
    BY <2>1, <2>3
<1> DEFINE told == ProcessThreats(i.threats, i.max, msgs)
<1> DEFINE unheard == Batches(i.threats, i.max) = << >> \/ Raised(msgs)
<1>17. told = IF unheard THEN << >> ELSE runs
  BY DEF ProcessThreats, runs
<1> HIDE DEF told, unheard
<1>18. /\ Len(told) = IF unheard THEN 0 ELSE Cardinality(W)
       /\ \A k \in DOMAIN told : \E j \in W :
            /\ Cardinality({x \in W : x <= j}) = k
            /\ told[k].incident = msgs[j].incident
            /\ told[k].grant <=> msgs[j].tool = "emit_grant"
  <2>1. CASE unheard
    <3>1. told = << >>
      BY <1>17, <2>1
    <3>2. DOMAIN told = {} /\ Len(told) = 0
      BY <3>1
    <3> QED
      BY <2>1, <3>2
  <2>2. CASE ~unheard
    <3>1. told = runs
      BY <1>17, <2>2
    <3>2. Len(told) = IF unheard THEN 0 ELSE Cardinality(W)
      BY <1>15, <2>2, <3>1
    <3> QED
      BY <1>16, <3>1, <3>2
  <2> QED
    BY <2>1, <2>2
<1> QED
  BY <1>18 DEF DispatchedOnce, told, W, unheard

-----------------------------------------------------------------------------
(* The batches.                                                            *)
Numbered(t) == t.tier \in Int \union {Null} /\ t.criticality \in Int \union {Null} /\ t.confidence \in Int

LEMMA UrgentIs ==
  ASSUME NEW s, NEW t
  PROVE  MoreUrgent(s, t) <=>
           \/ Or0(s.tier) > Or0(t.tier)
           \/ Or0(s.tier) = Or0(t.tier) /\ Or0(s.criticality) > Or0(t.criticality)
           \/ Or0(s.tier) = Or0(t.tier) /\ Or0(s.criticality) = Or0(t.criticality) /\ s.confidence > t.confidence
<1> DEFINE a == RankKey(s)
           b == RankKey(t)
<1>1. /\ a[1] = Or0(s.tier) /\ a[2] = Or0(s.criticality) /\ a[3] = s.confidence
      /\ b[1] = Or0(t.tier) /\ b[2] = Or0(t.criticality) /\ b[3] = t.confidence
  BY DEF RankKey
<1>2. MoreUrgent(s, t) <=> \E i \in 1..3 : a[i] > b[i] /\ \A j \in 1..(i - 1) : a[j] = b[j]
  BY DEF MoreUrgent
<1> HIDE DEF a, b
<1>3. (\E i \in 1..3 : a[i] > b[i] /\ \A j \in 1..(i - 1) : a[j] = b[j])
      <=> \/ a[1] > b[1]
          \/ a[2] > b[2] /\ a[1] = b[1]
          \/ a[3] > b[3] /\ a[1] = b[1] /\ a[2] = b[2]
  <2>1. 1..3 = {1, 2, 3} /\ 1..(1 - 1) = {} /\ 1..(2 - 1) = {1} /\ 1..(3 - 1) = {1, 2}
    OBVIOUS
  <2> QED
    BY <2>1
<1> QED
  BY <1>1, <1>2, <1>3

\* More urgent, a threat comes before all that are not, and those that tie are alike.
LEMMA UrgencyOrders ==
  ASSUME NEW s, NEW t, NEW u, Numbered(s), Numbered(t), Numbered(u)
  PROVE  /\ ~MoreUrgent(s, s)
         /\ MoreUrgent(s, t) => ~MoreUrgent(t, s)
         /\ MoreUrgent(s, t) /\ MoreUrgent(t, u) => MoreUrgent(s, u)
         /\ ~MoreUrgent(s, t) /\ ~MoreUrgent(t, u) => ~MoreUrgent(s, u)
<1>1. \A x \in Int \union {Null} : Or0(x) \in Int
  BY DEF Or0
<1>2. /\ Or0(s.tier) \in Int /\ Or0(s.criticality) \in Int /\ s.confidence \in Int
      /\ Or0(t.tier) \in Int /\ Or0(t.criticality) \in Int /\ t.confidence \in Int
      /\ Or0(u.tier) \in Int /\ Or0(u.criticality) \in Int /\ u.confidence \in Int
  BY <1>1 DEF Numbered
<1> QED
  BY <1>2, UrgentIs

LEMMA AheadOrders ==
  ASSUME NEW requests, NEW m \in Nat, \A k \in 1..m : Numbered(requests[k])
  PROVE  Orders({p \in (1..m) \X (1..m) : Ahead(requests, p[1], p[2])}, 1..m)
<1> DEFINE R == {p \in (1..m) \X (1..m) : Ahead(requests, p[1], p[2])}
           Before(i, j) == MoreUrgent(requests[i], requests[j])
<1>1. \A i, j, k \in 1..m : /\ ~Before(i, i)
                            /\ Before(i, j) => ~Before(j, i)
                            /\ Before(i, j) /\ Before(j, k) => Before(i, k)
                            /\ ~Before(i, j) /\ ~Before(j, k) => ~Before(i, k)
  BY UrgencyOrders
<1>2. \A i, j \in 1..m : <<i, j>> \in R <=> Before(i, j) \/ (~Before(j, i) /\ i < j)
  BY DEF Ahead
<1> HIDE DEF Before, R
<1>3. \A i \in 1..m : <<i, i>> \notin R
  BY <1>1, <1>2
<1>4. ASSUME NEW i \in 1..m, NEW j \in 1..m, NEW k \in 1..m, <<i, j>> \in R, <<j, k>> \in R PROVE <<i, k>> \in R
  <2>1. i \in Int /\ j \in Int /\ k \in Int
    OBVIOUS
  <2>2. ~Before(j, i) /\ ~Before(k, j)
    BY <1>1, <1>2, <1>4
  <2>3. ~Before(k, i)
    BY <1>1, <2>2
  <2>4. CASE Before(i, j) \/ Before(j, k)
    <3>1. Before(i, k)
      BY <1>1, <2>2, <2>4
    <3> QED
      BY <1>2, <3>1
  <2>5. CASE ~Before(i, j) /\ ~Before(j, k)
    <3>1. i < j /\ j < k
      BY <1>2, <1>4, <2>5
    <3> QED
      BY <1>2, <2>1, <2>3, <3>1
  <2> QED
    BY <2>4, <2>5
<1>5. ASSUME NEW i \in 1..m, NEW j \in 1..m, i # j PROVE <<i, j>> \in R \/ <<j, i>> \in R
  <2>1. i < j \/ j < i
    BY <1>5
  <2> QED
    BY <1>1, <1>2, <2>1
<1>6. Orders(R, 1..m)
  BY <1>3, <1>4, <1>5 DEF Orders
<1> QED
  BY <1>6 DEF R

\* The same requests, the most urgent first.
Ranks(r, requests, m) ==
  /\ DOMAIN r = 1..m
  /\ \A k \in 1..m : \E o \in 1..m : r[k] = requests[o]
  /\ \A o \in 1..m : \E k \in 1..m : r[k] = requests[o]
  /\ \A k, l \in 1..m : k < l => ~MoreUrgent(r[l], r[k])

LEMMA RankedIs ==
  ASSUME NEW requests, NEW m \in Nat, DOMAIN requests = 1..m, \A k \in 1..m : Numbered(requests[k])
  PROVE  Ranks(RankRequests(requests), requests, m)
<1> DEFINE R == {p \in (1..m) \X (1..m) : Ahead(requests, p[1], p[2])}
           sorted == SortedBy(1..m, R)
           r == RankRequests(requests)
<1>1. r = [k \in 1..m |-> requests[sorted[k]]]
  BY DEF RankRequests
<1>2. Orders(R, 1..m)
  BY AheadOrders
<1>3. IsFiniteSet(1..m) /\ Cardinality(1..m) = m
  BY FS_Interval
<1> HIDE DEF R
<1>4. Sorted(sorted, 1..m, R)
  BY <1>2, <1>3, SortedIs
<1> HIDE DEF sorted, r
<1>5. /\ DOMAIN sorted = 1..m
      /\ \A k \in 1..m : sorted[k] \in 1..m
      /\ \A o \in 1..m : \E k \in 1..m : sorted[k] = o
      /\ \A k, l \in 1..m : k < l => <<sorted[k], sorted[l]>> \in R
  BY <1>3, <1>4 DEF Sorted
<1>6. ASSUME NEW k \in 1..m, NEW l \in 1..m, k < l PROVE ~MoreUrgent(requests[sorted[l]], requests[sorted[k]])
  <2>1. <<sorted[k], sorted[l]>> \in R /\ sorted[k] \in 1..m /\ sorted[l] \in 1..m
    BY <1>5, <1>6
  <2>2. Ahead(requests, sorted[k], sorted[l])
    BY <2>1 DEF R
  <2> QED
    BY <2>1, <2>2, UrgencyOrders DEF Ahead
<1>7. \A k \in 1..m : r[k] = requests[sorted[k]]
  BY <1>1
<1>8. Ranks(r, requests, m)
  <2>1. DOMAIN r = 1..m
    BY <1>1
  <2>2. \A k, l \in 1..m : k < l => ~MoreUrgent(r[l], r[k])
    BY <1>6, <1>7
  <2>3. ASSUME NEW k \in 1..m PROVE \E o \in 1..m : r[k] = requests[o]
    BY <1>5, <1>7
  <2>4. ASSUME NEW o \in 1..m PROVE \E k \in 1..m : r[k] = requests[o]
    BY <1>5, <1>7
  <2> QED
    BY <2>1, <2>2, <2>3, <2>4 DEF Ranks
<1> QED
  BY <1>8 DEF r

\* One zone's requests, in the order of the batch, the first of them first.
InGroup(at, r, z) ==
  /\ Positions(at, OfZone(r, z))
  /\ DOMAIN Group(r, z).requests = DOMAIN at
  /\ \A k \in DOMAIN at : Group(r, z).requests[k] = r[at[k]]
  /\ 1 \in DOMAIN at /\ at[1] = Min(OfZone(r, z))
LEMMA GroupIs ==
  ASSUME NEW r, NEW m \in Nat, DOMAIN r = 1..m, NEW z, NEW j \in 1..m, r[j].cluster = z
  PROVE  \E at : InGroup(at, r, z)
<1> DEFINE S == OfZone(r, z)
<1>1. S \in SUBSET (1..m) /\ j \in S
  BY DEF OfZone
<1>2. IsFiniteSet(1..m)
  BY FS_Interval
<1> HIDE DEF S
<1>3. IsFiniteSet(S) /\ S \in SUBSET Nat
  <2>1. IsFiniteSet(S)
    BY <1>1, <1>2, FS_Subset
  <2> QED
    BY <1>1, <2>1
<1>4. PICK at : /\ Positions(at, S)
                /\ DOMAIN Taken(r, S) = DOMAIN at
                /\ \A k \in DOMAIN at : Taken(r, S)[k] = r[at[k]]
  BY <1>3, TakenIs
<1>5. Group(r, z).requests = Taken(r, S)
  BY DEF Group, S
<1>6. PICK c \in Nat : c = Cardinality(S)
  BY <1>3, FS_CardinalityType
<1>7. DOMAIN at = 1..c
  BY <1>4, <1>6 DEF Positions
<1>8. PICK k \in 1..c : at[k] = j
  BY <1>1, <1>4, <1>7 DEF Positions
<1>9. 1 \in DOMAIN at
  BY <1>7, <1>8
<1>10. at[1] \in S
  BY <1>4, <1>9 DEF Positions
<1>11. ASSUME NEW x \in S PROVE at[1] <= x
  <2>1. PICK l \in 1..c : at[l] = x
    BY <1>4, <1>7 DEF Positions
  <2>2. CASE l = 1
    BY <1>3, <1>10, <2>1, <2>2
  <2>3. CASE l # 1
    <3>1. 1 < l /\ l \in DOMAIN at
      BY <1>7, <2>3
    <3>2. at[1] < at[l]
      BY <1>4, <1>9, <3>1 DEF Positions
    <3>3. at[1] \in Nat /\ x \in Nat
      BY <1>3, <1>10
    <3> QED
      BY <2>1, <3>2, <3>3
  <2> QED
    BY <2>2, <2>3
<1>12. at[1] = Min(S)
  BY <1>3, <1>10, <1>11, LeastIs
<1> QED
  BY <1>4, <1>5, <1>9, <1>12 DEF InGroup, S

\* Each group is one zone's, in the batch's order, and no group comes before a more urgent one.
InOrder(groups) ==
  \A g \in DOMAIN groups : LET rs == groups[g].requests IN
    /\ \A k \in DOMAIN rs : rs[k].cluster = groups[g].zone /\ groups[g].device = rs[1].cluster
    /\ \A k, l \in DOMAIN rs : k < l => ~MoreUrgent(rs[l], rs[k])
    /\ \A h \in DOMAIN groups : g < h => ~MoreUrgent(groups[h].requests[1], rs[1])
Shares(groups, r) ==
  /\ \A g \in DOMAIN groups : \A k \in DOMAIN groups[g].requests : \E j \in DOMAIN r : groups[g].requests[k] = r[j]
  /\ \A j \in DOMAIN r : \E g \in DOMAIN groups : \E k \in DOMAIN groups[g].requests : groups[g].requests[k] = r[j]

LEMMA GroupedIs ==
  ASSUME NEW r, NEW m \in Nat, DOMAIN r = 1..m, \A k, l \in 1..m : k < l => ~MoreUrgent(r[l], r[k])
  PROVE  InOrder(GroupRequests(r)) /\ Shares(GroupRequests(r), r)
<1> DEFINE zones == {r[k].cluster : k \in DOMAIN r}
           First(z) == Min(OfZone(r, z))
           R == {p \in zones \X zones : First(p[1]) < First(p[2])}
           list == SortedBy(zones, R)
           groups == GroupRequests(r)
<1>1. groups = [k \in DOMAIN list |-> Group(r, list[k])]
  BY DEF GroupRequests
<1>2. IsFiniteSet(zones)
  <2> DEFINE f == [k \in 1..m |-> r[k].cluster]
  <2>1. f \in Surjection(1..m, zones)
    BY DEF Surjection
  <2>2. IsFiniteSet(1..m)
    BY FS_Interval
  <2> HIDE DEF f, zones
  <2> QED
    BY <2>1, <2>2, FS_Surjection
<1>3. \A z \in zones : \E j \in 1..m : r[j].cluster = z
  OBVIOUS
<1>4. \A j \in 1..m : r[j].cluster \in zones
  OBVIOUS
<1>5. ASSUME NEW z \in zones PROVE First(z) \in 1..m /\ r[First(z)].cluster = z
  <2>1. PICK j \in 1..m : r[j].cluster = z
    BY <1>3
  <2>2. OfZone(r, z) \in SUBSET Nat /\ j \in OfZone(r, z)
    BY <2>1 DEF OfZone
  <2>3. First(z) \in OfZone(r, z)
    BY <2>2, LeastIn
  <2> HIDE DEF First
  <2> QED
    BY <2>3 DEF OfZone
<1>6. \A y, z \in zones : <<y, z>> \in R <=> First(y) < First(z)
  OBVIOUS
<1> HIDE DEF zones, First, R
<1>7. Orders(R, zones)
  <2>1. ASSUME NEW x \in zones PROVE <<x, x>> \notin R
    BY <1>5, <1>6
  <2>2. ASSUME NEW x \in zones, NEW y \in zones, NEW z \in zones, <<x, y>> \in R, <<y, z>> \in R PROVE <<x, z>> \in R
    <3>1. First(x) < First(y) /\ First(y) < First(z)
      BY <1>6, <2>2
    <3>2. First(x) \in 1..m /\ First(y) \in 1..m /\ First(z) \in 1..m
      BY <1>5
    <3>3. First(x) < First(z)
      BY <3>1, <3>2
    <3> QED
      BY <1>6, <3>3
  <2>3. ASSUME NEW x \in zones, NEW y \in zones, x # y PROVE <<x, y>> \in R \/ <<y, x>> \in R
    <3>1. First(x) \in 1..m /\ First(y) \in 1..m /\ First(x) # First(y)
      BY <1>5, <2>3
    <3>2. First(x) < First(y) \/ First(y) < First(x)
      BY <3>1
    <3> QED
      BY <1>6, <3>2
  <2> QED
    BY <2>1, <2>2, <2>3 DEF Orders
<1>8. Sorted(list, zones, R)
  BY <1>2, <1>7, SortedIs
<1> HIDE DEF list, groups
<1>9. /\ \A k \in DOMAIN list : list[k] \in zones
      /\ \A z \in zones : \E k \in DOMAIN list : list[k] = z
      /\ \A k, l \in DOMAIN list : k < l => <<list[k], list[l]>> \in R
  BY <1>8 DEF Sorted
<1>10. DOMAIN groups = DOMAIN list /\ \A g \in DOMAIN groups : groups[g] = Group(r, list[g])
  BY <1>1
<1>11. ASSUME NEW g \in DOMAIN groups
       PROVE  \E at : /\ Positions(at, OfZone(r, list[g]))
                      /\ DOMAIN groups[g].requests = DOMAIN at
                      /\ \A k \in DOMAIN at : groups[g].requests[k] = r[at[k]]
                      /\ 1 \in DOMAIN at /\ at[1] = First(list[g])
  <2>1. PICK j \in 1..m : r[j].cluster = list[g]
    BY <1>3, <1>9, <1>10
  <2> DEFINE z == list[g]
  <2>2. groups[g] = Group(r, z) /\ r[j].cluster = z
    BY <1>10, <2>1
  <2> HIDE DEF z
  <2>3. PICK at : InGroup(at, r, z)
    BY <2>2, GroupIs
  <2>4. at[1] = First(z)
    BY <2>3 DEF InGroup, First
  <2>5. \E a : /\ Positions(a, OfZone(r, z))
               /\ DOMAIN groups[g].requests = DOMAIN a
               /\ \A k \in DOMAIN a : groups[g].requests[k] = r[a[k]]
               /\ 1 \in DOMAIN a /\ a[1] = First(z)
    BY <2>2, <2>3, <2>4 DEF InGroup
  <2> QED
    BY <2>5 DEF z
<1>12. \A g \in DOMAIN groups : groups[g].zone = list[g] /\ groups[g].device = groups[g].requests[1].cluster
  BY <1>10 DEF Group
<1>13. ASSUME NEW g \in DOMAIN groups PROVE groups[g].requests[1] = r[First(list[g])]
  BY <1>11
<1>14. ASSUME NEW g \in DOMAIN groups, NEW k \in DOMAIN groups[g].requests
       PROVE  \E j \in 1..m : groups[g].requests[k] = r[j] /\ r[j].cluster = list[g]
  <2>1. PICK at : /\ Positions(at, OfZone(r, list[g]))
                  /\ DOMAIN groups[g].requests = DOMAIN at
                  /\ \A l \in DOMAIN at : groups[g].requests[l] = r[at[l]]
    BY <1>11
  <2>2. at[k] \in OfZone(r, list[g])
    BY <2>1 DEF Positions
  <2> QED
    BY <2>1, <2>2 DEF OfZone
<1>15. ASSUME NEW g \in DOMAIN groups, NEW k \in DOMAIN groups[g].requests, NEW l \in DOMAIN groups[g].requests, k < l
       PROVE  ~MoreUrgent(groups[g].requests[l], groups[g].requests[k])
  <2>1. PICK at : /\ Positions(at, OfZone(r, list[g]))
                  /\ DOMAIN groups[g].requests = DOMAIN at
                  /\ \A o \in DOMAIN at : groups[g].requests[o] = r[at[o]]
    BY <1>11
  <2>2. at[k] \in OfZone(r, list[g]) /\ at[l] \in OfZone(r, list[g]) /\ at[k] < at[l]
    BY <1>15, <2>1 DEF Positions
  <2>3. at[k] \in 1..m /\ at[l] \in 1..m
    BY <2>2 DEF OfZone
  <2> QED
    BY <2>1, <2>2, <2>3
<1>16. ASSUME NEW g \in DOMAIN groups, NEW h \in DOMAIN groups, g < h
       PROVE  ~MoreUrgent(groups[h].requests[1], groups[g].requests[1])
  <2>1. list[g] \in zones /\ list[h] \in zones /\ First(list[g]) < First(list[h])
    BY <1>6, <1>9, <1>10, <1>16
  <2>2. First(list[g]) \in 1..m /\ First(list[h]) \in 1..m
    BY <1>5, <2>1
  <2> QED
    BY <1>13, <2>1, <2>2
<1>17. InOrder(groups)
  BY <1>12, <1>14, <1>15, <1>16 DEF InOrder
<1>18. ASSUME NEW j \in DOMAIN r
       PROVE  \E g \in DOMAIN groups : \E k \in DOMAIN groups[g].requests : groups[g].requests[k] = r[j]
  <2>1. PICK g \in DOMAIN groups : list[g] = r[j].cluster
    BY <1>4, <1>9, <1>10
  <2>2. PICK at : /\ Positions(at, OfZone(r, list[g]))
                  /\ DOMAIN groups[g].requests = DOMAIN at
                  /\ \A l \in DOMAIN at : groups[g].requests[l] = r[at[l]]
    BY <1>11
  <2>3. j \in OfZone(r, list[g])
    BY <2>1 DEF OfZone
  <2>4. PICK k \in DOMAIN at : at[k] = j
    BY <2>2, <2>3 DEF Positions
  <2> QED
    BY <2>2, <2>4
<1>19. Shares(groups, r)
  BY <1>14, <1>18 DEF Shares
<1> QED
  BY <1>17, <1>19 DEF groups

\* The first requests, at most max of them.
LEMMA CollectedIs ==
  ASSUME NEW s, NEW c \in Nat, s \in [1..c -> Range(s)], NEW max \in Nat
  PROVE  \E m \in Nat : /\ m <= c /\ m <= max /\ (m = c \/ m = max)
                        /\ DOMAIN CollectNode(s, max) = 1..m
                        /\ \A k \in 1..m : CollectNode(s, max)[k] = s[k]
<1>1. s \in Seq(Range(s)) /\ Len(s) = c
  OBVIOUS
<1>2. PICK m \in Nat : m = Min({max, c})
  BY LeastIn
<1>3. m <= c /\ m <= max /\ (m = c \/ m = max)
  <2>1. Min({max, c}) \in {max, c} /\ \A x \in {max, c} : Min({max, c}) <= x
    BY LeastIn
  <2> QED
    BY <1>2, <2>1
<1>4. CollectNode(s, max) = SubSeq(s, 1, m)
  BY <1>1, <1>2 DEF CollectNode
<1>5. DOMAIN SubSeq(s, 1, m) = 1..m /\ \A k \in 1..m : SubSeq(s, 1, m)[k] = s[k]
  BY <1>1, <1>3
<1> QED
  BY <1>3, <1>4, <1>5

LEMMA BatchTold ==
  ASSUME NEW i \in ThreatBatches
  PROVE  GroupsRanked(i)
<1> DEFINE threats == i.threats
           max == i.max
           sane == [k \in DOMAIN threats |-> SanitizeThreat(threats[k])]
           worth == {k \in DOMAIN threats : Actionable(threats[k])}
           taken == Taken(sane, worth)
           col == CollectNode(taken, max)
           r == RankRequests(col)
           groups == Batches(threats, max)
           Keys == {"id", "cluster", "tier", "degraded", "criticality", "confidence"}
<1>1. max \in Nat /\ threats \in Seq(Range(threats)) /\ \A k \in DOMAIN threats : DOMAIN threats[k] = Keys /\ Numbered(threats[k])
  BY BatchAssumption DEF ThreatsGiven, Numbered
<1>2. PICK n \in Nat : DOMAIN threats = 1..n
  BY <1>1
<1>3. ASSUME NEW k \in DOMAIN threats
      PROVE  /\ sane[k].id = threats[k].id
             /\ Actionable(sane[k]) <=> Actionable(threats[k])
             /\ Numbered(sane[k])
  <2> DEFINE t == threats[k]
  <2>1. DOMAIN t = Keys /\ Numbered(t) /\ sane[k] = SanitizeThreat(t)
    BY <1>1
  <2> HIDE DEF t, sane
  <2>2. /\ SanitizeThreat(t).id = t.id /\ SanitizeThreat(t).tier = t.tier /\ SanitizeThreat(t).degraded = t.degraded
        /\ SanitizeThreat(t).criticality = t.criticality /\ SanitizeThreat(t).confidence = t.confidence
    BY <2>1 DEF SanitizeThreat
  <2>3. /\ sane[k].id = t.id /\ sane[k].tier = t.tier /\ sane[k].degraded = t.degraded
        /\ sane[k].criticality = t.criticality /\ sane[k].confidence = t.confidence
    BY <2>1, <2>2
  <2>4. Actionable(sane[k]) <=> Actionable(t)
    BY <2>3 DEF Actionable
  <2> QED
    BY <2>1, <2>3, <2>4 DEF Numbered, t
<1>4. {k \in DOMAIN sane : Actionable(sane[k])} = worth
  BY <1>3
<1>5. groups = GroupRequests(r)
  <2>1. groups = GroupRequests(RankRequests(CollectNode(Taken(sane, {k \in DOMAIN sane : Actionable(sane[k])}), max)))
    BY DEF Batches
  <2> HIDE DEF sane, worth, groups
  <2> QED
    BY <1>4, <2>1
<1>6. worth \in SUBSET (1..n) /\ worth \in SUBSET DOMAIN threats
  BY <1>2
<1> HIDE DEF sane, groups
<1>7. IsFiniteSet(worth) /\ worth \in SUBSET Nat
  <2>1. IsFiniteSet(1..n)
    BY FS_Interval
  <2> HIDE DEF worth
  <2>2. IsFiniteSet(worth)
    BY <1>6, <2>1, FS_Subset
  <2> QED
    BY <1>6, <2>2
<1> HIDE DEF worth
<1>8. PICK at : /\ Positions(at, worth)
                /\ DOMAIN taken = DOMAIN at
                /\ \A k \in DOMAIN at : taken[k] = sane[at[k]]
  BY <1>7, TakenIs
<1>9. PICK c \in Nat : c = Cardinality(worth)
  BY <1>7, FS_CardinalityType
<1>10. /\ DOMAIN at = 1..c
       /\ \A k \in 1..c : at[k] \in worth /\ Cardinality({y \in worth : y <= at[k]}) = k
       /\ \A x \in worth : \E k \in 1..c : at[k] = x
  BY <1>8, <1>9 DEF Positions
<1>11. taken \in [1..c -> Range(taken)]
  <2>1. taken = [k \in 1..c |-> taken[k]]
    BY <1>8, <1>10 DEF Taken
  <2>2. \A k \in 1..c : taken[k] \in Range(taken)
    BY <1>8, <1>10 DEF Range
  <2> HIDE DEF taken
  <2> QED
    BY <2>1, <2>2
<1> HIDE DEF taken
<1>12. PICK m \in Nat : /\ m <= c /\ m <= max /\ (m = c \/ m = max)
                        /\ DOMAIN col = 1..m
                        /\ \A k \in 1..m : col[k] = taken[k]
  BY <1>1, <1>11, CollectedIs
<1> HIDE DEF col
<1>13. \A k \in 1..m : k \in 1..c
  BY <1>12
<1>14. ASSUME NEW k \in 1..m PROVE at[k] \in worth /\ at[k] \in DOMAIN threats /\ col[k] = sane[at[k]]
  BY <1>6, <1>8, <1>10, <1>12, <1>13
<1>15. \A k \in 1..m : Numbered(col[k]) /\ col[k].id = threats[at[k]].id
  BY <1>3, <1>14
<1>16. Ranks(r, col, m)
  BY <1>12, <1>15, RankedIs
<1> HIDE DEF r
<1>17. InOrder(groups) /\ Shares(groups, r)
  BY <1>5, <1>16, GroupedIs DEF Ranks
<1> DEFINE asked == UNION {Range(groups[g].requests) : g \in DOMAIN groups}
           first == {x \in worth : Cardinality({y \in worth : y <= x}) <= max}
<1>18. \A t : t \in asked <=> \E g \in DOMAIN groups : \E k \in DOMAIN groups[g].requests : t = groups[g].requests[k]
  BY DEF Range
<1> HIDE DEF asked
<1>19. ASSUME NEW t \in asked PROVE \E x \in first : t.id = threats[x].id
  <2>1. PICK j \in 1..m : t = r[j]
    <3>1. PICK g \in DOMAIN groups : \E k \in DOMAIN groups[g].requests : t = groups[g].requests[k]
      BY <1>18
    <3>2. PICK k \in DOMAIN groups[g].requests : t = groups[g].requests[k]
      BY <3>1
    <3>3. DOMAIN r = 1..m
      BY <1>16 DEF Ranks
    <3>4. \E j \in DOMAIN r : groups[g].requests[k] = r[j]
      BY <1>17 DEF Shares
    <3> QED
      BY <3>2, <3>3, <3>4
  <2>2. PICK o \in 1..m : r[j] = col[o]
    BY <1>16 DEF Ranks
  <2>3. at[o] \in worth /\ Cardinality({y \in worth : y <= at[o]}) = o /\ o <= max
    <3>1. at[o] \in worth /\ Cardinality({y \in worth : y <= at[o]}) = o
      BY <1>10, <1>13
    <3>2. o <= max
      BY <1>1, <1>12
    <3> QED
      BY <3>1, <3>2
  <2> QED
    BY <1>15, <2>1, <2>2, <2>3
<1>20. ASSUME NEW x \in first PROVE \E t \in asked : t.id = threats[x].id
  <2>1. PICK o \in 1..c : at[o] = x
    BY <1>10
  <2>2. o <= max
    BY <1>10, <2>1
  <2>3. o \in 1..m
    BY <1>12, <2>2
  <2>4. PICK j \in 1..m : r[j] = col[o]
    BY <1>16, <2>3 DEF Ranks
  <2>5. PICK g \in DOMAIN groups : \E k \in DOMAIN groups[g].requests : groups[g].requests[k] = r[j]
    BY <1>16, <1>17 DEF Shares, Ranks
  <2>6. r[j] \in asked
    BY <1>18, <2>5
  <2> QED
    BY <1>15, <2>1, <2>3, <2>4, <2>6
<1> HIDE DEF first
<1>21. {t.id : t \in asked} = {threats[k].id : k \in first}
  BY <1>19, <1>20
<1> QED
  BY <1>17, <1>21 DEF GroupsRanked, InOrder, asked, first, worth, groups

-----------------------------------------------------------------------------
(* On a message to the network agent, the first threats worth a request are asked for once *)
(* each, by cluster, the most urgent first; what the operator gave is told, but for lost    *)
(* replies and an imsi that is no number; each decision told well starts one response, in   *)
(* its order, unless an error ends the graph; and the slice of the start operates, for    *)
(* any messages, answers and polls (agents/network_agent).                                  *)
THEOREM RequestsHold == BatchSpec => []BatchesHeard
<1> DEFINE Inv == /\ subject = "batch" => input \in ThreatBatches
                  /\ subject = "tools" => input \in ToolCalls
                  /\ subject = "dispatch" => input \in Dispatches
                  /\ subject = "startup" => input \in Startups
<1>1. Untried => Inv
  BY DEF Untried
<1>2. Inv /\ [TryBatch \/ TryTools \/ TryDispatch \/ TrySlice]_trial => Inv'
  BY DEF TryBatch, TryTools, TryDispatch, TrySlice, Try, trial
<1>3. Inv => BatchesHeard
  BY BatchTold, ToolsTold, DispatchTold, StartTold DEF BatchesHeard, RankedBatch, SessionTold, DecisionsRun, SlicePrepared, For
<1> QED
  BY <1>1, <1>2, <1>3, PTL DEF BatchSpec
=============================================================================
