--------------------------- MODULE SliceLifecycle ---------------------------
(***************************************************************************)
(* The lifecycle of one 5G network slice as the network agent drives it    *)
(* (agents/network_agent/webhook_server.py).  A registration starts a      *)
(* watcher thread that polls the slice and puts the registration in the    *)
(* dict PENDING_ATTACHMENTS; notifications of the operator arrive on the   *)
(* event loop and read the same dict.  Both channels may activate the      *)
(* slice, attach the devices and send the Response Agent a grant or a      *)
(* denial per incident.  The Response Agent gives a granted slice back     *)
(* through release_server.py, which deactivates and deletes it.            *)
(*                                                                         *)
(* One step of a thread ends where another thread can see or change what   *)
(* it shares (the dict, the activation flag, the slice itself).            *)
(*                                                                         *)
(* Abstractions: elapsed time (a PENDING slice may be past its limit at    *)
(* any poll), the payload of a decision, polls that raise (the loop sleeps *)
(* and polls again: a step not taken).                                     *)
(***************************************************************************)
EXTENDS Naturals

CONSTANTS
  Watchers,       \* registrations of the slice: the watcher_data objects
  NumDevices,     \* devices of a registration, attached in list order
  Incidents,      \* <<registration, device>> pairs with an incident_context
  None,           \* no entry in PENDING_ATTACHMENTS
  BadDevices,     \* <<registration, device>> pairs whose imsi is no number
  BadEntries,     \* incidents whose incident_context lacks a field of the decision
  Faults,         \* calls to the operator that may raise
  AllowOverlap,   \* whether a slice is registered again under a live watcher
  MaxHooks        \* bound on the notifications delivered

Devices == 1..NumDevices
IncidentsOf(w) == {i \in Incidents : i[1] = w}
IncidentAtEvery(w, d) == IncidentsOf(w)            \* mutant: looked up by slice alone
IncidentAt(w, d) == {i \in IncidentsOf(w) : i[2] = d}   \* _lookup_incident

(***************************************************************************)
(* An entry or a device that raises ends the loop that meets it.  Entries  *)
(* are listed in the order of their devices.                               *)
(***************************************************************************)
Raises(w, d) == <<w, d>> \in BadDevices \union BadEntries     \* in attach_all_devices
Listed(w)    == {i \in IncidentsOf(w) : \A d \in 1..i[2] : <<w, d>> \notin BadEntries}

ASSUME DevicesAssumption   == NumDevices \in Nat
ASSUME NoneAssumption      == None \notin Watchers
ASSUME IncidentsAssumption == Incidents \subseteq Watchers \X Devices
ASSUME BadAssumption       == BadDevices \subseteq Watchers \X Devices /\ BadEntries \subseteq Incidents
ASSUME FaultsAssumption    == Faults \subseteq {"activate", "attach", "delete", "get"}
ASSUME OverlapAssumption   == AllowOverlap \in BOOLEAN
ASSUME HooksAssumption     == MaxHooks \in Nat

VARIABLES
  slice,        \* state of the slice at the operator
  order,        \* activation order in progress at the operator
  announced,    \* states the operator has sent a notification of
  pending,      \* PENDING_ATTACHMENTS[slice_id], or None
  attempted,    \* watchers whose data has activation_attempted set
  pc, view,     \* control point and last polled state of each watcher
  hook,         \* the notification the event loop is handling
  hooks,        \* notifications delivered so far
  attach,       \* next device of each attach_all_devices call, 0 before it
  grants,       \* grants dispatched to the Response Agent, per incident
  denies,       \* denials dispatched, per incident
  activations,  \* activate() calls made for each registration
  release,      \* progress of the Response Agent's release of each grant
  overlapped    \* history: a registration came while a watcher was live

network   == <<slice, order, announced>>
server    == <<pending, attempted, pc, view, hook, hooks, attach>>
decisions == <<grants, denies>>
vars == <<network, server, decisions, activations, release, overlapped>>

Terminal    == {"FAILED", "DELETED", "REJECTED"}
SliceStates == {"PENDING", "AVAILABLE", "OPERATING"} \union Terminal
Channels    == {"watch", "hook"}
WatchPoints == {"idle", "poll", "decide", "activate", "reap", "take",
                "attach", "done"}
IdleHook    == [at |-> "idle", data |-> None]

TypeOK ==
  /\ slice \in SliceStates
  /\ order \in {"none", "placed"}
  /\ announced \subseteq SliceStates
  /\ pending \in Watchers \union {None}
  /\ attempted \subseteq Watchers
  /\ pc \in [Watchers -> WatchPoints]
  /\ view \in [Watchers -> SliceStates]
  /\ hook \in {IdleHook} \union [at: {"check", "activate"}, data: Watchers]
  /\ hooks \in 0..MaxHooks
  /\ attach \in [Channels -> [Watchers -> 0..(NumDevices + 1)]]
  /\ grants \in [Incidents -> Nat]
  /\ denies \in [Incidents -> Nat]
  /\ activations \in [Watchers -> Nat]
  /\ release \in [Incidents -> {"no", "deactivated", "done"}]
  /\ overlapped \in BOOLEAN

Init ==
  /\ slice = "PENDING"
  /\ order = "none"
  /\ announced = {}
  /\ pending = None
  /\ attempted = {}
  /\ pc = [w \in Watchers |-> "idle"]
  /\ view = [w \in Watchers |-> "PENDING"]
  /\ hook = IdleHook
  /\ hooks = 0
  /\ attach = [c \in Channels |-> [w \in Watchers |-> 0]]
  /\ grants = [i \in Incidents |-> 0]
  /\ denies = [i \in Incidents |-> 0]
  /\ activations = [w \in Watchers |-> 0]
  /\ release = [i \in Incidents |-> "no"]
  /\ overlapped = FALSE

Live(w)    == pc[w] \notin {"idle", "done"}
Decided(i) == grants[i] + denies[i] > 0

(***************************************************************************)
(* The operator: the slice comes up, operates once ordered to, or fails.   *)
(***************************************************************************)
Becomes(s) ==
  /\ slice' = s
  /\ announced' = announced \union {s}

SliceAvailable ==
  /\ slice = "PENDING"
  /\ Becomes("AVAILABLE")
  /\ UNCHANGED <<order, server, decisions, activations, release, overlapped>>

SliceOperates ==
  /\ slice = "AVAILABLE"
  /\ order = "placed"
  /\ Becomes("OPERATING")
  /\ order' = "none"
  /\ UNCHANGED <<server, decisions, activations, release, overlapped>>

SliceFails ==
  /\ \/ slice = "PENDING" /\ \E s \in {"FAILED", "REJECTED"} : Becomes(s)
     \/ slice \in {"AVAILABLE", "OPERATING"} /\ Becomes("FAILED")
  /\ order' = "none"
  /\ UNCHANGED <<server, decisions, activations, release, overlapped>>

\* activate(): accepted on an AVAILABLE slice; the caller swallows an error.
ActivateCall(w) ==
  /\ activations' = [activations EXCEPT ![w] = @ + 1]
  /\ \/ slice = "AVAILABLE" /\ order' = "placed"
     \/ /\ slice # "AVAILABLE" \/ "activate" \in Faults
        /\ UNCHANGED order
  /\ UNCHANGED <<slice, announced>>

\* delete_slice: takes effect whatever the slice is doing.
DeleteCall ==
  \/ /\ slice \notin Terminal
     /\ Becomes("DELETED")
     /\ order' = "none"
  \/ /\ slice \in Terminal \/ "delete" \in Faults
     /\ UNCHANGED network

Grant(S) == grants' = [i \in Incidents |-> IF i \in S THEN grants[i] + 1 ELSE grants[i]]
Deny(S)  == denies' = [i \in Incidents |-> IF i \in S THEN denies[i] + 1 ELSE denies[i]]

(***************************************************************************)
(* register_watcher: the entry replaces any earlier one of the slice, and  *)
(* the watcher of that earlier registration keeps running.                 *)
(***************************************************************************)
Register(w) ==
  /\ pc[w] = "idle"
  /\ AllowOverlap \/ \A v \in Watchers : ~Live(v)
  /\ overlapped' = (overlapped \/ \E v \in Watchers : Live(v))
  /\ pending' = w
  /\ pc' = [pc EXCEPT ![w] = "poll"]
  /\ UNCHANGED <<network, attempted, view, hook, hooks, attach, decisions,
                 activations, release>>

(***************************************************************************)
(* monitor_slice_lifecycle: poll, then act on what the poll returned.      *)
(***************************************************************************)
WatchGoto(w, point) == pc' = [pc EXCEPT ![w] = point]

WatchPoll(w) ==
  /\ pc[w] = "poll"
  /\ view' = [view EXCEPT ![w] = slice]
  /\ WatchGoto(w, "decide")
  /\ UNCHANGED <<network, pending, attempted, hook, hooks, attach, decisions,
                 activations, release, overlapped>>

WatchWait(w) ==
  /\ pc[w] = "decide"
  /\ \/ view[w] = "PENDING"
     \/ view[w] = "AVAILABLE" /\ w \in attempted
  /\ WatchGoto(w, "poll")
  /\ UNCHANGED <<network, pending, attempted, view, hook, hooks, attach,
                 decisions, activations, release, overlapped>>

\* _reap_slice, first the deletion ...
WatchReap(w) ==
  /\ pc[w] = "decide"
  /\ view[w] = "PENDING"
  /\ DeleteCall
  /\ WatchGoto(w, "reap")
  /\ UNCHANGED <<pending, attempted, view, hook, hooks, attach, decisions,
                 activations, release, overlapped>>

WatchReapNotify(w) ==
  /\ pc[w] = "reap"
  /\ Deny(Listed(pending))
  /\ WatchGoto(w, "done")
  /\ UNCHANGED <<network, pending, attempted, view, hook, hooks, attach,
                 grants, activations, release, overlapped>>

WatchActivate(w) ==
  \/ /\ pc[w] = "decide"
     /\ view[w] = "AVAILABLE"
     /\ w \notin attempted
     /\ WatchGoto(w, "activate")
     /\ UNCHANGED <<network, pending, attempted, view, hook, hooks, attach,
                    decisions, activations, release, overlapped>>
  \/ /\ pc[w] = "activate"
     /\ attempted' = attempted \union {w}
     /\ ActivateCall(w)
     /\ WatchGoto(w, "poll")
     /\ UNCHANGED <<pending, view, hook, hooks, attach, decisions, release,
                    overlapped>>

\* `if slice_id in PENDING_ATTACHMENTS` ...
WatchOperating(w) ==
  /\ pc[w] = "decide"
  /\ view[w] = "OPERATING"
  /\ WatchGoto(w, IF pending # None THEN "take" ELSE "done")
  /\ UNCHANGED <<network, pending, attempted, view, hook, hooks, attach,
                 decisions, activations, release, overlapped>>

\* ... and the pop, whose result is not looked at.
WatchTake(w) ==
  /\ pc[w] = "take"
  /\ pending' = None
  /\ attach' = [attach EXCEPT !["watch"][w] = 1]
  /\ WatchGoto(w, "attach")
  /\ UNCHANGED <<network, attempted, view, hook, hooks, decisions,
                 activations, release, overlapped>>

WatchTerminalSilent(w) ==              \* mutant: no denial for a failed slice
  /\ pc[w] = "decide"
  /\ view[w] \in Terminal
  /\ WatchGoto(w, "done")
  /\ UNCHANGED <<network, pending, attempted, view, hook, hooks, attach,
                 decisions, activations, release, overlapped>>

WatchTerminal(w) ==
  /\ pc[w] = "decide"
  /\ view[w] \in Terminal
  /\ Deny(Listed(w))
  /\ WatchGoto(w, "done")
  /\ UNCHANGED <<network, pending, attempted, view, hook, hooks, attach,
                 grants, activations, release, overlapped>>

\* The loop has ended, or has raised and ended its thread.
WatchReturn(w) ==
  /\ pc[w] = "attach"
  /\ attach["watch"][w] > NumDevices \/ Raises(w, attach["watch"][w])
  /\ WatchGoto(w, "done")
  /\ UNCHANGED <<network, pending, attempted, view, hook, hooks, attach,
                 decisions, activations, release, overlapped>>

(***************************************************************************)
(* attach_all_devices, one device a step, on the watcher's thread or on a  *)
(* pool thread of the notification handler.                                *)
(***************************************************************************)
AttachDevice(c, w) ==
  LET d == attach[c][w] IN
  /\ d \in Devices /\ ~Raises(w, d)
  /\ \/ /\ slice = "OPERATING"
        /\ Grant(IncidentAt(w, d))
        /\ UNCHANGED denies
     \/ /\ slice # "OPERATING" \/ "attach" \in Faults
        /\ Deny(IncidentAt(w, d))
        /\ UNCHANGED grants
  /\ attach' = [attach EXCEPT ![c][w] = d + 1]
  /\ UNCHANGED <<network, pending, attempted, pc, view, hook, hooks,
                 activations, release, overlapped>>

(***************************************************************************)
(* receive_slice_notification, on the event loop: a state announced at any *)
(* earlier time, possibly again or out of order, at most MaxHooks times.   *)
(***************************************************************************)

HookAvailable ==
  /\ hook.at = "idle" /\ hooks < MaxHooks
  /\ "AVAILABLE" \in announced
  /\ hooks' = hooks + 1
  /\ hook' = IF pending = None THEN IdleHook ELSE [at |-> "check", data |-> pending]
  /\ UNCHANGED <<network, pending, attempted, pc, view, attach, decisions,
                 activations, release, overlapped>>

HookCheck ==
  /\ hook.at = "check"
  /\ hook' = IF hook.data \in attempted THEN IdleHook ELSE [at |-> "activate", data |-> hook.data]
  /\ UNCHANGED <<network, pending, attempted, pc, view, hooks, attach,
                 decisions, activations, release, overlapped>>

HookActivate ==
  /\ hook.at = "activate"
  /\ attempted' = attempted \union {hook.data}
  /\ hook' = IdleHook
  /\ \/ ActivateCall(hook.data)
     \/ "get" \in Faults /\ UNCHANGED <<network, activations>>
  /\ UNCHANGED <<pending, pc, view, hooks, attach, decisions, release, overlapped>>

HookOperatingGet ==                    \* mutant: get in place of pop
  /\ hook.at = "idle" /\ hooks < MaxHooks
  /\ "OPERATING" \in announced
  /\ hooks' = hooks + 1
  /\ attach' = IF pending = None THEN attach
               ELSE [attach EXCEPT !["hook"][pending] = 1]
  /\ UNCHANGED <<network, pending, attempted, pc, view, hook, decisions,
                 activations, release, overlapped>>

HookOperating ==
  /\ hook.at = "idle" /\ hooks < MaxHooks
  /\ "OPERATING" \in announced
  /\ hooks' = hooks + 1
  /\ pending' = None
  /\ attach' = IF pending = None THEN attach
               ELSE [attach EXCEPT !["hook"][pending] = 1]
  /\ UNCHANGED <<network, attempted, pc, view, hook, decisions, activations,
                 release, overlapped>>

(***************************************************************************)
(* release_slice / delete_network_slice, for an incident whose grant the   *)
(* Response Agent has acted on.  The slice is shared by all of them.       *)
(***************************************************************************)
ReleaseDeactivate(i) ==
  /\ release[i] = "no" /\ grants[i] > 0
  /\ slice = "OPERATING"
  /\ Becomes("AVAILABLE")
  /\ order' = "none"
  /\ release' = [release EXCEPT ![i] = "deactivated"]
  /\ UNCHANGED <<server, decisions, activations, overlapped>>

ReleaseDelete(i) ==
  /\ \/ release[i] = "no" /\ grants[i] > 0 /\ slice # "OPERATING"
     \/ release[i] = "deactivated" /\ slice = "AVAILABLE"
  /\ DeleteCall
  /\ release' = [release EXCEPT ![i] = "done"]
  /\ UNCHANGED <<server, decisions, activations, overlapped>>

\* A raising call, or max_poll_seconds without seeing the slice AVAILABLE:
\* FAILED, answered 502 and not tried again.
ReleaseGivesUp(i) ==
  /\ \/ release[i] = "no" /\ grants[i] > 0 /\ "get" \in Faults
     \/ release[i] = "deactivated" /\ slice # "AVAILABLE"
  /\ release' = [release EXCEPT ![i] = "done"]
  /\ UNCHANGED <<network, server, decisions, activations, overlapped>>

Operator == SliceAvailable \/ SliceOperates \/ SliceFails

Watch(w) ==
  \/ WatchPoll(w) \/ WatchWait(w) \/ WatchReap(w) \/ WatchReapNotify(w)
  \/ WatchActivate(w) \/ WatchOperating(w) \/ WatchTake(w)
  \/ WatchTerminal(w) \/ WatchReturn(w)

Hook == HookAvailable \/ HookCheck \/ HookActivate \/ HookOperating

Release(i) == ReleaseDeactivate(i) \/ ReleaseDelete(i) \/ ReleaseGivesUp(i)

Next ==
  \/ Operator
  \/ Hook
  \/ \E w \in Watchers : Register(w) \/ Watch(w)
  \/ \E c \in Channels, w \in Watchers : AttachDevice(c, w)
  \/ \E i \in Incidents : Release(i)

Spec == Init /\ [][Next]_vars

(***************************************************************************)
(* Fairness.  Threads are scheduled and polls eventually succeed (WF); a   *)
(* slice polled PENDING again and again passes the 200 s limit (SF on the  *)
(* reaper); an accepted activation order completes or the slice fails.     *)
(***************************************************************************)
Fairness ==
  /\ \A w \in Watchers : WF_vars(Watch(w)) /\ SF_vars(WatchReap(w))
  /\ \A c \in Channels, w \in Watchers : WF_vars(AttachDevice(c, w))
  /\ WF_vars(HookCheck \/ HookActivate)
  /\ WF_vars(SliceOperates)

FairSpec == Spec /\ Fairness

-----------------------------------------------------------------------------
(* Properties *)

\* Neither the incident nor one before it raises.
Spared(i) == \A d \in 1..i[2] : ~Raises(i[1], d)

\* No incident is dropped: unless registrations of the slice overlapped, when
\* a watcher has returned each of its incidents has been granted or denied, or
\* the notification handler's attach_all_devices call has still to reach it.  A
\* malformed device or entry costs at most its own incident and those after it.
NoLostIncident ==
  ~overlapped =>
    \A i \in Incidents :
      pc[i[1]] = "done" /\ Spared(i) => Decided(i) \/ attach["hook"][i[1]] \in 1..i[2]

\* Without overlapping registrations an incident hears of its slice at most once
\* from the watcher (reaped, terminal or attached) and once from a notification's
\* attach_all_devices call, however the two race for the entry.
DecisionBound ==
  ~overlapped =>
    \A i \in Incidents :
      grants[i] + denies[i] <= (IF attach["hook"][i[1]] > i[2] THEN 2 ELSE 1)

\* The shared activation flag keeps the two channels to one activate() call
\* each for a registration, even when both pass the check before either sets it.
ActivationBound == \A w \in Watchers : activations[w] <= 2

\* A registered incident that no malformed entry or device comes before is eventually
\* decided, when the operator accepts the calls made to it and registrations of the
\* slice do not overlap.
EventuallyDecided ==
  \A i \in {j \in Incidents : Spared(j)} : (pc[i[1]] # "idle") ~> (Decided(i) \/ overlapped)

(* What the incidents have heard, for the abstract specification. *)
Heard == [i \in Incidents |-> <<grants[i], denies[i]>>]

Decision == INSTANCE IncidentDecision WITH outcome <- Heard

(* No registration has overlapped and no notification has taken an entry. *)
WatcherAlone ==
  /\ ~overlapped
  /\ \A w \in Watchers : attach["hook"][w] = 0

\* As long as no notification takes its entry, the watcher decides each incident
\* at most once and never changes a decision: each of its steps is one of IncidentDecision.
DecidesOnce == [][WatcherAlone => Decision!DecisionNext \/ UNCHANGED Heard]_vars
=============================================================================
