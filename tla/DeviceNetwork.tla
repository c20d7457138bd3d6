---------------------------- MODULE DeviceNetwork ----------------------------
(***************************************************************************)
(* Refreshes of the devices' network snapshots                             *)
(* (plateform/backend/app/services/network_health.py).  The endpoints are  *)
(* coroutines of one event loop over blocking database calls: what a       *)
(* refresh does between two awaits is one step of the loop, and a call     *)
(* that waits for a lock stops the loop with everything on it.             *)
(*                                                                         *)
(* A snapshot's number is one more than the highest committed one, and     *)
(* unique: a flush waits for any other transaction that has flushed a      *)
(* number and not yet ended.  Reading has no such wait.                    *)
(*                                                                         *)
(* A single refresh is a batch of one device; the code persists its        *)
(* unsupported device and commits in the one step that Begin is when       *)
(* nothing is left to ask.  Answers come in any order, at most Concurrency *)
(* at a time (httpx), which changes no result here and is left out.        *)
(***************************************************************************)
EXTENDS Integers, Sequences, FiniteSets, FiniteSetsExt, SequencesExt

CONSTANTS
  Assets,       \* devices
  Cellular,     \* those with a number the provider can ask for
  Refreshes,    \* requests
  CacheSeconds, \* nokia_network_cache_seconds
  StaleAfter,   \* max(2 * CacheSeconds, the floor of half an hour)
  Replies,      \* what an answer may say; unknown also stands for a provider's error
  BulkLimit,    \* nokia_network_bulk_limit
  MaxTime       \* bound on the clock

ASSUME NetworkAssumption ==
  /\ Replies \subseteq {"reachable", "unreachable", "unknown"}
  /\ Cellular \subseteq Assets /\ IsFiniteSet(Assets)
  /\ {CacheSeconds, StaleAfter, BulkLimit, MaxTime} \subseteq Nat
  /\ StaleAfter >= 2 * CacheSeconds
  /\ "free" \notin Refreshes

VARIABLES
  now,        \* the clock
  snapshots,  \* committed rows, in the order of their numbers
  refreshes,  \* each request's state
  loop        \* the request whose database call stops the event loop, or Free

vars == <<now, snapshots, refreshes, loop>>

Free == "free"
Idle == [pc |-> "idle", at |-> 0, asked |-> {}, cached |-> {}, answers |-> {}, flushed |-> << >>]
Statuses == Replies \union {"not_supported"}
Snapshot == [asset : Assets, status : Statuses, at : 0..MaxTime, observed : 0..MaxTime]
Answers  == [asset : Cellular, status : Statuses, observed : 0..MaxTime]
Refresh  == [pc : {"idle", "querying", "waiting", "done", "failed"}, at : 0..MaxTime,
             asked : SUBSET Assets, cached : SUBSET Assets,
             answers : SUBSET Answers, flushed : Seq(Snapshot)]

TypeOK ==
  /\ now \in 0..MaxTime
  /\ snapshots \in Seq(Snapshot)
  /\ refreshes \in [Refreshes -> Refresh]
  /\ loop \in Refreshes \union {Free}
  /\ \A r \in Refreshes : /\ refreshes[r].flushed # << >> => refreshes[r].pc = "querying"
                          /\ refreshes[r].pc = "waiting" <=> loop = r

\* latest_for_assets: the row with the latest retrieved_at.
Rows(a)    == {i \in DOMAIN snapshots : snapshots[i].asset = a}
Newer(i, j) == snapshots[i].at > snapshots[j].at \/ (snapshots[i].at = snapshots[j].at /\ i >= j)
LatestOf(a) == snapshots[CHOOSE i \in Rows(a) : \A j \in Rows(a) : Newer(i, j)]
WithinCache(a) == Rows(a) # {} /\ now - LatestOf(a).at < CacheSeconds
IsStale(a)     == Rows(a) # {} /\ now - LatestOf(a).at > StaleAfter

\* _persist: the row is stamped with the moment the request began.
PersistAtEnd(r, a, status, observed) == [asset |-> a, status |-> status, at |-> now, observed |-> observed]  \* mutant
Persist(r, a, status, observed) ==
  [asset |-> a, status |-> status, at |-> refreshes[r].at, observed |-> observed]

UncommittedQuery(r) == \E o \in Refreshes \ {r} : refreshes[o].pc = "querying"   \* mutant: numbers taken first
Uncommitted(r) == \E o \in Refreshes \ {r} : refreshes[o].flushed # << >>

Init ==
  /\ now = 0 /\ snapshots = << >> /\ loop = Free
  /\ refreshes = [r \in Refreshes |-> Idle]

Tick == now < MaxTime /\ now' = now + 1 /\ UNCHANGED <<snapshots, refreshes, loop>>

(***************************************************************************)
(* refresh_many, refresh_device up to the provider: cached devices are     *)
(* skipped, devices without a number flushed as not supported, the others  *)
(* asked.  Without any to ask the request ends in the same step.           *)
(***************************************************************************)
Begin(r, wanted, force) ==
  LET cached == IF force THEN {} ELSE {a \in wanted : WithinCache(a)}
      asked  == (wanted \ cached) \intersect Cellular
      fresh  == SetToSeq({[asset |-> a, status |-> "not_supported", at |-> now, observed |-> now] :
                            a \in (wanted \ cached) \ Cellular})
      S(pc, rows) == [Idle EXCEPT !.pc = pc, !.at = now, !.asked = asked, !.cached = cached, !.flushed = rows]
  IN
  /\ loop = Free /\ refreshes[r].pc = "idle" /\ Cardinality(wanted) \in 1..BulkLimit
  /\ \/ /\ fresh # << >> /\ Uncommitted(r)
        /\ refreshes' = [refreshes EXCEPT ![r] = S("waiting", << >>)]
        /\ loop' = r /\ UNCHANGED snapshots
     \/ /\ fresh = << >> \/ ~Uncommitted(r)
        /\ asked # {}
        /\ refreshes' = [refreshes EXCEPT ![r] = S("querying", fresh)]
        /\ UNCHANGED <<snapshots, loop>>
     \/ /\ fresh = << >> \/ ~Uncommitted(r)
        /\ asked = {}
        /\ refreshes' = [refreshes EXCEPT ![r] = S("done", << >>)]
        /\ snapshots' = snapshots \o fresh /\ UNCHANGED loop
  /\ UNCHANGED now

\* The provider answers or raises DeviceNetworkProviderError, which is kept as unknown.
Answer(r, a, status) ==
  LET x == refreshes[r] IN
  /\ loop = Free /\ x.pc = "querying"
  /\ a \in x.asked \ {y.asset : y \in x.answers}
  /\ refreshes' = [refreshes EXCEPT ![r].answers = @ \union {[asset |-> a, status |-> status, observed |-> now]}]
  /\ UNCHANGED <<now, snapshots, loop>>

RollBack(x) == [x EXCEPT !.pc = "failed", !.flushed = << >>]

FailCommitting(r) ==     \* mutant: what was flushed stays
  /\ loop = Free /\ refreshes[r].pc = "querying"
  /\ refreshes' = [refreshes EXCEPT ![r] = RollBack(@)]
  /\ snapshots' = snapshots \o refreshes[r].flushed
  /\ UNCHANGED <<now, loop>>

\* Any other exception of a query ends the request and its transaction, whatever the
\* other devices answered.
Fail(r) ==
  /\ loop = Free /\ refreshes[r].pc = "querying"
  /\ refreshes' = [refreshes EXCEPT ![r] = RollBack(@)]
  /\ UNCHANGED <<now, snapshots, loop>>

AllSucceeded(x) == {y.asset : y \in {z \in x.answers : z.status # "unknown"}} = x.asked   \* mutant
AllAnswered(x)  == {y.asset : y \in x.answers} = x.asked

\* Every answer is there: persist them and commit, in one step of the loop.
Finish(r) ==
  LET x == refreshes[r]
      answered == {Persist(r, y.asset, y.status, y.observed) : y \in x.answers} IN
  /\ loop = Free /\ x.pc = "querying" /\ AllAnswered(x)
  /\ IF Uncommitted(r)
     THEN loop' = r /\ refreshes' = [refreshes EXCEPT ![r].pc = "waiting"] /\ UNCHANGED snapshots
     ELSE /\ snapshots' = snapshots \o x.flushed \o SetToSeq(answered)
          /\ refreshes' = [refreshes EXCEPT ![r] = [@ EXCEPT !.pc = "done", !.flushed = << >>]]
          /\ UNCHANGED loop
  /\ UNCHANGED now

\* The process is restarted: its transactions roll back.
Restart ==
  /\ \E r \in Refreshes : refreshes[r].pc \in {"querying", "waiting"}
  /\ refreshes' = [r \in Refreshes |->
                     IF refreshes[r].pc \in {"querying", "waiting"}
                     THEN RollBack(refreshes[r]) ELSE refreshes[r]]
  /\ loop' = Free /\ UNCHANGED <<now, snapshots>>

Next ==
  \/ Tick \/ Restart
  \/ \E r \in Refreshes :
       \/ \E wanted \in SUBSET Assets, force \in BOOLEAN : Begin(r, wanted, force)
       \/ \E a \in Cellular, s \in Replies : Answer(r, a, s)
       \/ Fail(r) \/ Finish(r)

\* httpx bounds every call by its timeout, and an idle loop runs what is ready.
Spec ==
  /\ Init /\ [][Next]_vars
  /\ \A r \in Refreshes : /\ \A a \in Cellular : WF_vars(\E s \in Replies : Answer(r, a, s))
                          /\ WF_vars(Finish(r))

-----------------------------------------------------------------------------
(***************************************************************************)
(* Properties                                                              *)
(***************************************************************************)
\* A device shown as not stale was observed within StaleAfter, and one whose refresh was
\* answered from the cache within CacheSeconds of it, however long the provider took and
\* in whatever order overlapping refreshes end.
NotStaleIsRecent ==
  \A a \in Assets : /\ Rows(a) # {} /\ ~IsStale(a) => now - LatestOf(a).observed <= StaleAfter
                    /\ WithinCache(a) => now - LatestOf(a).observed < CacheSeconds

\* A batch is all or nothing: one that ended has a row of every device it asked for, and
\* every row is of a batch that ended; one that failed leaves none, also of the devices
\* that were answered before and of those without a number.
Wrote(r, row) ==
  /\ refreshes[r].pc = "done"
  /\ IF row.asset \in Cellular THEN \E y \in refreshes[r].answers : y.asset = row.asset /\ y.observed = row.observed
     ELSE row.at = refreshes[r].at
BatchIsWhole ==
  /\ \A r \in Refreshes : refreshes[r].pc = "done" =>
       \A y \in refreshes[r].answers :
         \E i \in Rows(y.asset) : snapshots[i].status = y.status /\ snapshots[i].observed = y.observed
  /\ \A i \in DOMAIN snapshots : \E r \in Refreshes : Wrote(r, snapshots[i])

\* The event loop can only stop behind a batch that flushed a device without a number
\* and awaits the provider; with numbers on every device it never does.  Nothing but a
\* restart ends it: the batch waited for needs the loop.
LoopStopsBehindBatch ==
  loop # Free => \E o \in Refreshes \ {loop} :
                   /\ refreshes[o].pc = "querying"
                   /\ \E i \in DOMAIN refreshes[o].flushed : refreshes[o].flushed[i].status = "not_supported"

\* A refresh that asks the provider ends, unless the loop stops.
RefreshesEnd == \A r \in Refreshes : refreshes[r].pc = "querying" ~> refreshes[r].pc \in {"done", "failed"} \/ loop # Free
=============================================================================
