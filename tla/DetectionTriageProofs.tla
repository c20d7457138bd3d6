------------------------ MODULE DetectionTriageProofs ------------------------
(***************************************************************************)
(* Proofs about DetectionTriage for any operators, engines and keys.       *)
(* Whole is the inductive invariant:                                       *)
(*   Types     what a session's record may be;                             *)
(*   Locks     no row has two holders;                                     *)
(*   Known     what a request has read of a row it holds is still so;      *)
(*   Runs      what a run remembers is of rows there are, its new rows fit,*)
(*             and only one run has any;                                   *)
(*   Matched   a promotion in progress has a number at most one too high,  *)
(*             and incidents and promoted detections match;                *)
(*   Ending    every chain of merges ends.                                 *)
(* Races says which runs overlap.  Replaced is kept next to them: a key's  *)
(* older detections are closed, have ended, were reopened or are of runs   *)
(* that overlapped; any number of runs may be at work.                     *)
(* AllApart says of the runs that what they note and what they open are of *)
(* different keys; with it the whole of requests and runs implements       *)
(* DetectionLife, where each is one step.                                  *)
(* The last part is about DetectionRules, the functions an engine's run    *)
(* evaluates: they hold no state, and their invariant is the property of   *)
(* each input.                                                             *)
(***************************************************************************)
EXTENDS DetectionTriage, DetectionRules, FiniteSetTheorems, SequenceTheorems, WellFoundedInduction, TLAPS

Seens == UNION {[D -> Statuses] : D \in SUBSET Nat}
Tx == [step : {"idle", "locked", "both", "numbered", "look", "open"}, locks : SUBSET Nat, seen : Seens,
       number : Nat, at : Nat, recovered : SUBSET Nat, repeated : SUBSET Nat, rows : Seq(DetectionRow)]

TxInv ==
  /\ tx \in [Sessions -> Tx]
  /\ \A s \in Operators : tx[s].step \in {"idle", "locked", "both", "numbered"} /\ tx[s].rows = << >>
  /\ \A e \in Engines : /\ tx[e].step \in {"idle", "look", "open"}
                        /\ tx[e].step = "open" => tx[e].at \in Keys

-----------------------------------------------------------------------------
(* A transaction's record. *)
LEMMA IdleType == /\ Idle \in Tx
                  /\ Idle.step = "idle" /\ Idle.locks = {} /\ Idle.rows = << >>
                  /\ Idle.recovered = {} /\ Idle.repeated = {} /\ Idle.number = 0
<1>1. << >> \in [{} -> Statuses]
  OBVIOUS
<1>2. << >> \in Seens
  BY <1>1 DEF Seens
<1> QED
  BY <1>2 DEF Idle, Tx

\* What a request has read is of its type.
LEMMA SeenType == ASSUME NEW D \in SUBSET Nat, NEW f \in [D -> Statuses] PROVE f \in Seens
  BY DEF Seens

(* One session's record changes. *)
LEMMA One ==
  ASSUME NEW s \in Sessions, NEW r \in Tx, tx \in [Sessions -> Tx], Goes(s, r)
  PROVE  tx' \in [Sessions -> Tx] /\ tx'[s] = r /\ \A u \in Sessions \ {s} : tx'[u] = tx[u]
  BY DEF Goes

\* One session's record changes, whatever it becomes.
LEMMA OthersSame ==
  ASSUME NEW s \in Sessions, NEW r, tx \in [Sessions -> Tx], Goes(s, r)
  PROVE  \A u \in Sessions \ {s} : tx'[u] = tx[u]
  BY DEF Goes

-----------------------------------------------------------------------------
(* What each action makes of its session's record. *)
Run(e) == StartRun(e) \/ Works(e) \/ CommitRun(e)

\* A step is a request's, a run's or a failure.
LEMMA NextSplit ==
  ASSUME [Next]_vars
  PROVE  \/ UNCHANGED vars
         \/ \E s \in Operators : Request(s) \/ Fail(s)
         \/ \E e \in Engines : Run(e) \/ Fail(e)
  BY DEF Next, Run, Sessions

Types == det \in Seq(DetectionRow) /\ incident \in Seq(1..MaxRows) /\ TxInv
Others(s) == tx' \in [Sessions -> Tx] /\ \A u \in Sessions \ {s} : tx'[u] = tx[u]
Ends(s) == Others(s) /\ tx'[s] = Idle

\* A session that goes idle leaves the others as they are.
LEMMA GoesIdle ==
  ASSUME Types, NEW s \in Sessions, Goes(s, Idle) PROVE Ends(s)
  BY One, IdleType DEF Types, TxInv, Others, Ends

\* A row's number and row are of their types.
LEMMA RowType == ASSUME Types, NEW d \in DOMAIN det
                 PROVE  d \in Nat /\ det[d] \in DetectionRow /\ det[d].status \in Statuses
<1>1. d \in Nat /\ det[d] \in DetectionRow
  BY DEF Types
<1> QED
  BY <1>1 DEF DetectionRow

\* Lock: an idle request locks one free row and reads it.
LEMMA LockFact ==
  ASSUME Types, NEW s \in Operators, Lock(s)
  PROVE  \E d \in DOMAIN det :
           /\ RowFree(s, d) /\ tx[s].step = "idle"
           /\ Others(s) /\ tx'[s].step = "locked" /\ tx'[s].locks = {d} /\ tx'[s].rows = << >>
           /\ tx'[s].seen = [x \in {d} |-> det[x].status]
           /\ Unpublished
<1>1. PICK d \in DOMAIN det :
        /\ tx[s].step = "idle" /\ RowFree(s, d) /\ Unpublished
        /\ Goes(s, [Idle EXCEPT !.step = "locked", !.locks = {d}, !.seen = [x \in {d} |-> det[x].status]])
  BY DEF Lock
<1>2. d \in Nat /\ [x \in {d} |-> det[x].status] \in [{d} -> Statuses]
  BY RowType
<1>3. {d} \in SUBSET Nat /\ [x \in {d} |-> det[x].status] \in Seens
  BY <1>2, SeenType
<1> DEFINE f == [x \in {d} |-> det[x].status]
           r == [Idle EXCEPT !.step = "locked", !.locks = {d}, !.seen = f]
<1>4. r \in Tx /\ r.step = "locked" /\ r.locks = {d} /\ r.rows = << >> /\ r.seen = f
  <2> HIDE DEF f
  <2>1. f \in Seens /\ {d} \in SUBSET Nat
    BY <1>3 DEF f
  <2> QED
    BY <2>1, IdleType DEF Tx
<1>5. Goes(s, r)
  BY <1>1
<1> HIDE DEF r
<1>6. Others(s) /\ tx'[s] = r
  BY <1>4, <1>5, One DEF Types, TxInv, Others, Sessions
<1> QED
  BY <1>1, <1>4, <1>6

\* LockOther: a merge locks the later of its two rows and reads it.
LEMMA LockOtherFact ==
  ASSUME Types, NEW s \in Operators, LockOther(s), DOMAIN tx[s].seen = tx[s].locks, tx[s].locks \subseteq DOMAIN det
  PROVE  \E d \in tx[s].locks, e \in DOMAIN det :
           /\ InOrder(d, e) /\ RowFree(s, e) /\ tx[s].step = "locked"
           /\ Others(s) /\ tx'[s].step = "both" /\ tx'[s].locks = {d, e} /\ tx'[s].rows = << >>
           /\ tx'[s].seen = [x \in {d, e} |-> IF x = d THEN tx[s].seen[d] ELSE det[e].status]
           /\ Unpublished
<1>1. PICK d \in tx[s].locks, e \in DOMAIN det :
        /\ tx[s].step = "locked" /\ InOrder(d, e) /\ RowFree(s, e) /\ Unpublished
        /\ Goes(s, [tx[s] EXCEPT !.step = "both", !.locks = {d, e},
                     !.seen = [x \in {d, e} |-> IF x = d THEN @[d] ELSE det[e].status]])
  BY DEF LockOther
<1> DEFINE f == [x \in {d, e} |-> IF x = d THEN tx[s].seen[d] ELSE det[e].status]
           r == [tx[s] EXCEPT !.step = "both", !.locks = {d, e}, !.seen = f]
<1>2. tx[s] \in Tx /\ tx[s].rows = << >> /\ tx[s].seen \in Seens
  BY DEF Types, TxInv, Sessions, Tx
<1>3. tx[s].seen[d] \in Statuses
  BY <1>1, <1>2 DEF Seens
<1>4. d \in Nat /\ e \in Nat /\ f \in [{d, e} -> Statuses]
  BY <1>1, <1>3, RowType
<1>5. {d, e} \in SUBSET Nat /\ f \in Seens
  BY <1>4, SeenType
<1>6. r \in Tx /\ r.step = "both" /\ r.locks = {d, e} /\ r.seen = f /\ r.rows = << >>
  <2> HIDE DEF f
  <2> QED
    BY <1>2, <1>5 DEF Tx
<1>7. Goes(s, r)
  BY <1>1
<1> HIDE DEF r
<1>8. Others(s) /\ tx'[s] = r
  BY <1>6, <1>7, One DEF Types, TxInv, Others, Sessions
<1> QED
  BY <1>1, <1>6, <1>8

\* TakeNumber: the request keeps its row and its reading, and has the next number.
LEMMA TakeNumberFact ==
  ASSUME Types, NEW s \in Operators, TakeNumber(s)
  PROVE  /\ tx[s].step = "locked" /\ Len(incident) < MaxIncidents
         /\ \E d \in tx[s].locks : tx[s].seen[d] = "under_review"
         /\ Others(s) /\ tx'[s].step = "numbered" /\ tx'[s].locks = tx[s].locks /\ tx'[s].seen = tx[s].seen
         /\ tx'[s].rows = << >> /\ tx'[s].number = Len(incident) + 1
         /\ Unpublished
<1> DEFINE r == [tx[s] EXCEPT !.step = "numbered", !.number = Len(incident) + 1]
<1>1. tx[s] \in Tx /\ tx[s].rows = << >> /\ Len(incident) + 1 \in Nat
  BY DEF Types, TxInv, Sessions
<1>2. r \in Tx /\ r.step = "numbered" /\ r.locks = tx[s].locks /\ r.seen = tx[s].seen /\ r.number = Len(incident) + 1 /\ r.rows = << >>
  BY <1>1 DEF Tx
<1>3. Goes(s, r)
  BY DEF TakeNumber
<1> HIDE DEF r
<1>4. Others(s) /\ tx'[s] = r
  BY <1>2, <1>3, One DEF Types, TxInv, Others, Sessions
<1> QED
  BY <1>2, <1>4 DEF TakeNumber

\* StartRun: the run starts at the first key with nothing remembered.
LEMMA StartRunFact ==
  ASSUME Types, NEW e \in Engines, StartRun(e)
  PROVE  /\ tx[e].step = "idle" /\ Unpublished
         /\ Others(e) /\ tx'[e].step = "look" /\ tx'[e].at = 1 /\ tx'[e].locks = {} /\ tx'[e].rows = << >>
         /\ tx'[e].recovered = {} /\ tx'[e].repeated = {}
<1> DEFINE r == [Idle EXCEPT !.step = "look", !.at = 1]
<1>1. r \in Tx /\ r.step = "look" /\ r.at = 1 /\ r.locks = {} /\ r.rows = << >> /\ r.recovered = {} /\ r.repeated = {}
  BY IdleType DEF Tx
<1>2. Goes(e, r)
  BY DEF StartRun
<1> HIDE DEF r
<1>3. Others(e) /\ tx'[e] = r
  BY <1>1, <1>2, One DEF Types, TxInv, Others, Sessions
<1> QED
  BY <1>1, <1>3 DEF StartRun

(* The newest of a key's active detections is one of them. *)
LEMMA SmallestNat == ASSUME NEW T \in SUBSET Nat, T # {} PROVE \E x \in T : \A y \in T : x <= y
<1> DEFINE R == {ss \in Nat \X Nat : ss[1] < ss[2]}
<1>1. R = OpToRel(<, Nat)
  BY DEF OpToRel
<1>2. IsWellFoundedOn(R, Nat)
  BY <1>1, NatLessThanWellFounded
<1>3. ASSUME NEW x \in Nat, NEW y \in Nat, y < x PROVE <<y, x>> \in R
  BY <1>3
<1> HIDE DEF R
<1>4. PICK x \in T : \A y \in T : <<y, x>> \notin R
  BY <1>2, WFMin
<1>5. \A y \in T : ~ (y < x)
  BY <1>3, <1>4
<1> QED
  BY <1>5

\* A set of rows that is not empty has a newest one.
LEMMA Largest ==
  ASSUME NEW n \in Nat, NEW S \in SUBSET (1..n), S # {} PROVE \E x \in S : \A y \in S : y <= x
<1> DEFINE T == {n - x : x \in S}
<1>1. T \in SUBSET Nat
  OBVIOUS
<1>2. T # {}
  OBVIOUS
<1>3. PICK m \in T : \A y \in T : m <= y
  BY <1>1, <1>2, SmallestNat
<1>4. PICK x \in S : m = n - x
  OBVIOUS
<1>5. \A y \in S : m <= n - y
  BY <1>3
<1> QED
  BY <1>4, <1>5

\* FindOpenDetection finds the newest active detection of the key.
LEMMA NewestFound ==
  ASSUME Types, NEW k \in Keys
  PROVE  /\ FindAny(k) = {} => FindOpenDetection(k) = 0
         /\ FindAny(k) # {} => FindOpenDetection(k) \in FindAny(k) /\ \A x \in FindAny(k) : x <= FindOpenDetection(k)
<1>1. FindAny(k) \in SUBSET (1..Len(det)) /\ Len(det) \in Nat
  BY DEF FindAny, Types
<1>2. CASE FindAny(k) # {}
  <2>1. \E d \in FindAny(k) : \A x \in FindAny(k) : x <= d
    BY <1>1, <1>2, Largest
  <2> QED
    BY <1>2, <2>1 DEF FindOpenDetection
<1> QED
  BY <1>2 DEF FindOpenDetection

(* A key is passed, its newest detection noted as recovered or repeated, or one is to be opened. *)
Noted(e, R, P) ==
  /\ Others(e) /\ tx'[e].step = "look" /\ tx'[e].at = tx[e].at + 1
  /\ tx'[e].locks = tx[e].locks /\ tx'[e].rows = tx[e].rows
  /\ tx'[e].recovered = R /\ tx'[e].repeated = P

\* Look and SkipSensor: what a run may make of one key.
LEMMA LookFact ==
  ASSUME Types, NEW e \in Engines, Look(e) \/ SkipSensor(e)
  PROVE  LET d == FindOpenDetection(tx[e].at) IN
         /\ tx[e].step = "look" /\ tx[e].at \in Keys /\ Unpublished
         /\ \/ Noted(e, tx[e].recovered, tx[e].repeated)
            \/ /\ d \in DOMAIN det /\ det[d].held
               /\ \/ Noted(e, tx[e].recovered \union {d}, tx[e].repeated)
                  \/ Noted(e, tx[e].recovered, tx[e].repeated \union {d})
            \/ /\ d # 0 => d \in DOMAIN det /\ ~det[d].held
               /\ Others(e) /\ tx'[e].step = "open" /\ tx'[e].at = tx[e].at
               /\ tx'[e].locks = tx[e].locks /\ tx'[e].rows = tx[e].rows
               /\ tx'[e].recovered = tx[e].recovered /\ tx'[e].repeated = tx[e].repeated
<1> DEFINE d == FindOpenDetection(tx[e].at)
<1>1. tx[e].step = "look" /\ tx[e].at \in Keys /\ Unpublished /\ tx[e] \in Tx
  BY DEF Look, SkipSensor, Types, TxInv, Sessions
<1>2. d # 0 => d \in DOMAIN det
  BY <1>1, NewestFound DEF FindAny
<1>3. IsStillOpen(d) => d \in DOMAIN det /\ det[d].held
  BY <1>2 DEF IsStillOpen
<1>4. ~IsStillOpen(d) => d = 0 \/ ~det[d].held
  BY DEF IsStillOpen
<1>5. \/ Goes(e, Pass(e))
      \/ IsStillOpen(d) /\ (Goes(e, Recover(e, d)) \/ Goes(e, Repeat(e, d)))
      \/ ~IsStillOpen(d) /\ Goes(e, [tx[e] EXCEPT !.step = "open"])
  BY DEF Look, SkipSensor
<1> HIDE DEF d
<1>6. CASE Goes(e, Pass(e))
  <2>1. /\ Pass(e) \in Tx /\ Pass(e).step = "look" /\ Pass(e).at = tx[e].at + 1 /\ Pass(e).locks = tx[e].locks
        /\ Pass(e).rows = tx[e].rows /\ Pass(e).recovered = tx[e].recovered /\ Pass(e).repeated = tx[e].repeated
    BY <1>1 DEF Pass, Tx
  <2>2. Others(e) /\ tx'[e] = Pass(e)
    BY <1>6, <2>1, One DEF Types, TxInv, Others, Sessions
  <2> QED
    BY <1>1, <2>1, <2>2 DEF Noted
<1>7. CASE IsStillOpen(d) /\ Goes(e, Recover(e, d))
  <2> DEFINE D == tx[e].recovered \union {d}
             r == Recover(e, d)
  <2>1. D \in SUBSET Nat /\ tx[e].at + 1 \in Nat
    BY <1>1, <1>3, <1>7, RowType DEF Tx
  <2>2. r = [tx[e] EXCEPT !.at = tx[e].at + 1, !.recovered = D]
    BY DEF Recover
  <2> HIDE DEF D, r
  <2>3. /\ r \in Tx /\ r.step = "look" /\ r.at = tx[e].at + 1 /\ r.locks = tx[e].locks
        /\ r.rows = tx[e].rows /\ r.recovered = D /\ r.repeated = tx[e].repeated
    BY <1>1, <2>1, <2>2 DEF Tx
  <2>4. Others(e) /\ tx'[e] = r
    BY <1>7, <2>3, One DEF Types, TxInv, Others, Sessions, r
  <2>5. Noted(e, D, tx[e].repeated)
    BY <2>3, <2>4 DEF Noted
  <2> QED
    BY <1>1, <1>3, <1>7, <2>5 DEF D, d
<1>8. CASE IsStillOpen(d) /\ Goes(e, Repeat(e, d))
  <2> DEFINE D == tx[e].repeated \union {d}
             r == Repeat(e, d)
  <2>1. D \in SUBSET Nat /\ tx[e].at + 1 \in Nat
    BY <1>1, <1>3, <1>8, RowType DEF Tx
  <2>2. r = [tx[e] EXCEPT !.at = tx[e].at + 1, !.repeated = D]
    BY DEF Repeat
  <2> HIDE DEF D, r
  <2>3. /\ r \in Tx /\ r.step = "look" /\ r.at = tx[e].at + 1 /\ r.locks = tx[e].locks
        /\ r.rows = tx[e].rows /\ r.recovered = tx[e].recovered /\ r.repeated = D
    BY <1>1, <2>1, <2>2 DEF Tx
  <2>4. Others(e) /\ tx'[e] = r
    BY <1>8, <2>3, One DEF Types, TxInv, Others, Sessions, r
  <2>5. Noted(e, tx[e].recovered, D)
    BY <2>3, <2>4 DEF Noted
  <2> QED
    BY <1>1, <1>3, <1>8, <2>5 DEF D, d
<1>9. CASE ~IsStillOpen(d) /\ Goes(e, [tx[e] EXCEPT !.step = "open"])
  <2> DEFINE r == [tx[e] EXCEPT !.step = "open"]
  <2>1. /\ r \in Tx /\ r.step = "open" /\ r.at = tx[e].at /\ r.locks = tx[e].locks
        /\ r.rows = tx[e].rows /\ r.recovered = tx[e].recovered /\ r.repeated = tx[e].repeated
    BY <1>1 DEF Tx
  <2>2. Goes(e, r)
    BY <1>9
  <2> HIDE DEF r
  <2>3. Others(e) /\ tx'[e] = r
    BY <2>1, <2>2, One DEF Types, TxInv, Others, Sessions
  <2> QED
    BY <1>1, <1>2, <1>4, <1>9, <2>1, <2>3 DEF d
<1> QED
  BY <1>5, <1>6, <1>7, <1>8, <1>9

\* FlushRow: the run locks one free row it has an update for.
LEMMA FlushFact ==
  ASSUME Types, NEW e \in Engines, FlushRow(e), Dirty(e) \subseteq DOMAIN det
  PROVE  \E d \in Dirty(e) :
           /\ RowFree(e, d) /\ d \in DOMAIN det /\ Unpublished
           /\ Others(e) /\ tx'[e].step = tx[e].step /\ tx'[e].at = tx[e].at
           /\ tx'[e].locks = tx[e].locks \union {d} /\ tx'[e].rows = tx[e].rows
           /\ tx'[e].recovered = tx[e].recovered /\ tx'[e].repeated = tx[e].repeated
<1>1. PICK d \in Dirty(e) : RowFree(e, d) /\ Goes(e, [tx[e] EXCEPT !.locks = @ \union {d}]) /\ Unpublished
  BY DEF FlushRow
<1> DEFINE D == tx[e].locks \union {d}
           r == [tx[e] EXCEPT !.locks = D]
<1>2. tx[e] \in Tx
  BY DEF Types, TxInv, Sessions
<1>3. D \in SUBSET Nat
  BY <1>2, RowType DEF Tx
<1>4. Goes(e, r)
  BY <1>1
<1>5. /\ r \in Tx /\ r.step = tx[e].step /\ r.at = tx[e].at /\ r.locks = D
      /\ r.rows = tx[e].rows /\ r.recovered = tx[e].recovered /\ r.repeated = tx[e].repeated
  <2> HIDE DEF D
  <2> QED
    BY <1>2, <1>3 DEF Tx
<1> HIDE DEF r
<1>6. Others(e) /\ tx'[e] = r
  BY <1>4, <1>5, One DEF Types, TxInv, Others, Sessions
<1> QED
  BY <1>1, <1>5, <1>6

\* A detection the engine opens is a row.
LEMMA NewType == ASSUME NEW k \in Keys PROVE NewDetection(k) \in DetectionRow
  BY BoundsAssumption DEF NewDetection, DetectionRow, Statuses, Active, Terminal

\* Persist: the run has one new row, of the key it is at.
LEMMA PersistFact ==
  ASSUME Types, NEW e \in Engines, Persist(e)
  PROVE  /\ tx[e].step = "open" /\ tx[e].at \in Keys /\ Unpublished
         /\ Len(det) + Len(tx[e].rows) < MaxRows
         /\ \A u \in Engines \ {e} : tx[u].rows = << >>
         /\ Others(e) /\ tx'[e].step = "look" /\ tx'[e].at = tx[e].at + 1
         /\ tx'[e].locks = tx[e].locks /\ tx'[e].rows = Append(tx[e].rows, NewDetection(tx[e].at))
         /\ tx'[e].recovered = tx[e].recovered /\ tx'[e].repeated = tx[e].repeated
<1> DEFINE q == Append(tx[e].rows, NewDetection(tx[e].at))
           r == [tx[e] EXCEPT !.step = "look", !.at = tx[e].at + 1, !.rows = q]
<1>1. tx[e] \in Tx /\ tx[e].step = "open" /\ tx[e].at \in Keys
  BY DEF Types, TxInv, Sessions, Persist
<1>2. tx[e].rows \in Seq(DetectionRow) /\ tx[e].at + 1 \in Nat /\ NewDetection(tx[e].at) \in DetectionRow
  BY <1>1, NewType DEF Tx
<1>3. q \in Seq(DetectionRow)
  BY <1>2
<1>4. Goes(e, r)
  BY DEF Persist
<1>5. /\ r \in Tx /\ r.step = "look" /\ r.at = tx[e].at + 1 /\ r.locks = tx[e].locks
      /\ r.rows = q /\ r.recovered = tx[e].recovered /\ r.repeated = tx[e].repeated
  <2> HIDE DEF q
  <2> QED
    BY <1>1, <1>2, <1>3 DEF Tx
<1> HIDE DEF r
<1>6. Others(e) /\ tx'[e] = r
  BY <1>4, <1>5, One DEF Types, TxInv, Others, Sessions
<1> QED
  BY <1>1, <1>5, <1>6 DEF Persist
-----------------------------------------------------------------------------
(* Who has locked what, and what a request knows of its rows. *)
Locks ==
  /\ \A s \in Sessions : tx[s].locks \subseteq DOMAIN det
  /\ \A s, u \in Sessions : s # u => tx[s].locks \intersect tx[u].locks = {}
Knows(s) ==
  /\ tx[s].step = "idle" => tx[s].locks = {}
  /\ tx[s].step \in {"locked", "numbered"} => \E d \in tx[s].locks : tx[s].locks = {d}
  /\ DOMAIN tx[s].seen = tx[s].locks
  /\ \A d \in tx[s].locks : tx[s].seen[d] = det[d].status
  /\ tx[s].step = "numbered" => \A d \in tx[s].locks : tx[s].seen[d] = "under_review"
Known == \A s \in Operators : Knows(s)
Pending(e) ==
  /\ tx[e].recovered \union tx[e].repeated \subseteq DOMAIN det
  /\ tx[e].step = "idle" => tx[e].locks = {} /\ tx[e].rows = << >>
  /\ \A i \in DOMAIN tx[e].rows : \E k \in Keys : tx[e].rows[i] = NewDetection(k)
  /\ Len(det) + Len(tx[e].rows) <= MaxRows
  /\ \A u \in Engines \ {e} : tx[e].rows = << >> \/ tx[u].rows = << >>
Runs == /\ Len(det) <= MaxRows /\ Len(incident) <= MaxIncidents
        /\ \A e \in Engines : Pending(e)
Inv == Types /\ Locks /\ Known /\ Runs

(* A request rewrites one row it has locked, and ends. *)
Rewrites(s, d, r) ==
  /\ d \in tx[s].locks /\ d \in DOMAIN det /\ r \in DetectionRow
  /\ det' = [det EXCEPT ![d] = r] /\ Ends(s)
  /\ r.key = det[d].key /\ r.held = det[d].held /\ r.raced = det[d].raced

\* A row a request has locked still has the status it read.
LEMMA SeenTrue ==
  ASSUME Inv, NEW s \in Operators, NEW d \in tx[s].locks
  PROVE  d \in DOMAIN det /\ d \in Nat /\ det[d] \in DetectionRow /\ tx[s].seen[d] = det[d].status
<1>1. s \in Sessions /\ d \in DOMAIN det
  BY DEF Inv, Locks, Sessions
<1>2. det[d] \in DetectionRow /\ d \in Nat
  BY <1>1, RowType DEF Inv
<1> QED
  BY <1>1, <1>2 DEF Inv, Known, Knows

\* Every request that writes: it rewrites one row it has locked, and ends.
LEMMA EditFact ==
  ASSUME Inv, NEW s \in Operators, StartReview(s) \/ Dismiss(s) \/ Reopen(s) \/ Merge(s)
  PROVE  /\ UNCHANGED incident
         /\ \E d \in tx[s].locks, r \in DetectionRow :
              /\ Rewrites(s, d, r) /\ r.incident = det[d].incident
              /\ \/ /\ det[d].status \in Active /\ r.status \in {"under_review", "dismissed"}
                    /\ r.into = det[d].into /\ r.reopened = det[d].reopened
                 \/ /\ det[d].status = "dismissed" /\ r.status = "queued"
                    /\ r.into = det[d].into /\ r.reopened
                 \/ /\ det[d].status \in Active /\ r.status = "merged" /\ r.reopened = det[d].reopened
                    /\ \E e \in tx[s].locks : e # d /\ det[e].status \in Active /\ r.into = e
<1>0. s \in Sessions /\ Types
  BY DEF Inv, Sessions
<1>1. CASE StartReview(s) \/ Dismiss(s)
  <2>1. PICK d \in tx[s].locks, st \in {"under_review", "dismissed"} : Edit(s, d, Active) /\ Becomes(d, st)
    BY <1>1 DEF StartReview, Dismiss
  <2>2. d \in DOMAIN det /\ det[d] \in DetectionRow /\ det[d].status \in Active /\ Ends(s) /\ UNCHANGED incident
    BY <1>0, <2>1, SeenTrue, GoesIdle DEF Edit
  <2> DEFINE r == [det[d] EXCEPT !.status = st]
  <2>3. /\ r \in DetectionRow /\ r.status = st /\ r.key = det[d].key /\ r.held = det[d].held /\ r.raced = det[d].raced
        /\ r.incident = det[d].incident /\ r.into = det[d].into /\ r.reopened = det[d].reopened
    BY <2>1, <2>2 DEF DetectionRow, Statuses, Active
  <2>4. det' = [det EXCEPT ![d] = r]
    BY <2>1 DEF Becomes
  <2> HIDE DEF r
  <2> QED
    BY <2>1, <2>2, <2>3, <2>4 DEF Rewrites
<1>2. CASE Reopen(s)
  <2>1. PICK d \in tx[s].locks : Edit(s, d, {"dismissed"}) /\ det' = [det EXCEPT ![d].status = "queued", ![d].reopened = TRUE]
    BY <1>2 DEF Reopen
  <2>2. d \in DOMAIN det /\ det[d] \in DetectionRow /\ det[d].status = "dismissed" /\ Ends(s) /\ UNCHANGED incident
    BY <1>0, <2>1, SeenTrue, GoesIdle DEF Edit
  <2> DEFINE r == [det[d] EXCEPT !.status = "queued", !.reopened = TRUE]
  <2>3. /\ r \in DetectionRow /\ r.status = "queued" /\ r.key = det[d].key /\ r.held = det[d].held /\ r.raced = det[d].raced
        /\ r.incident = det[d].incident /\ r.into = det[d].into /\ r.reopened
    BY <2>2 DEF DetectionRow, Statuses, Active
  <2>4. det' = [det EXCEPT ![d] = r]
    BY <2>1, <2>2
  <2> HIDE DEF r
  <2> QED
    BY <2>1, <2>2, <2>3, <2>4 DEF Rewrites
<1>3. CASE Merge(s)
  <2>1. PICK d \in tx[s].locks, e \in tx[s].locks :
          /\ d # e /\ tx[s].seen[d] \in Active /\ tx[s].seen[e] \in Active
          /\ det' = [det EXCEPT ![d].status = "merged", ![d].into = e]
          /\ Goes(s, Idle) /\ UNCHANGED incident
    BY <1>3 DEF Merge
  <2>2. d \in DOMAIN det /\ det[d] \in DetectionRow /\ det[d].status \in Active /\ Ends(s)
    BY <1>0, <2>1, SeenTrue, GoesIdle
  <2>3. e \in DOMAIN det /\ det[e].status \in Active
    BY <2>1, SeenTrue
  <2>4. e \in 0..MaxRows
    BY <2>3, BoundsAssumption DEF Inv, Types, Runs
  <2> DEFINE r == [det[d] EXCEPT !.status = "merged", !.into = e]
  <2>5. /\ r \in DetectionRow /\ r.status = "merged" /\ r.key = det[d].key /\ r.held = det[d].held /\ r.raced = det[d].raced
        /\ r.incident = det[d].incident /\ r.into = e /\ r.reopened = det[d].reopened
    BY <2>2, <2>4 DEF DetectionRow, Statuses, Terminal
  <2>6. det' = [det EXCEPT ![d] = r]
    BY <2>1, <2>2
  <2> HIDE DEF r
  <2> QED
    BY <2>1, <2>2, <2>3, <2>5, <2>6 DEF Rewrites
<1> QED
  BY <1>1, <1>2, <1>3

(* A promotion's number is the next one, and its detection is in review. *)
Numbered == \A s \in Operators : tx[s].step = "numbered" =>
              tx[s].number \in 1..(Len(incident) + 1) /\ tx[s].number <= MaxIncidents

\* Promote: the incident is numbered after all others.
LEMMA PromoteFact ==
  ASSUME Inv, Numbered, NEW s \in Operators, Promote(s)
  PROVE  \E d \in tx[s].locks, r \in DetectionRow :
           /\ Rewrites(s, d, r) /\ det[d].status = "under_review"
           /\ r.status = "promoted" /\ r.into = det[d].into /\ r.reopened = det[d].reopened
           /\ r.incident = Len(incident) + 1 /\ Len(incident) + 1 <= MaxIncidents
           /\ incident' \in Seq(1..MaxRows) /\ Len(incident') = Len(incident) + 1
           /\ incident'[Len(incident) + 1] = d /\ \A m \in DOMAIN incident : incident'[m] = incident[m]
<1> DEFINE n == Len(incident) + 1
<1>0. s \in Sessions /\ Types /\ incident \in Seq(1..MaxRows) /\ Len(incident) \in Nat
  BY DEF Inv, Sessions, Types
<1>1. PICK d \in tx[s].locks :
        /\ tx[s].step = "numbered" /\ NumberUnused(tx[s].number)
        /\ incident' = [m \in DOMAIN incident \union {tx[s].number} |-> IF m = tx[s].number THEN d ELSE incident[m]]
        /\ det' = [det EXCEPT ![d].status = "promoted", ![d].incident = tx[s].number]
        /\ Goes(s, Idle)
  BY DEF Promote
<1>2. tx[s].number = n /\ n <= MaxIncidents
  BY <1>0, <1>1 DEF Numbered, NumberUnused
<1>3. d \in DOMAIN det /\ det[d] \in DetectionRow /\ det[d].status = "under_review" /\ Ends(s)
  BY <1>0, <1>1, SeenTrue, GoesIdle DEF Inv, Known, Knows
<1>4. d \in 1..MaxRows
  BY <1>3, BoundsAssumption DEF Inv, Types, Runs
<1>5. /\ incident' \in Seq(1..MaxRows) /\ Len(incident') = n
      /\ incident'[n] = d /\ \A m \in DOMAIN incident : incident'[m] = incident[m]
  <2>1. DOMAIN incident \union {n} = 1..n /\ n \in Nat
    BY <1>0
  <2> DEFINE f == [m \in 1..n |-> IF m = n THEN d ELSE incident[m]]
  <2>2. incident' = f
    BY <1>1, <1>2, <2>1
  <2>3. ASSUME NEW m \in 1..n, m # n PROVE m \in DOMAIN incident /\ incident[m] \in 1..MaxRows
    <3>1. m \in 1..Len(incident)
      BY <1>0, <2>3
    <3>2. incident[m] \in 1..MaxRows
      BY <1>0, <3>1, ElementOfSeq
    <3> QED
      BY <1>0, <3>1, <3>2
  <2>4. f \in [1..n -> 1..MaxRows]
    BY <1>4, <2>1, <2>3
  <2>5. f \in Seq(1..MaxRows) /\ Len(f) = n
    BY <2>1, <2>4, IsASeq, LenProperties
  <2>6. f[n] = d /\ \A m \in DOMAIN incident : f[m] = incident[m]
    BY <1>0
  <2> QED
    BY <2>2, <2>5, <2>6
<1>6. n \in 0..MaxIncidents
  BY <1>0, <1>2, BoundsAssumption
<1> HIDE DEF n
<1> DEFINE r == [det[d] EXCEPT !.status = "promoted", !.incident = n]
<1>7. /\ r \in DetectionRow /\ r.status = "promoted" /\ r.key = det[d].key /\ r.held = det[d].held /\ r.raced = det[d].raced
      /\ r.incident = n /\ r.into = det[d].into /\ r.reopened = det[d].reopened
  BY <1>3, <1>6 DEF DetectionRow, Statuses, Terminal
<1>8. det' = [det EXCEPT ![d] = r]
  BY <1>1, <1>2, <1>3
<1> HIDE DEF r
<1> QED
  BY <1>2, <1>3, <1>5, <1>7, <1>8 DEF Rewrites, n

(* A run's commit keeps what requests have written. *)
LEMMA CommitFact ==
  ASSUME Inv, NEW e \in Engines, CommitRun(e)
  PROVE  /\ det' \in Seq(DetectionRow) /\ Len(det') = Len(det) + Len(tx[e].rows)
         /\ UNCHANGED incident /\ Ends(e) /\ tx[e].step = "look" /\ Finishes(e)
         /\ \A d \in DOMAIN det :
              /\ det'[d] = Kept(e, d)
              /\ det'[d].key = det[d].key /\ det'[d].status = det[d].status /\ det'[d].into = det[d].into
              /\ det'[d].incident = det[d].incident /\ det'[d].reopened = det[d].reopened
              /\ d \in tx[e].recovered => ~det'[d].held /\ det'[d].raced = det[d].raced
              /\ d \in tx[e].repeated \ tx[e].recovered =>
                   det'[d].held /\ det'[d].raced = (det[d].raced \/ (~det[d].held /\ e \in overlapped))
              /\ d \notin tx[e].recovered \union tx[e].repeated => det'[d] = det[d]
         /\ \A i \in 1..Len(tx[e].rows) : det'[Len(det) + i] = Opened(e, i)
<1> DEFINE k == [d \in DOMAIN det |-> Kept(e, d)]
           q == [i \in DOMAIN tx[e].rows |-> Opened(e, i)]
<1>0. det \in Seq(DetectionRow) /\ e \in Sessions /\ Types
  BY DEF Inv, Types, Sessions
<1>1. tx[e].rows \in Seq(DetectionRow)
  BY <1>0 DEF Types, TxInv, Tx
<1>2. \A d \in DOMAIN det :
        /\ Kept(e, d) \in DetectionRow
        /\ Kept(e, d).key = det[d].key /\ Kept(e, d).status = det[d].status /\ Kept(e, d).into = det[d].into
        /\ Kept(e, d).incident = det[d].incident /\ Kept(e, d).reopened = det[d].reopened
        /\ d \in tx[e].recovered => ~Kept(e, d).held /\ Kept(e, d).raced = det[d].raced
        /\ d \in tx[e].repeated \ tx[e].recovered =>
             Kept(e, d).held /\ Kept(e, d).raced = (det[d].raced \/ (~det[d].held /\ e \in overlapped))
        /\ d \notin tx[e].recovered \union tx[e].repeated => Kept(e, d) = det[d]
  <2> TAKE d \in DOMAIN det
  <2> DEFINE b == det[d].raced \/ (~det[d].held /\ e \in overlapped)
  <2>1. det[d] \in DetectionRow
    BY <1>0
  <2>2. b \in BOOLEAN
    BY <2>1 DEF DetectionRow
  <2>3. CASE d \in tx[e].recovered
    BY <2>1, <2>3 DEF Kept, DetectionRow
  <2>4. CASE d \in tx[e].repeated \ tx[e].recovered
    <3>1. Kept(e, d) = [det[d] EXCEPT !.held = TRUE, !.raced = b]
      BY <2>4 DEF Kept
    <3> HIDE DEF b
    <3>2. /\ [det[d] EXCEPT !.held = TRUE, !.raced = b] \in DetectionRow
          /\ \A r : r = [det[d] EXCEPT !.held = TRUE, !.raced = b] =>
               /\ r.key = det[d].key /\ r.status = det[d].status /\ r.into = det[d].into
               /\ r.incident = det[d].incident /\ r.reopened = det[d].reopened /\ r.held /\ r.raced = b
      BY <2>1, <2>2 DEF DetectionRow
    <3> QED
      BY <2>4, <3>1, <3>2 DEF b
  <2>5. CASE d \notin tx[e].recovered \union tx[e].repeated
    BY <2>1, <2>5 DEF Kept
  <2> QED
    BY <2>3, <2>4, <2>5
<1>3. det' = k \o q /\ Goes(e, Idle) /\ UNCHANGED incident /\ tx[e].step = "look" /\ Finishes(e)
  BY DEF CommitRun
<1>4. Ends(e)
  BY <1>0, <1>3, GoesIdle
<1>5. k \in Seq(DetectionRow) /\ Len(k) = Len(det) /\ \A d \in DOMAIN det : k[d] = Kept(e, d)
  BY <1>0, <1>2
<1>6. q \in Seq(DetectionRow) /\ Len(q) = Len(tx[e].rows) /\ \A i \in 1..Len(tx[e].rows) : q[i] = Opened(e, i)
  <2>1. \A i \in DOMAIN tx[e].rows : Opened(e, i) \in DetectionRow
    <3> TAKE i \in DOMAIN tx[e].rows
    <3> DEFINE b == e \in overlapped
    <3>1. tx[e].rows[i] \in DetectionRow /\ b \in BOOLEAN
      BY <1>1
    <3>2. Opened(e, i) = [tx[e].rows[i] EXCEPT !.raced = b]
      BY DEF Opened
    <3> HIDE DEF b
    <3> QED
      BY <3>1, <3>2 DEF DetectionRow
  <2> QED
    BY <1>1, <2>1
<1> HIDE DEF k, q
<1>7. /\ det' \in Seq(DetectionRow) /\ Len(det') = Len(det) + Len(tx[e].rows)
      /\ \A d \in DOMAIN det : det'[d] = k[d]
      /\ \A i \in 1..Len(tx[e].rows) : det'[Len(det) + i] = q[i]
  <2>1. Len(det) \in Nat /\ Len(q) \in Nat /\ DOMAIN det = 1..Len(det)
    BY <1>0, <1>6
  <2>2. /\ det' \in Seq(DetectionRow) /\ Len(det') = Len(k) + Len(q)
        /\ \A i \in 1..(Len(k) + Len(q)) : det'[i] = IF i <= Len(k) THEN k[i] ELSE q[i - Len(k)]
    <3>1. k \in Seq(DetectionRow) /\ q \in Seq(DetectionRow)
      BY <1>5, <1>6
    <3>2. /\ k \o q \in Seq(DetectionRow) /\ Len(k \o q) = Len(k) + Len(q)
          /\ \A i \in 1..(Len(k) + Len(q)) : (k \o q)[i] = IF i <= Len(k) THEN k[i] ELSE q[i - Len(k)]
      BY <3>1, ConcatProperties
    <3> QED
      BY <1>3, <3>2
  <2>3. ASSUME NEW i \in 1..Len(tx[e].rows) PROVE det'[Len(det) + i] = q[i]
    <3>1. /\ Len(det) + i \in 1..(Len(k) + Len(q)) /\ ~ (Len(det) + i <= Len(k))
          /\ (Len(det) + i) - Len(k) = i
      BY <1>5, <1>6, <2>1
    <3> QED
      BY <2>2, <3>1
  <2>4. ASSUME NEW d \in DOMAIN det PROVE det'[d] = k[d]
    <3>1. d \in 1..(Len(k) + Len(q)) /\ d <= Len(k)
      BY <1>5, <2>1
    <3> QED
      BY <2>2, <3>1
  <2> QED
    BY <1>5, <1>6, <2>2, <2>3, <2>4
<1> QED
  BY <1>2, <1>3, <1>4, <1>5, <1>6, <1>7

-----------------------------------------------------------------------------
(* A step that publishes nothing takes only free rows, and knows them. *)
Safe(s) == /\ tx'[s].locks \subseteq DOMAIN det
           /\ \A u \in Sessions \ {s} : tx'[s].locks \intersect tx[u].locks = {}
Quiet(s) == Unpublished /\ Others(s) /\ Safe(s)

\* A session that only gives up locks disturbs no other.
LEMMA OwnLocks ==
  ASSUME Inv, NEW s \in Sessions
  PROVE  /\ tx[s].locks \subseteq DOMAIN det
         /\ \A u \in Sessions \ {s} : tx[s].locks \intersect tx[u].locks = {}
  BY DEF Inv, Locks

\* A session that ends unpublished holds and knows nothing.
LEMMA EndsSafe == ASSUME NEW s \in Sessions, Ends(s), Unpublished PROVE Quiet(s)
  BY IdleType DEF Ends, Safe, Quiet

\* Lock takes a free row.
LEMMA LockQuiet ==
  ASSUME Inv, NEW s \in Operators, Lock(s)
  PROVE  /\ Quiet(s) /\ tx'[s].step = "locked" /\ tx'[s].rows = << >> /\ Knows(s)'
<1>0. s \in Sessions /\ Types
  BY DEF Inv, Sessions
<1>1. PICK d \in DOMAIN det :
         /\ RowFree(s, d) /\ tx[s].step = "idle"
         /\ Others(s) /\ tx'[s].step = "locked" /\ tx'[s].locks = {d} /\ tx'[s].rows = << >>
         /\ tx'[s].seen = [x \in {d} |-> det[x].status]
         /\ Unpublished
  BY <1>0, LockFact
<1>2. Safe(s)
  BY <1>1 DEF Safe, RowFree
<1>3. DOMAIN tx'[s].seen = {d} /\ tx'[s].seen[d] = det'[d].status
  BY <1>1 DEF Unpublished
<1>4. Knows(s)'
  BY <1>1, <1>3 DEF Knows
<1> QED
  BY <1>1, <1>2, <1>4 DEF Quiet

\* LockOther takes a free row.
LEMMA LockOtherQuiet ==
  ASSUME Inv, NEW s \in Operators, LockOther(s)
  PROVE  /\ Quiet(s) /\ tx'[s].step = "both" /\ tx'[s].rows = << >> /\ Knows(s)'
<1>0. s \in Sessions /\ Types /\ DOMAIN tx[s].seen = tx[s].locks /\ tx[s].locks \subseteq DOMAIN det
  BY DEF Inv, Sessions, Known, Knows, Locks
<1>1. PICK d \in tx[s].locks, e \in DOMAIN det :
         /\ InOrder(d, e) /\ RowFree(s, e) /\ tx[s].step = "locked"
         /\ Others(s) /\ tx'[s].step = "both" /\ tx'[s].locks = {d, e} /\ tx'[s].rows = << >>
         /\ tx'[s].seen = [x \in {d, e} |-> IF x = d THEN tx[s].seen[d] ELSE det[e].status]
         /\ Unpublished
  BY <1>0, LockOtherFact
<1>2. Safe(s)
  BY <1>0, <1>1, OwnLocks DEF Safe, RowFree
<1>3. tx[s].seen[d] = det[d].status
  BY SeenTrue
<1>4. DOMAIN tx'[s].seen = {d, e} /\ tx'[s].seen[d] = det[d].status /\ (e # d => tx'[s].seen[e] = det[e].status)
  BY <1>1, <1>3
<1>5. Knows(s)'
  BY <1>1, <1>4 DEF Knows, Unpublished
<1> QED
  BY <1>1, <1>2, <1>5 DEF Quiet

\* TakeNumber takes no row.
LEMMA TakeNumberQuiet ==
  ASSUME Inv, NEW s \in Operators, TakeNumber(s)
  PROVE  /\ Quiet(s) /\ tx'[s].step = "numbered" /\ tx'[s].rows = << >> /\ Knows(s)'
         /\ tx'[s].number = Len(incident) + 1 /\ Len(incident) < MaxIncidents
<1>0. s \in Sessions /\ Types /\ Knows(s)
  BY DEF Inv, Sessions, Known
<1>1. /\ tx[s].step = "locked" /\ Len(incident) < MaxIncidents
      /\ \E d \in tx[s].locks : tx[s].seen[d] = "under_review"
      /\ Others(s) /\ tx'[s].step = "numbered" /\ tx'[s].locks = tx[s].locks /\ tx'[s].seen = tx[s].seen
      /\ tx'[s].rows = << >> /\ tx'[s].number = Len(incident) + 1
      /\ Unpublished
  BY <1>0, TakeNumberFact
<1>2. Safe(s)
  BY <1>0, <1>1, OwnLocks DEF Safe
<1>3. Knows(s)'
  BY <1>0, <1>1 DEF Knows, Unpublished
<1> QED
  BY <1>1, <1>2, <1>3 DEF Quiet

(* What is quiet of a request leaves it in one of its steps, knowing its rows. *)
LEMMA RequestQuiet ==
  ASSUME Inv, NEW s \in Operators, Lock(s) \/ LockOther(s) \/ AddNote(s) \/ TakeNumber(s) \/ Fail(s)
  PROVE  /\ Quiet(s) /\ tx'[s].step \in {"idle", "locked", "both", "numbered"} /\ tx'[s].rows = << >> /\ Knows(s)'
         /\ tx'[s].step = "numbered" => tx'[s].number = Len(incident) + 1 /\ Len(incident) < MaxIncidents
<1>0. s \in Sessions /\ Types
  BY DEF Inv, Sessions
<1>1. CASE AddNote(s) \/ Fail(s)
  <2>1. Goes(s, Idle) /\ Unpublished
    BY <1>1 DEF AddNote, Fail, Edit, Unpublished
  <2>2. Ends(s) /\ Quiet(s)
    BY <1>0, <2>1, GoesIdle, EndsSafe
  <2>3. Idle.seen = << >> /\ DOMAIN Idle.seen = {}
    BY DEF Idle
  <2> QED
    BY <2>2, <2>3, IdleType DEF Ends, Knows
<1> QED
  BY <1>1, LockQuiet, LockOtherQuiet, TakeNumberQuiet

(* What is quiet of a run leaves its memory of old and of new rows whole. *)
Remembers(e) ==
  /\ tx'[e].recovered \union tx'[e].repeated \subseteq DOMAIN det
  /\ tx'[e].step = "idle" => tx'[e].locks = {} /\ tx'[e].rows = << >>
  /\ \A i \in DOMAIN tx'[e].rows : \E k \in Keys : tx'[e].rows[i] = NewDetection(k)
  /\ Len(det) + Len(tx'[e].rows) <= MaxRows
  /\ \A u \in Engines \ {e} : tx'[e].rows = << >> \/ tx[u].rows = << >>

\* What a run remembers is of rows that stay.
LEMMA SameRows ==
  ASSUME Inv, NEW e \in Engines, tx'[e].rows = tx[e].rows, tx'[e].step # "idle",
         tx'[e].recovered \union tx'[e].repeated \subseteq DOMAIN det
  PROVE  Remembers(e)
  BY DEF Inv, Runs, Pending, Remembers

\* An ended run has no new rows.
LEMMA NoRows ==
  ASSUME Inv, NEW e \in Engines, tx'[e].rows = << >>, tx'[e].step = "idle" => tx'[e].locks = {},
         tx'[e].recovered = {} /\ tx'[e].repeated = {}
  PROVE  Remembers(e)
<1>1. Len(det) + 0 <= MaxRows
  BY DEF Inv, Runs, Types
<1>2. Len(<< >>) = 0 /\ DOMAIN << >> = {}
  OBVIOUS
<1> QED
  BY <1>1, <1>2 DEF Remembers

\* A run that locks nothing more disturbs no other.
LEMMA SameLocks ==
  ASSUME Inv, NEW s \in Sessions, tx'[s].locks = tx[s].locks, Others(s), Unpublished PROVE Quiet(s)
  BY OwnLocks DEF Quiet, Safe

\* Persist locks nothing more.
LEMMA PersistQuiet ==
  ASSUME Inv, NEW e \in Engines, Persist(e)
  PROVE  Quiet(e) /\ tx'[e].step = "look" /\ Remembers(e)
<1>0. e \in Sessions /\ Types /\ tx[e] \in Tx
  BY DEF Inv, Sessions, Types, TxInv
<1> DEFINE new == NewDetection(tx[e].at)
<1>1. /\ tx[e].step = "open" /\ tx[e].at \in Keys /\ Unpublished
      /\ Len(det) + Len(tx[e].rows) < MaxRows
      /\ \A u \in Engines \ {e} : tx[u].rows = << >>
      /\ Others(e) /\ tx'[e].step = "look"
      /\ tx'[e].locks = tx[e].locks /\ tx'[e].rows = Append(tx[e].rows, new)
      /\ tx'[e].recovered = tx[e].recovered /\ tx'[e].repeated = tx[e].repeated
  BY <1>0, PersistFact
<1>2. Quiet(e)
  BY <1>0, <1>1, SameLocks
<1>3. tx[e].rows \in Seq(DetectionRow) /\ new \in DetectionRow
  BY <1>0, <1>1, NewType DEF Tx
<1>4. \A i \in DOMAIN tx[e].rows : \E k \in Keys : tx[e].rows[i] = NewDetection(k)
  BY DEF Inv, Runs, Pending
<1>5. \E k \in Keys : new = NewDetection(k)
  BY <1>1
<1> HIDE DEF new
<1>6. /\ Len(tx'[e].rows) = Len(tx[e].rows) + 1
      /\ \A i \in DOMAIN tx'[e].rows : \E k \in Keys : tx'[e].rows[i] = NewDetection(k)
  <2>1. /\ DOMAIN tx'[e].rows = 1..(Len(tx[e].rows) + 1) /\ Len(tx'[e].rows) = Len(tx[e].rows) + 1
        /\ Len(tx[e].rows) \in Nat /\ DOMAIN tx[e].rows = 1..Len(tx[e].rows)
        /\ \A i \in 1..Len(tx[e].rows) : tx'[e].rows[i] = tx[e].rows[i]
        /\ tx'[e].rows[Len(tx[e].rows) + 1] = new
    BY <1>1, <1>3
  <2>2. \A i \in DOMAIN tx'[e].rows : i \in 1..Len(tx[e].rows) \/ i = Len(tx[e].rows) + 1
    BY <2>1
  <2> QED
    BY <1>4, <1>5, <2>1, <2>2
<1>7. Len(det) + Len(tx'[e].rows) <= MaxRows
  BY <1>1, <1>3, <1>6, BoundsAssumption DEF Inv, Types
<1>8. tx[e].recovered \union tx[e].repeated \subseteq DOMAIN det
  BY DEF Inv, Runs, Pending
<1> QED
  BY <1>1, <1>2, <1>6, <1>7, <1>8 DEF Remembers

\* Every unpublished step of a run is quiet.
LEMMA RunQuiet ==
  ASSUME Inv, NEW e \in Engines,
         StartRun(e) \/ Look(e) \/ SkipSensor(e) \/ FlushRow(e) \/ Persist(e) \/ Fail(e)
  PROVE  /\ Quiet(e) /\ tx'[e].step \in {"idle", "look", "open"}
         /\ tx'[e].step = "open" => tx'[e].at \in Keys
         /\ Remembers(e)
<1>0. e \in Sessions /\ Types /\ tx[e].step \in {"idle", "look", "open"} /\ (tx[e].step = "open" => tx[e].at \in Keys)
  BY DEF Inv, Sessions, Types, TxInv
<1>a. tx[e].recovered \union tx[e].repeated \subseteq DOMAIN det
  BY DEF Inv, Runs, Pending
<1>1. CASE StartRun(e)
  <2>1. /\ Unpublished /\ Others(e) /\ tx'[e].step = "look" /\ tx'[e].locks = {} /\ tx'[e].rows = << >>
        /\ tx'[e].recovered = {} /\ tx'[e].repeated = {}
    BY <1>0, <1>1, StartRunFact
  <2>2. Quiet(e)
    BY <2>1 DEF Quiet, Safe
  <2> QED
    BY <2>1, <2>2, NoRows
<1>2. CASE Look(e) \/ SkipSensor(e)
  <2>1. /\ Unpublished /\ Others(e) /\ tx'[e].locks = tx[e].locks /\ tx'[e].rows = tx[e].rows
        /\ tx'[e].step = "look" \/ (tx'[e].step = "open" /\ tx'[e].at \in Keys)
        /\ tx'[e].recovered \union tx'[e].repeated \subseteq DOMAIN det
    <3> DEFINE d == FindOpenDetection(tx[e].at)
    <3>1. /\ tx[e].at \in Keys /\ Unpublished
          /\ \/ Noted(e, tx[e].recovered, tx[e].repeated)
             \/ /\ d \in DOMAIN det /\ det[d].held
                /\ \/ Noted(e, tx[e].recovered \union {d}, tx[e].repeated)
                   \/ Noted(e, tx[e].recovered, tx[e].repeated \union {d})
             \/ /\ Others(e) /\ tx'[e].step = "open" /\ tx'[e].at = tx[e].at
                /\ tx'[e].locks = tx[e].locks /\ tx'[e].rows = tx[e].rows
                /\ tx'[e].recovered = tx[e].recovered /\ tx'[e].repeated = tx[e].repeated
      BY <1>0, <1>2, LookFact
    <3> HIDE DEF d
    <3> QED
      BY <1>a, <3>1 DEF Noted
  <2>2. Quiet(e)
    BY <1>0, <2>1, SameLocks
  <2> QED
    BY <2>1, <2>2, SameRows
<1>3. CASE FlushRow(e)
  <2>1. Dirty(e) \subseteq DOMAIN det
    BY <1>a DEF Dirty
  <2>2. PICK d \in Dirty(e) :
           /\ RowFree(e, d) /\ d \in DOMAIN det /\ Unpublished
           /\ Others(e) /\ tx'[e].step = tx[e].step /\ tx'[e].at = tx[e].at
           /\ tx'[e].locks = tx[e].locks \union {d} /\ tx'[e].rows = tx[e].rows
           /\ tx'[e].recovered = tx[e].recovered /\ tx'[e].repeated = tx[e].repeated
    BY <1>0, <1>3, <2>1, FlushFact
  <2>3. Quiet(e)
    BY <1>0, <2>2, OwnLocks DEF Quiet, Safe, RowFree
  <2>4. tx[e].step # "idle"
    BY <1>3 DEF FlushRow, AtFlush
  <2> QED
    BY <1>0, <1>a, <2>2, <2>3, <2>4, SameRows
<1>4. CASE Persist(e)
  BY <1>4, PersistQuiet
<1>5. CASE Fail(e)
  <2>1. Goes(e, Idle) /\ Unpublished
    BY <1>5 DEF Fail
  <2>2. Ends(e) /\ Quiet(e)
    BY <1>0, <2>1, GoesIdle, EndsSafe
  <2> QED
    BY <2>2, IdleType, NoRows DEF Ends
<1> QED
  BY <1>1, <1>2, <1>3, <1>4, <1>5

-----------------------------------------------------------------------------
(* The invariant is kept. *)
LEMMA QuietLocks == ASSUME Inv, NEW s \in Sessions, Quiet(s) PROVE Locks'
<1>1. \A u \in Sessions \ {s} : tx'[u].locks = tx[u].locks
  BY DEF Quiet, Others
<1>2. det' = det
  BY DEF Quiet, Unpublished
<1> QED
  BY <1>1, <1>2 DEF Inv, Locks, Quiet, Safe

\* A step of another session leaves a request's record.
LEMMA OperatorStays ==
  ASSUME Inv, NEW s \in Sessions, Others(s), NEW u \in Operators, u # s,
         \A d \in tx[u].locks : det'[d].status = det[d].status
  PROVE  /\ Knows(u)' /\ tx'[u].rows = << >> /\ tx'[u].step \in {"idle", "locked", "both", "numbered"}
         /\ tx'[u].step = tx[u].step /\ tx'[u].number = tx[u].number
<1>1. tx'[u] = tx[u]
  BY DEF Others, Sessions
<1>2. Knows(u) /\ tx[u].rows = << >> /\ tx[u].step \in {"idle", "locked", "both", "numbered"}
  BY DEF Inv, Known, Types, TxInv
<1> QED
  BY <1>1, <1>2 DEF Knows

\* Unpublished steps of requests keep the invariant.
LEMMA RequestQuietInv ==
  ASSUME Inv, NEW s \in Operators, Quiet(s), Knows(s)',
         tx'[s].step \in {"idle", "locked", "both", "numbered"}, tx'[s].rows = << >>
  PROVE  Inv'
<1>0. s \in Sessions /\ s \notin Engines /\ det' = det /\ incident' = incident /\ Others(s)
  BY SessionsAssumption DEF Sessions, Quiet, Unpublished
<1>1. Locks'
  BY <1>0, QuietLocks
<1>2. \A u \in Operators : Knows(u)' /\ tx'[u].rows = << >> /\ tx'[u].step \in {"idle", "locked", "both", "numbered"}
  <2> SUFFICES ASSUME NEW u \in Operators, u # s
               PROVE  Knows(u)' /\ tx'[u].rows = << >> /\ tx'[u].step \in {"idle", "locked", "both", "numbered"}
    OBVIOUS
  <2> QED
    BY <1>0, OperatorStays
<1>3. \A e \in Engines : tx'[e] = tx[e]
  BY <1>0 DEF Others, Sessions
<1>4. Types'
  <2>1. \A e \in Engines : /\ tx'[e].step \in {"idle", "look", "open"}
                           /\ tx'[e].step = "open" => tx'[e].at \in Keys
    BY <1>3 DEF Inv, Types, TxInv
  <2>2. det' \in Seq(DetectionRow) /\ incident' \in Seq(1..MaxRows)
    BY <1>0 DEF Inv, Types
  <2> QED
    BY <1>0, <1>2, <2>1, <2>2 DEF Types, TxInv, Others
<1>5. Runs'
  BY <1>0, <1>3 DEF Inv, Runs, Pending
<1> QED
  BY <1>1, <1>2, <1>4, <1>5 DEF Inv, Known

\* Unpublished steps of runs keep the invariant.
LEMMA RunQuietInv ==
  ASSUME Inv, NEW e \in Engines, Quiet(e), Remembers(e), tx'[e].step \in {"idle", "look", "open"},
         tx'[e].step = "open" => tx'[e].at \in Keys
  PROVE  Inv'
<1>0. e \in Sessions /\ e \notin Operators /\ det' = det /\ incident' = incident /\ Others(e)
  BY SessionsAssumption DEF Sessions, Quiet, Unpublished
<1>1. Locks'
  BY <1>0, QuietLocks
<1>2. \A u \in Operators : Knows(u)' /\ tx'[u].rows = << >> /\ tx'[u].step \in {"idle", "locked", "both", "numbered"}
  BY <1>0, OperatorStays
<1>3. \A u \in Engines \ {e} : tx'[u] = tx[u]
  BY <1>0 DEF Others, Sessions
<1>4. Types'
  <2>1. \A u \in Engines : /\ tx'[u].step \in {"idle", "look", "open"}
                           /\ tx'[u].step = "open" => tx'[u].at \in Keys
    BY <1>3 DEF Inv, Types, TxInv
  <2>2. det' \in Seq(DetectionRow) /\ incident' \in Seq(1..MaxRows)
    BY <1>0 DEF Inv, Types
  <2> QED
    BY <1>0, <1>2, <2>1, <2>2 DEF Types, TxInv, Others
<1>5. Runs'
  <2>1. Pending(e)'
    BY <1>0, <1>3 DEF Remembers, Pending
  <2>2. ASSUME NEW u \in Engines \ {e} PROVE Pending(u)'
    <3>1. tx'[u] = tx[u] /\ Pending(u)
      BY <1>3 DEF Inv, Runs
    <3>2. \A v \in Engines \ {u} : tx'[u].rows = << >> \/ tx'[v].rows = << >>
      BY <1>3, <3>1 DEF Pending, Remembers
    <3> QED
      BY <1>0, <3>1, <3>2 DEF Pending
  <2> QED
    BY <1>0, <2>1, <2>2 DEF Inv, Runs
<1> QED
  BY <1>1, <1>2, <1>4, <1>5 DEF Inv, Known

\* A rewritten row leaves rows of the right type.
LEMMA RewriteFact ==
  ASSUME Inv, NEW s \in Operators, NEW d, NEW r, Rewrites(s, d, r)
  PROVE  /\ det' \in Seq(DetectionRow) /\ Len(det') = Len(det) /\ DOMAIN det' = DOMAIN det
         /\ det'[d] = r /\ \A x \in DOMAIN det \ {d} : det'[x] = det[x]
         /\ \A u \in Sessions \ {s} : d \notin tx[u].locks
<1>1. det \in Seq(DetectionRow) /\ s \in Sessions
  BY DEF Inv, Types, Sessions
<1>2. \A u \in Sessions \ {s} : d \notin tx[u].locks
  BY <1>1, OwnLocks DEF Rewrites
<1> QED
  BY <1>1, <1>2 DEF Rewrites

\* Requests that write keep the invariant: nobody else has locked the row.
LEMMA RewriteInv ==
  ASSUME Inv, NEW s \in Operators, NEW d, NEW r, Rewrites(s, d, r),
         incident' \in Seq(1..MaxRows), Len(incident') <= MaxIncidents
  PROVE  Inv'
<1>0. /\ s \in Sessions /\ s \notin Engines /\ Others(s) /\ tx'[s] = Idle
      /\ det' \in Seq(DetectionRow) /\ Len(det') = Len(det) /\ DOMAIN det' = DOMAIN det
      /\ \A x \in DOMAIN det \ {d} : det'[x] = det[x]
      /\ \A u \in Sessions \ {s} : d \notin tx[u].locks
  BY SessionsAssumption, RewriteFact DEF Sessions, Rewrites, Ends
<1>1. \A u \in Sessions \ {s} : tx'[u] = tx[u]
  BY <1>0 DEF Others
<1>2. Locks'
  BY <1>0, <1>1, IdleType DEF Inv, Locks
<1>3. Knows(s)' /\ tx'[s].rows = << >> /\ tx'[s].step = "idle"
  <2>1. DOMAIN Idle.seen = {}
    BY DEF Idle
  <2> QED
    BY <1>0, <2>1, IdleType DEF Knows
<1>4. ASSUME NEW u \in Operators, u # s
      PROVE  Knows(u)' /\ tx'[u].rows = << >> /\ tx'[u].step \in {"idle", "locked", "both", "numbered"}
  <2>1. u \in Sessions \ {s} /\ tx[u].locks \subseteq DOMAIN det
    BY <1>4 DEF Sessions, Inv, Locks
  <2>2. \A x \in tx[u].locks : det'[x].status = det[x].status
    BY <1>0, <2>1
  <2> QED
    BY <1>0, <1>4, <2>2, OperatorStays
<1>5. \A e \in Engines : tx'[e] = tx[e]
  BY <1>0, <1>1 DEF Sessions
<1>6. Types'
  <2>1. \A e \in Engines : /\ tx'[e].step \in {"idle", "look", "open"}
                           /\ tx'[e].step = "open" => tx'[e].at \in Keys
    BY <1>5 DEF Inv, Types, TxInv
  <2>2. \A u \in Operators : tx'[u].step \in {"idle", "locked", "both", "numbered"} /\ tx'[u].rows = << >>
    BY <1>3, <1>4
  <2> QED
    BY <1>0, <2>1, <2>2 DEF Types, TxInv, Others
<1>7. Runs'
  <2>1. \A e \in Engines : Pending(e)
    BY DEF Inv, Runs
  <2>2. ASSUME NEW e \in Engines PROVE Pending(e)'
    <3>1. tx'[e] = tx[e] /\ \A u \in Engines : tx'[u] = tx[u]
      BY <1>5
    <3> QED
      BY <1>0, <2>1, <3>1 DEF Pending
  <2>3. Len(det') <= MaxRows
    BY <1>0 DEF Inv, Runs
  <2> QED
    BY <2>2, <2>3 DEF Runs
<1> QED
  BY <1>2, <1>3, <1>4, <1>6, <1>7 DEF Inv, Known

\* A run's commit keeps the invariant.
LEMMA CommitInv == ASSUME Inv, NEW e \in Engines, CommitRun(e) PROVE Inv'
<1>0. /\ e \in Sessions /\ e \notin Operators /\ Others(e) /\ tx'[e] = Idle
      /\ det' \in Seq(DetectionRow) /\ Len(det') = Len(det) + Len(tx[e].rows)
      /\ incident' = incident
      /\ \A d \in DOMAIN det : det'[d].status = det[d].status
  BY SessionsAssumption, CommitFact DEF Sessions, Ends
<1>1. \A u \in Sessions \ {e} : tx'[u] = tx[u]
  BY <1>0 DEF Others
<1>2. det \in Seq(DetectionRow) /\ tx[e].rows \in Seq(DetectionRow)
  BY <1>0 DEF Inv, Types, TxInv, Tx
<1>3. DOMAIN det \subseteq DOMAIN det' /\ Len(det) \in Nat /\ Len(tx[e].rows) \in Nat
  BY <1>0, <1>2
<1>4. Locks'
  BY <1>0, <1>1, <1>3, IdleType DEF Inv, Locks
<1>5. ASSUME NEW u \in Operators
      PROVE  Knows(u)' /\ tx'[u].rows = << >> /\ tx'[u].step \in {"idle", "locked", "both", "numbered"}
  <2>1. u # e /\ tx[u].locks \subseteq DOMAIN det
    BY <1>0 DEF Sessions, Inv, Locks
  <2> QED
    BY <1>0, <2>1, OperatorStays
<1>6. Types'
  <2>1. \A u \in Engines : /\ tx'[u].step \in {"idle", "look", "open"}
                           /\ tx'[u].step = "open" => tx'[u].at \in Keys
    BY <1>0, <1>1, IdleType DEF Inv, Types, TxInv, Sessions
  <2> QED
    BY <1>0, <1>5, <2>1 DEF Inv, Types, TxInv, Others
<1>7. Len(det') <= MaxRows
  BY <1>0 DEF Inv, Runs, Pending
<1>8. Pending(e)'
  <2>1. Len(<< >>) = 0 /\ DOMAIN << >> = {}
    OBVIOUS
  <2>2. Len(det') + 0 <= MaxRows
    BY <1>0, <1>7
  <2> QED
    BY <1>0, <2>1, <2>2, IdleType DEF Pending
<1>9. ASSUME NEW u \in Engines \ {e} PROVE Pending(u)'
  <2>1. tx'[u] = tx[u] /\ Pending(u)
    BY <1>1 DEF Inv, Runs, Sessions
  <2>2. \A v \in Engines \ {u} : tx'[u].rows = << >> \/ tx'[v].rows = << >>
    BY <1>0, <1>1, <2>1, IdleType DEF Pending, Sessions
  <2>3. Len(det') + Len(tx[u].rows) <= MaxRows
    <3>1. CASE tx[u].rows = << >>
      BY <1>0, <1>7, <3>1
    <3>2. CASE tx[u].rows # << >>
      <4>1. tx[e].rows = << >>
        BY <2>1, <3>2 DEF Pending
      <4>2. Len(det') = Len(det)
        BY <1>0, <1>3, <4>1
      <4> QED
        BY <2>1, <4>2 DEF Pending
    <3> QED
      BY <3>1, <3>2
  <2> QED
    BY <1>3, <2>1, <2>2, <2>3 DEF Pending
<1>10. Runs'
  BY <1>0, <1>7, <1>8, <1>9 DEF Inv, Runs
<1> QED
  BY <1>4, <1>5, <1>6, <1>10 DEF Inv, Known

-----------------------------------------------------------------------------
(* Incidents and promoted detections. *)
Ranges == /\ \A n \in DOMAIN incident : incident[n] \in DOMAIN det
          /\ \A d \in DOMAIN det : det[d].incident # 0 => det[d].incident \in DOMAIN incident
Matched == Numbered /\ Ranges /\ IncidentsMatch

\* Unpublished steps keep incidents and promoted detections matched.
LEMMA MatchedQuiet ==
  ASSUME Matched, NEW s \in Sessions, Unpublished, Others(s),
         s \in Operators /\ tx'[s].step = "numbered" => tx'[s].number = Len(incident) + 1 /\ Len(incident) < MaxIncidents,
         Types
  PROVE  Matched'
<1>1. det' = det /\ incident' = incident
  BY DEF Unpublished
<1>2. Numbered'
  <2> SUFFICES ASSUME NEW u \in Operators, tx'[u].step = "numbered"
               PROVE  tx'[u].number \in 1..(Len(incident) + 1) /\ tx'[u].number <= MaxIncidents
    BY <1>1 DEF Numbered
  <2>1. CASE u = s
    BY <2>1, BoundsAssumption DEF Types
  <2>2. CASE u # s
    <3>1. tx'[u] = tx[u]
      BY <2>2 DEF Others, Sessions
    <3> QED
      BY <3>1 DEF Matched, Numbered
  <2> QED
    BY <2>1, <2>2
<1> QED
  BY <1>1, <1>2 DEF Matched, Ranges, IncidentsMatch

(* A request that keeps incidents rewrites a detection that is not promoted and stays so. *)
LEMMA MatchedEdit ==
  ASSUME Inv, Matched, NEW s \in Operators, NEW d, NEW r, Rewrites(s, d, r), UNCHANGED incident,
         r.incident = det[d].incident, det[d].status # "promoted", r.status # "promoted"
  PROVE  Matched'
<1>0. /\ det' \in Seq(DetectionRow) /\ DOMAIN det' = DOMAIN det /\ det'[d] = r
      /\ \A x \in DOMAIN det \ {d} : det'[x] = det[x]
      /\ tx'[s] = Idle /\ Others(s) /\ d \in DOMAIN det
  BY RewriteFact DEF Rewrites, Ends
<1>1. Numbered'
  <2> SUFFICES ASSUME NEW u \in Operators, tx'[u].step = "numbered"
               PROVE  tx'[u].number \in 1..(Len(incident) + 1) /\ tx'[u].number <= MaxIncidents
    BY DEF Numbered
  <2>1. u # s /\ u \in Sessions
    BY <1>0, IdleType DEF Sessions
  <2>2. tx'[u] = tx[u]
    BY <1>0, <2>1 DEF Others
  <2> QED
    BY <2>2 DEF Matched, Numbered
<1>2. \A x \in DOMAIN det : det'[x].incident = det[x].incident
  BY <1>0
<1>3. Ranges'
  BY <1>0, <1>2 DEF Matched, Ranges
<1>4. det[d].incident = 0 /\ r.incident = 0
  BY <1>0 DEF Matched, IncidentsMatch
<1>5. \A x \in DOMAIN det : (det'[x].status = "promoted") = (det'[x].incident # 0)
  <2> TAKE x \in DOMAIN det
  <2>1. CASE x = d
    BY <1>0, <1>4, <2>1
  <2>2. CASE x # d
    BY <1>0, <2>2 DEF Matched, IncidentsMatch
  <2> QED
    BY <2>1, <2>2
<1>6. \A n \in DOMAIN incident : incident[n] \in DOMAIN det
  BY DEF Matched, Ranges
<1> QED
  BY <1>0, <1>1, <1>2, <1>3, <1>5, <1>6 DEF Matched, IncidentsMatch

(* A promotion numbers the one it makes after all others. *)
LEMMA MatchedPromote ==
  ASSUME Inv, Matched, NEW s \in Operators, NEW d, NEW r, Rewrites(s, d, r), det[d].status = "under_review",
         r.status = "promoted", r.incident = Len(incident) + 1, Len(incident) + 1 <= MaxIncidents,
         incident' \in Seq(1..MaxRows), Len(incident') = Len(incident) + 1,
         incident'[Len(incident) + 1] = d, \A m \in DOMAIN incident : incident'[m] = incident[m]
  PROVE  Matched'
<1> DEFINE n == Len(incident) + 1
<1>0. /\ det' \in Seq(DetectionRow) /\ DOMAIN det' = DOMAIN det /\ det'[d] = r
      /\ \A x \in DOMAIN det \ {d} : det'[x] = det[x]
      /\ tx'[s] = Idle /\ Others(s) /\ d \in DOMAIN det
  BY RewriteFact DEF Rewrites, Ends
<1>a. Len(incident) \in Nat /\ DOMAIN incident = 1..Len(incident) /\ DOMAIN incident' = 1..n
  BY DEF Inv, Types
<1>b. \A m \in DOMAIN incident' : m \in DOMAIN incident \/ m = n
  BY <1>a
<1>c. n \notin DOMAIN incident /\ n \in DOMAIN incident' /\ n # 0
  BY <1>a
<1>1. Numbered'
  <2> SUFFICES ASSUME NEW u \in Operators, tx'[u].step = "numbered"
               PROVE  tx'[u].number \in 1..(Len(incident') + 1) /\ tx'[u].number <= MaxIncidents
    BY DEF Numbered
  <2>1. u # s /\ u \in Sessions
    BY <1>0, IdleType DEF Sessions
  <2>2. tx'[u] = tx[u]
    BY <1>0, <2>1 DEF Others
  <2>3. tx'[u].number \in 1..(Len(incident) + 1) /\ tx'[u].number <= MaxIncidents
    BY <2>2 DEF Matched, Numbered
  <2> QED
    BY <1>a, <2>3
<1>2. det[d].incident = 0
  BY <1>0 DEF Matched, IncidentsMatch
<1>3. \A m \in DOMAIN incident : incident[m] \in DOMAIN det /\ incident[m] # d
  <2> TAKE m \in DOMAIN incident
  <2>1. incident[m] \in DOMAIN det /\ det[incident[m]].incident = m /\ m # 0
    BY <1>a DEF Matched, Ranges, IncidentsMatch
  <2> QED
    BY <1>2, <2>1
<1> HIDE DEF n
<1>d. incident'[n] = d /\ r.incident = n
  BY DEF n
<1>4. Ranges'
  <2>1. \A m \in DOMAIN incident' : incident'[m] \in DOMAIN det
    BY <1>0, <1>b, <1>d, <1>3
  <2>2. \A x \in DOMAIN det : det'[x].incident # 0 => det'[x].incident \in DOMAIN incident'
    <3> TAKE x \in DOMAIN det
    <3>1. CASE x = d
      BY <1>0, <1>c, <1>d, <3>1
    <3>2. CASE x # d
      <4>1. DOMAIN incident \subseteq DOMAIN incident'
        BY <1>a DEF n
      <4> QED
        BY <1>0, <3>2, <4>1 DEF Matched, Ranges
    <3> QED
      BY <3>1, <3>2
  <2> QED
    BY <1>0, <2>1, <2>2 DEF Ranges
<1>5. \A m \in DOMAIN incident' : det'[incident'[m]].incident = m
  <2> TAKE m \in DOMAIN incident'
  <2>1. CASE m = n
    BY <1>0, <1>d, <2>1
  <2>2. CASE m \in DOMAIN incident
    BY <1>0, <1>3, <2>2 DEF Matched, IncidentsMatch
  <2> QED
    BY <1>b, <2>1, <2>2
<1>6. \A x \in DOMAIN det : /\ (det'[x].status = "promoted") = (det'[x].incident # 0)
                            /\ det'[x].incident # 0 => incident'[det'[x].incident] = x
  <2> TAKE x \in DOMAIN det
  <2>1. CASE x = d
    BY <1>0, <1>c, <1>d, <2>1
  <2>2. CASE x # d
    BY <1>0, <2>2 DEF Matched, Ranges, IncidentsMatch
  <2> QED
    BY <2>1, <2>2
<1> QED
  BY <1>0, <1>1, <1>4, <1>5, <1>6 DEF Matched, IncidentsMatch

(* What a commit adds to the rows is new. *)
NewRows(e) ==
  /\ DOMAIN det \subseteq DOMAIN det'
  /\ \A d \in DOMAIN det' \ DOMAIN det :
       \E i \in DOMAIN tx[e].rows, k \in Keys :
         d = Len(det) + i /\ tx[e].rows[i] = NewDetection(k) /\ tx[e].rows[i].key = k
         /\ det'[d] = [NewDetection(k) EXCEPT !.raced = e \in overlapped] /\ det'[d].key = k
         /\ det'[d].status = "queued" /\ det'[d].incident = 0

\* The rows a commit adds follow those there are.
LEMMA NewRowsFact == ASSUME Inv, NEW e \in Engines, CommitRun(e) PROVE NewRows(e)
<1>0. /\ det' \in Seq(DetectionRow) /\ Len(det') = Len(det) + Len(tx[e].rows)
      /\ \A i \in 1..Len(tx[e].rows) : det'[Len(det) + i] = Opened(e, i)
  BY CommitFact
<1>1. det \in Seq(DetectionRow) /\ tx[e].rows \in Seq(DetectionRow)
  BY DEF Inv, Types, TxInv, Tx, Sessions
<1>2. /\ Len(det) \in Nat /\ Len(tx[e].rows) \in Nat /\ DOMAIN det = 1..Len(det)
      /\ DOMAIN tx[e].rows = 1..Len(tx[e].rows) /\ DOMAIN det' = 1..(Len(det) + Len(tx[e].rows))
  BY <1>0, <1>1
<1>3. \A i \in DOMAIN tx[e].rows : \E k \in Keys : tx[e].rows[i] = NewDetection(k)
  BY DEF Inv, Runs, Pending
<1>4. ASSUME NEW k \in Keys, NEW b
      PROVE  /\ [NewDetection(k) EXCEPT !.raced = b].key = k /\ NewDetection(k).key = k
             /\ [NewDetection(k) EXCEPT !.raced = b].status = "queued"
             /\ [NewDetection(k) EXCEPT !.raced = b].incident = 0
  BY DEF NewDetection
<1>5. ASSUME NEW d \in DOMAIN det', d \notin DOMAIN det
      PROVE  \E i \in DOMAIN tx[e].rows, k \in Keys :
               d = Len(det) + i /\ tx[e].rows[i] = NewDetection(k) /\ tx[e].rows[i].key = k
               /\ det'[d] = [NewDetection(k) EXCEPT !.raced = e \in overlapped] /\ det'[d].key = k
               /\ det'[d].status = "queued" /\ det'[d].incident = 0
  <2> DEFINE i == d - Len(det)
  <2>1. i \in DOMAIN tx[e].rows /\ d = Len(det) + i
    BY <1>2, <1>5
  <2> HIDE DEF i
  <2>2. det'[d] = Opened(e, i)
    BY <1>0, <1>2, <2>1
  <2>3. PICK k \in Keys : tx[e].rows[i] = NewDetection(k)
    BY <1>3, <2>1
  <2>4. det'[d] = [NewDetection(k) EXCEPT !.raced = e \in overlapped]
    BY <2>2, <2>3 DEF Opened
  <2> QED
    BY <1>4, <2>1, <2>3, <2>4
<1> QED
  BY <1>2, <1>5 DEF NewRows

\* A commit changes no status and no incident.
LEMMA MatchedCommit == ASSUME Inv, Matched, NEW e \in Engines, CommitRun(e) PROVE Matched'
<1>0. /\ e \in Sessions /\ e \notin Operators /\ Others(e) /\ incident' = incident
      /\ \A d \in DOMAIN det : det'[d].status = det[d].status /\ det'[d].incident = det[d].incident
  BY SessionsAssumption, CommitFact DEF Sessions, Ends
<1>2. DOMAIN det \subseteq DOMAIN det'
  BY NewRowsFact DEF NewRows
<1>3. \A d \in DOMAIN det' \ DOMAIN det : det'[d].status = "queued" /\ det'[d].incident = 0
  BY NewRowsFact DEF NewRows
<1>4. Numbered'
  <2>1. \A u \in Operators : tx'[u] = tx[u]
    BY <1>0 DEF Others, Sessions
  <2> QED
    BY <1>0, <2>1 DEF Matched, Numbered
<1>5. Ranges'
  BY <1>0, <1>2, <1>3 DEF Matched, Ranges
<1>6. \A n \in DOMAIN incident : det'[incident[n]].incident = n
  BY <1>0 DEF Matched, Ranges, IncidentsMatch
<1>7. \A d \in DOMAIN det' : /\ (det'[d].status = "promoted") = (det'[d].incident # 0)
                             /\ det'[d].incident # 0 => incident[det'[d].incident] = d
  <2> TAKE d \in DOMAIN det'
  <2>1. CASE d \in DOMAIN det
    BY <1>0, <2>1 DEF Matched, IncidentsMatch
  <2>2. CASE d \notin DOMAIN det
    BY <1>3, <2>2
  <2> QED
    BY <2>1, <2>2
<1> QED
  BY <1>0, <1>4, <1>5, <1>6, <1>7 DEF Matched, IncidentsMatch

-----------------------------------------------------------------------------
(* Every chain of merged detections ends at one that is not. *)
MergedOf == {d \in DOMAIN det : det[d].status = "merged"}
Ending == \A D \in SUBSET MergedOf : D # {} => \E d \in D : det[d].into \notin D

\* Where no row is merged, every chain ends as before.
LEMMA EndingKept ==
  ASSUME Ending, MergedOf' = MergedOf, \A d \in MergedOf : det'[d].into = det[d].into PROVE Ending'
  BY DEF Ending

\* A merge points at an active detection, so a chain through it ends there.
LEMMA EndingEdit ==
  ASSUME Inv, Ending, NEW s \in Operators, NEW d, NEW r, Rewrites(s, d, r), det[d].status # "merged",
         \/ r.status # "merged"
         \/ \E e \in tx[s].locks : e # d /\ det[e].status \in Active /\ r.into = e
  PROVE  Ending'
<1>0. /\ DOMAIN det' = DOMAIN det /\ det'[d] = r /\ d \in DOMAIN det
      /\ \A x \in DOMAIN det \ {d} : det'[x] = det[x]
  BY RewriteFact DEF Rewrites
<1>1. CASE r.status # "merged"
  <2>1. MergedOf' = MergedOf
    BY <1>0, <1>1 DEF MergedOf
  <2>2. \A x \in MergedOf : det'[x].into = det[x].into
    BY <1>0 DEF MergedOf
  <2> QED
    BY <2>1, <2>2, EndingKept
<1>2. CASE \E e \in tx[s].locks : e # d /\ det[e].status \in Active /\ r.into = e
  <2>1. PICK e \in tx[s].locks : e # d /\ det[e].status \in Active /\ r.into = e
    BY <1>2
  <2>2. e \in DOMAIN det /\ e \notin MergedOf'
    BY <1>0, <2>1, SeenTrue DEF MergedOf, Active
  <2> SUFFICES ASSUME NEW D \in SUBSET (MergedOf'), D # {} PROVE \E x \in D : det'[x].into \notin D
    BY DEF Ending
  <2>3. CASE d \in D
    BY <1>0, <2>1, <2>2, <2>3
  <2>4. CASE d \notin D
    <3>1. D \in SUBSET MergedOf
      BY <1>0, <2>4 DEF MergedOf
    <3>2. PICK x \in D : det[x].into \notin D
      BY <3>1 DEF Ending
    <3>3. det'[x] = det[x]
      BY <1>0, <2>4, <3>1 DEF MergedOf
    <3> QED
      BY <3>2, <3>3
  <2> QED
    BY <2>3, <2>4
<1> QED
  BY <1>1, <1>2

\* A commit merges nothing.
LEMMA EndingCommit == ASSUME Inv, Ending, NEW e \in Engines, CommitRun(e) PROVE Ending'
<1>0. \A d \in DOMAIN det : det'[d].status = det[d].status /\ det'[d].into = det[d].into
  BY CommitFact
<1>2. NewRows(e)
  BY NewRowsFact
<1>3. MergedOf' = MergedOf
  BY <1>0, <1>2 DEF MergedOf, NewRows
<1> QED
  BY <1>0, <1>3, EndingKept DEF MergedOf

(* Two requests that wait hold one row each, and the lower-numbered cannot be waited for by the other. *)
LEMMA NoMutualWait ==
  ASSUME Inv, NEW s \in Operators, NEW u \in Operators, s # u
  PROVE  ~ (Wants(s) \intersect tx[u].locks # {} /\ Wants(u) \intersect tx[s].locks # {})
<1> SUFFICES ASSUME Wants(s) \intersect tx[u].locks # {}, Wants(u) \intersect tx[s].locks # {} PROVE FALSE
  OBVIOUS
<1>1. s \notin Engines /\ u \notin Engines
  BY SessionsAssumption
<1>2. /\ tx[s].step = "locked" /\ \A y \in Wants(s) : \E x \in tx[s].locks : x < y
      /\ tx[u].step = "locked" /\ \A y \in Wants(u) : \E x \in tx[u].locks : x < y
  BY <1>1 DEF Wants, InOrder
<1>3. PICK a \in tx[s].locks : tx[s].locks = {a}
  BY <1>2 DEF Inv, Known, Knows
<1>4. PICK b \in tx[u].locks : tx[u].locks = {b}
  BY <1>2 DEF Inv, Known, Knows
<1>5. a \in Nat /\ b \in Nat
  BY SeenTrue
<1>6. a < b /\ b < a
  BY <1>2, <1>3, <1>4
<1> QED
  BY <1>5, <1>6

\* So merges do not wait for each other and make no circle.
LEMMA MergesFollow == ASSUME Inv, Ending PROVE MergesEnd
  BY NoMutualWait DEF MergesEnd, Ending, MergedOf

-----------------------------------------------------------------------------
(* What a key's older detections are when it has a newer one, or is getting one.  A        *)
(* detection stands that no operator brought back and no run that overlapped another's.   *)
Standing(d) == det[d].status \in Active /\ det[d].held /\ ~det[d].reopened /\ ~det[d].raced
NoneStands(k) == \A d \in DOMAIN det : det[d].key = k => ~Standing(d)
Replacing(e) ==
  /\ tx[e].step = "open" => NoneStands(tx[e].at)
  /\ \A i \in DOMAIN tx[e].rows : NoneStands(tx[e].rows[i].key) /\ tx[e].rows[i].key < tx[e].at
  /\ \A i, j \in DOMAIN tx[e].rows : i # j => tx[e].rows[i].key # tx[e].rows[j].key
  /\ tx[e].step # "idle" /\ e \notin overlapped => \A d \in tx[e].repeated : det[d].held
Older == \A d, x \in DOMAIN det : d < x /\ det[d].key = det[x].key => ~Standing(d)
Replaced == Older /\ \A e \in Engines : Replacing(e)

(* Two runs at work at once have both overlapped. *)
Races == /\ overlapped \subseteq Engines
         /\ \A e, f \in Engines : e # f /\ tx[e].step # "idle" /\ tx[f].step # "idle" => e \in overlapped

\* Of two open detections of a key the older was reopened, or of a run that overlapped.
LEMMA OneFollows == ASSUME Inv, Older PROVE OneOpenDetection
<1> SUFFICES ASSUME NEW d \in DOMAIN det, NEW e \in DOMAIN det,
                    d # e, det[d].key = det[e].key, det[d].held, det[e].held,
                    det[d].status \in Active, det[e].status \in Active
             PROVE  \E x \in {d, e} : det[x].reopened \/ det[x].raced
  BY DEF OneOpenDetection
<1>1. d \in Nat /\ e \in Nat
  BY RowType DEF Inv
<1>2. d < e \/ e < d
  BY <1>1
<1> QED
  BY <1>2 DEF Older, Standing

(* A request lets no detection stand that did not. *)
LEMMA ReplacedRequest ==
  ASSUME Inv, Replaced, DOMAIN det' = DOMAIN det,
         \A d \in DOMAIN det : det'[d].key = det[d].key /\ det'[d].held = det[d].held /\ (Standing(d)' => Standing(d)),
         \A e \in Engines : tx'[e] = tx[e] /\ (e \in overlapped => e \in overlapped')
  PROVE  Replaced'
<1>1. Older'
  BY DEF Replaced, Older
<1>2. \A k : NoneStands(k) => NoneStands(k)'
  BY DEF NoneStands
<1>3. ASSUME NEW e \in Engines PROVE Replacing(e)'
  <2>1. /\ Replacing(e) /\ tx'[e] = tx[e] /\ tx[e].repeated \subseteq DOMAIN det
        /\ e \in overlapped => e \in overlapped'
    BY DEF Replaced, Inv, Runs, Pending
  <2> QED
    BY <1>2, <2>1 DEF Replacing
<1> QED
  BY <1>1, <1>3 DEF Replaced

\* A request that writes leaves the older detections of a key reopened or not standing.
LEMMA ReplacedRewrite ==
  ASSUME Inv, Replaced, NEW s \in Operators, NEW d, NEW r, Rewrites(s, d, r), overlapped' = overlapped,
         r.status \in Active => r.reopened \/ (det[d].status \in Active /\ r.reopened = det[d].reopened)
  PROVE  Replaced'
<1>1. /\ DOMAIN det' = DOMAIN det /\ det'[d] = r /\ d \in DOMAIN det
      /\ \A x \in DOMAIN det \ {d} : det'[x] = det[x]
      /\ r.key = det[d].key /\ r.held = det[d].held /\ r.raced = det[d].raced
  BY RewriteFact DEF Rewrites
<1>2. \A x \in DOMAIN det : det'[x].key = det[x].key /\ det'[x].held = det[x].held /\ (Standing(x)' => Standing(x))
  <2> TAKE x \in DOMAIN det
  <2>1. CASE x = d
    BY <1>1, <2>1 DEF Standing
  <2>2. CASE x # d
    BY <1>1, <2>2 DEF Standing
  <2> QED
    BY <2>1, <2>2
<1>3. \A e \in Engines : tx'[e] = tx[e]
  BY SessionsAssumption DEF Rewrites, Ends, Others, Sessions
<1> QED
  BY <1>1, <1>2, <1>3, ReplacedRequest

\* Rows keep their key.
LEMMA RowKeys ==
  ASSUME Inv, NEW e \in Engines, NEW i \in DOMAIN tx[e].rows
  PROVE  tx[e].rows[i].key \in Keys /\ tx[e].rows[i].key \in Nat
<1>1. PICK k \in Keys : tx[e].rows[i] = NewDetection(k)
  BY DEF Inv, Runs, Pending
<1> QED
  BY <1>1, KeysAssumption DEF NewDetection

(* A run's steps but the commit change no detection, and no other run. *)
LEMMA ReplacedQuiet ==
  ASSUME Inv, Replaced, NEW e \in Engines, det' = det, Others(e), Replacing(e)',
         \A f \in Engines \ {e} : f \in overlapped => f \in overlapped'
  PROVE  Replaced'
<1>1. ASSUME NEW f \in Engines, f # e PROVE Replacing(f)'
  <2>1. Replacing(f) /\ tx'[f] = tx[f] /\ (f \in overlapped => f \in overlapped')
    BY <1>1 DEF Replaced, Others, Sessions
  <2> QED
    BY <2>1 DEF Replacing, NoneStands, Standing
<1> QED
  BY <1>1 DEF Replaced, Older, Standing

\* A key's newest detection is found ended, or held and noted, or the key gets one.
LEMMA ReplacedLook ==
  ASSUME Inv, Replaced, overlapped' = overlapped, NEW e \in Engines, Look(e) \/ SkipSensor(e)
  PROVE  Replaced'
<1> DEFINE k == tx[e].at
           d == FindOpenDetection(k)
<1>0. Types /\ e \in Sessions /\ tx[e] \in Tx /\ Replacing(e) /\ k \in Nat
  BY DEF Inv, Sessions, Types, TxInv, Replaced, Tx
<1>a. tx[e].step = "look"
  BY DEF Look, SkipSensor
<1>1. /\ k \in Keys /\ det' = det
      /\ \/ Noted(e, tx[e].recovered, tx[e].repeated)
         \/ /\ d \in DOMAIN det /\ det[d].held
            /\ \/ Noted(e, tx[e].recovered \union {d}, tx[e].repeated)
               \/ Noted(e, tx[e].recovered, tx[e].repeated \union {d})
         \/ /\ d # 0 => d \in DOMAIN det /\ ~det[d].held
            /\ Others(e) /\ tx'[e].step = "open" /\ tx'[e].at = k
            /\ tx'[e].rows = tx[e].rows /\ tx'[e].repeated = tx[e].repeated
  BY <1>0, LookFact DEF Unpublished
<1>2. /\ FindAny(k) = {} => d = 0
      /\ FindAny(k) # {} => d \in FindAny(k) /\ \A x \in FindAny(k) : x <= d
  BY <1>0, <1>1, NewestFound
<1>3. (d # 0 => d \in DOMAIN det /\ ~det[d].held) => NoneStands(k)
  <2> SUFFICES ASSUME d # 0 => d \in DOMAIN det /\ ~det[d].held,
                      NEW x \in DOMAIN det, det[x].key = k, Standing(x)
               PROVE  FALSE
    BY DEF NoneStands
  <2>1. x \in FindAny(k)
    BY DEF FindAny, Standing
  <2>2. d \in FindAny(k) /\ x <= d
    BY <1>2, <2>1
  <2>3. d \in DOMAIN det /\ det[d].key = k
    BY <2>2 DEF FindAny
  <2>4. x \in Nat /\ d \in Nat /\ d # 0
    <3>1. det \in Seq(DetectionRow)
      BY DEF Inv, Types
    <3> HIDE DEF d
    <3> QED
      BY <2>3, <3>1
  <2>5. x # d
    BY <2>4 DEF Standing
  <2> HIDE DEF d
  <2>6. x < d
    BY <2>2, <2>4, <2>5
  <2> QED
    BY <2>3, <2>6 DEF Replaced, Older
<1>4. \A i \in DOMAIN tx[e].rows : tx[e].rows[i].key < k + 1
  BY <1>0, RowKeys DEF Replacing
<1> HIDE DEF d
<1>5. Others(e)
  BY <1>1 DEF Noted
<1>6. Replacing(e)'
  <2>1. CASE tx'[e].step = "open" /\ tx'[e].at = k /\ tx'[e].rows = tx[e].rows /\ tx'[e].repeated = tx[e].repeated
             /\ NoneStands(k)
    BY <1>0, <1>1, <1>a, <2>1 DEF Replacing, NoneStands, Standing
  <2>2. CASE /\ tx'[e].step = "look" /\ tx'[e].at = k + 1 /\ tx'[e].rows = tx[e].rows
             /\ e \notin overlapped => \A x \in tx'[e].repeated : det[x].held
    BY <1>0, <1>1, <1>4, <2>2 DEF Replacing, NoneStands, Standing
  <2>3. e \notin overlapped => \A x \in tx[e].repeated : det[x].held
    BY <1>0, <1>a DEF Replacing
  <2> QED
    BY <1>1, <1>3, <2>1, <2>2, <2>3 DEF Noted
<1> QED
  BY <1>0, <1>1, <1>5, <1>6, ReplacedQuiet

\* A run opens a detection only where the key's others do not stand.
LEMMA ReplacedPersist == ASSUME Inv, Replaced, overlapped' = overlapped, NEW e \in Engines, Persist(e) PROVE Replaced'
<1> DEFINE k == tx[e].at
           new == NewDetection(k)
<1>0. Types /\ e \in Sessions /\ tx[e] \in Tx /\ Replacing(e) /\ k \in Nat
  BY DEF Inv, Sessions, Types, TxInv, Replaced, Tx
<1>1. /\ tx[e].step = "open" /\ k \in Keys /\ det' = det
      /\ tx'[e].step = "look" /\ tx'[e].at = k + 1
      /\ tx'[e].rows = Append(tx[e].rows, new)
      /\ tx'[e].repeated = tx[e].repeated /\ Others(e)
  BY <1>0, PersistFact DEF Unpublished
<1>2. tx[e].rows \in Seq(DetectionRow) /\ new.key = k /\ new \in DetectionRow
  BY <1>0, <1>1, NewType DEF Tx, NewDetection
<1> HIDE DEF new
<1>3. /\ Len(tx[e].rows) \in Nat /\ DOMAIN tx[e].rows = 1..Len(tx[e].rows)
      /\ DOMAIN tx'[e].rows = 1..(Len(tx[e].rows) + 1)
      /\ \A i \in DOMAIN tx[e].rows : tx'[e].rows[i] = tx[e].rows[i]
      /\ tx'[e].rows[Len(tx[e].rows) + 1] = new
  BY <1>1, <1>2
<1>4. \A i \in DOMAIN tx'[e].rows : i \in DOMAIN tx[e].rows \/ i = Len(tx[e].rows) + 1
  BY <1>3
<1>5. NoneStands(k)
  BY <1>0, <1>1 DEF Replacing
<1>6. \A i \in DOMAIN tx[e].rows : /\ tx[e].rows[i].key \in Nat /\ tx[e].rows[i].key < k
                                   /\ NoneStands(tx[e].rows[i].key)
  BY <1>0, RowKeys DEF Replacing
<1>7. \A i \in DOMAIN tx'[e].rows :
        \/ /\ i \in DOMAIN tx[e].rows /\ tx'[e].rows[i].key = tx[e].rows[i].key
           /\ tx'[e].rows[i].key \in Nat /\ tx'[e].rows[i].key < k
        \/ i = Len(tx[e].rows) + 1 /\ tx'[e].rows[i].key = k
  BY <1>2, <1>3, <1>4, <1>6
<1>8. ASSUME NEW i \in DOMAIN tx'[e].rows
      PROVE  NoneStands(tx'[e].rows[i].key) /\ tx'[e].rows[i].key < k + 1
  <2>1. CASE i \in DOMAIN tx[e].rows /\ tx'[e].rows[i].key = tx[e].rows[i].key /\ tx'[e].rows[i].key \in Nat /\ tx'[e].rows[i].key < k
    <3>1. NoneStands(tx'[e].rows[i].key)
      BY <1>6, <2>1
    <3> DEFINE q == tx'[e].rows[i].key
    <3>2. q \in Nat /\ q < k
      BY <2>1
    <3> HIDE DEF q, k
    <3>3. q < k + 1
      BY <1>0, <3>2
    <3> QED
      BY <3>1, <3>3 DEF q
  <2>2. CASE tx'[e].rows[i].key = k
    <3>1. k < k + 1
      BY <1>0
    <3> QED
      BY <1>5, <2>2, <3>1
  <2> QED
    BY <1>7, <2>1, <2>2
<1>9. ASSUME NEW i \in DOMAIN tx'[e].rows, NEW j \in DOMAIN tx'[e].rows, i # j
      PROVE  tx'[e].rows[i].key # tx'[e].rows[j].key
  <2>1. CASE i \in DOMAIN tx[e].rows /\ j \in DOMAIN tx[e].rows
    BY <1>0, <1>3, <1>9, <2>1 DEF Replacing
  <2>2. CASE i \notin DOMAIN tx[e].rows
    <3>1. i = Len(tx[e].rows) + 1 /\ tx'[e].rows[i].key = k
      BY <1>7, <2>2
    <3>2. tx'[e].rows[j].key \in Nat /\ tx'[e].rows[j].key < k
      BY <1>7, <1>9, <3>1
    <3> HIDE DEF k
    <3> QED
      BY <1>0, <3>1, <3>2
  <2>3. CASE j \notin DOMAIN tx[e].rows
    <3>1. j = Len(tx[e].rows) + 1 /\ tx'[e].rows[j].key = k
      BY <1>7, <2>3
    <3>2. tx'[e].rows[i].key \in Nat /\ tx'[e].rows[i].key < k
      BY <1>7, <1>9, <3>1
    <3> HIDE DEF k
    <3> QED
      BY <1>0, <3>1, <3>2
  <2> QED
    BY <2>1, <2>2, <2>3
<1>10. Replacing(e)'
  BY <1>0, <1>1, <1>8, <1>9 DEF Replacing, NoneStands, Standing
<1> QED
  BY <1>1, <1>10, ReplacedQuiet

\* Unpublished steps of a run keep that.
LEMMA ReplacedRun ==
  ASSUME Inv, Replaced, NEW e \in Engines,
         StartRun(e) \/ (Works(e) /\ overlapped' = overlapped) \/ Fail(e)
  PROVE  Replaced'
<1>0. Types /\ e \in Sessions /\ Replacing(e)
  BY DEF Inv, Sessions, Replaced
<1>1. CASE StartRun(e)
  <2>1. /\ det' = det /\ tx'[e].step = "look" /\ tx'[e].rows = << >> /\ tx'[e].repeated = {}
        /\ Others(e)
    BY <1>0, <1>1, StartRunFact DEF Unpublished
  <2>2. Replacing(e)'
    BY <2>1 DEF Replacing
  <2>3. \A f \in Engines : f \in overlapped => f \in overlapped'
    BY <1>1 DEF StartRun
  <2> QED
    BY <2>1, <2>2, <2>3, ReplacedQuiet
<1>2. CASE FlushRow(e) /\ overlapped' = overlapped
  <2>1. Dirty(e) \subseteq DOMAIN det
    BY DEF Dirty, Inv, Runs, Pending
  <2>2. /\ det' = det /\ tx'[e].step = tx[e].step /\ tx'[e].at = tx[e].at /\ tx'[e].rows = tx[e].rows
        /\ tx'[e].repeated = tx[e].repeated /\ Others(e)
    BY <1>0, <1>2, <2>1, FlushFact DEF Unpublished
  <2>3. Replacing(e)'
    BY <1>0, <1>2, <2>2 DEF Replacing, NoneStands, Standing
  <2> QED
    BY <1>2, <2>2, <2>3, ReplacedQuiet
<1>3. CASE Fail(e)
  <2>1. Goes(e, Idle) /\ det' = det /\ overlapped' = overlapped \ {e}
    BY <1>3 DEF Fail, Unpublished, Finishes
  <2>2. tx'[e] = Idle /\ Others(e)
    BY <1>0, <2>1, GoesIdle DEF Ends
  <2>3. Replacing(e)'
    BY <2>2, IdleType DEF Replacing
  <2> QED
    BY <2>1, <2>2, <2>3, ReplacedQuiet
<1> QED
  BY <1>1, <1>2, <1>3, ReplacedLook, ReplacedPersist DEF Works

\* So does its commit: it holds again only what had been found held, and what it opens
\* while another run is at work does not stand.
LEMMA ReplacedCommit == ASSUME Inv, Races, Replaced, NEW e \in Engines, CommitRun(e) PROVE Replaced'
<1>0. Types /\ e \in Sessions /\ Replacing(e) /\ tx[e].rows \in Seq(DetectionRow) /\ Len(det) \in Nat
      /\ DOMAIN det = 1..Len(det)
  BY DEF Inv, Sessions, Replaced, Types, TxInv, Tx
<1>1. /\ tx'[e] = Idle /\ Others(e) /\ tx[e].step = "look" /\ overlapped' = overlapped \ {e}
      /\ \A d \in DOMAIN det :
           /\ det'[d].key = det[d].key /\ det'[d].status = det[d].status /\ det'[d].reopened = det[d].reopened
           /\ d \in tx[e].recovered => ~det'[d].held
           /\ d \in tx[e].repeated \ tx[e].recovered =>
                det'[d].raced = (det[d].raced \/ (~det[d].held /\ e \in overlapped))
           /\ d \notin tx[e].recovered \union tx[e].repeated => det'[d] = det[d]
  BY CommitFact DEF Ends, Finishes
<1>2. \A d \in DOMAIN det : Standing(d)' => Standing(d)
  <2> TAKE d \in DOMAIN det
  <2>1. CASE d \in tx[e].recovered
    BY <1>1, <2>1 DEF Standing
  <2>2. CASE d \in tx[e].repeated \ tx[e].recovered
    <3>1. det[d].held \/ e \in overlapped
      BY <1>0, <1>1, <2>2 DEF Replacing
    <3>2. det'[d].raced = (det[d].raced \/ (~det[d].held /\ e \in overlapped))
      BY <1>1, <2>2
    <3> QED
      BY <1>1, <3>1, <3>2 DEF Standing
  <2>3. CASE d \notin tx[e].recovered \union tx[e].repeated
    BY <1>1, <2>3 DEF Standing
  <2> QED
    BY <2>1, <2>2, <2>3
<1>3. NewRows(e)
  BY NewRowsFact
<1>4. Older'
  <2> SUFFICES ASSUME NEW d \in DOMAIN det', NEW x \in DOMAIN det', d < x, det'[d].key = det'[x].key
               PROVE  ~Standing(d)'
    BY DEF Older
  <2>1. CASE d \in DOMAIN det /\ x \in DOMAIN det
    <3>1. det[d].key = det[x].key
      BY <1>1, <2>1
    <3>2. ~Standing(d)
      BY <2>1, <3>1 DEF Replaced, Older
    <3> QED
      BY <1>2, <2>1, <3>2
  <2>2. CASE d \in DOMAIN det /\ x \notin DOMAIN det
    <3>1. PICK i \in DOMAIN tx[e].rows : det'[x].key = tx[e].rows[i].key
      BY <1>3, <2>2 DEF NewRows
    <3>2. NoneStands(tx[e].rows[i].key)
      BY <1>0 DEF Replacing
    <3>3. det[d].key = tx[e].rows[i].key
      BY <1>1, <2>2, <3>1
    <3> QED
      BY <1>2, <2>2, <3>2, <3>3 DEF NoneStands
  <2>3. CASE d \notin DOMAIN det
    <3>1. PICK i \in DOMAIN tx[e].rows : d = Len(det) + i /\ det'[d].key = tx[e].rows[i].key
      BY <1>3, <2>3 DEF NewRows
    <3>2. x \notin DOMAIN det
      BY <1>0, <3>1
    <3>3. PICK j \in DOMAIN tx[e].rows : x = Len(det) + j /\ det'[x].key = tx[e].rows[j].key
      BY <1>3, <3>2 DEF NewRows
    <3>4. i # j
      BY <1>0, <3>1, <3>3
    <3> QED
      BY <1>0, <3>1, <3>3, <3>4 DEF Replacing
  <2> QED
    BY <2>1, <2>2, <2>3
<1>5. Replacing(e)'
  BY <1>1, IdleType DEF Replacing
<1>6. ASSUME NEW f \in Engines, f # e PROVE Replacing(f)'
  <2>1. Replacing(f) /\ tx'[f] = tx[f]
    BY <1>1, <1>6 DEF Replaced, Others, Sessions
  <2>2. CASE tx[f].step = "idle"
    <3>1. tx[f].rows = << >>
      BY <2>2 DEF Inv, Runs, Pending
    <3> QED
      BY <2>1, <2>2, <3>1 DEF Replacing
  <2>3. CASE tx[f].step # "idle"
    <3>1. e \in overlapped /\ f \in overlapped'
      BY <1>1, <1>6, <2>3 DEF Races
    <3>2. \A d \in DOMAIN det' \ DOMAIN det : ~Standing(d)'
      <4> TAKE d \in DOMAIN det' \ DOMAIN det
      <4>1. PICK k \in Keys : det'[d] = [NewDetection(k) EXCEPT !.raced = e \in overlapped]
        BY <1>3 DEF NewRows
      <4>2. det'[d].raced
        BY <3>1, <4>1 DEF NewDetection
      <4> QED
        BY <4>2 DEF Standing
    <3>3. \A k : NoneStands(k) => NoneStands(k)'
      BY <1>1, <1>2, <3>2 DEF NoneStands
    <3> QED
      BY <2>1, <3>1, <3>3 DEF Replacing
  <2> QED
    BY <2>2, <2>3
<1> QED
  BY <1>4, <1>5, <1>6 DEF Replaced

-----------------------------------------------------------------------------
(* The steps, and the theorems. *)
Whole == Inv /\ Matched /\ Ending

\* The initial state satisfies all parts.
LEMMA WholeInit == ASSUME Init PROVE Whole /\ Races /\ Replaced
<1>1. det = << >> /\ incident = << >> /\ DOMAIN det = {} /\ DOMAIN incident = {} /\ Len(det) = 0 /\ Len(incident) = 0
  BY DEF Init
<1>2. \A s \in Sessions : tx[s] = Idle
  BY DEF Init
<1>3. tx \in [Sessions -> Tx]
  BY IdleType DEF Init
<1>4. DOMAIN Idle.seen = {} /\ Len(Idle.rows) = 0 /\ DOMAIN Idle.rows = {}
  BY IdleType DEF Idle
<1>5. Types
  BY <1>1, <1>2, <1>3, IdleType DEF Types, TxInv, Sessions
<1>6. Locks
  BY <1>2, IdleType DEF Locks
<1>7. Known
  BY <1>2, <1>4, IdleType DEF Known, Knows, Sessions
<1>8. Runs
  BY <1>1, <1>2, <1>4, IdleType, BoundsAssumption DEF Runs, Pending, Sessions
<1>9. Matched
  BY <1>1, <1>2, IdleType DEF Matched, Numbered, Ranges, IncidentsMatch, Sessions
<1>10. Ending
  BY <1>1 DEF Ending, MergedOf
<1>11. Replaced
  BY <1>1, <1>2, <1>4, IdleType DEF Replaced, Older, Replacing, Sessions
<1>12. Races
  BY <1>2, IdleType DEF Init, Races, Sessions
<1> QED
  BY <1>5, <1>6, <1>7, <1>8, <1>9, <1>10, <1>11, <1>12 DEF Whole, Inv

\* Unpublished steps keep the whole invariant.
LEMMA WholeUnpublished == ASSUME Whole, Unpublished, Inv', Matched' PROVE Whole'
  BY EndingKept DEF Whole, Unpublished, MergedOf

\* A step of a request keeps it.
LEMMA WholeRequest == ASSUME Whole, NEW s \in Operators, Request(s) \/ Fail(s) PROVE Whole'
<1>0. Inv /\ Matched /\ Ending /\ s \in Sessions /\ Types
  BY DEF Whole, Inv, Sessions
<1>1. CASE Lock(s) \/ LockOther(s) \/ AddNote(s) \/ TakeNumber(s) \/ Fail(s)
  <2>1. /\ Quiet(s) /\ tx'[s].step \in {"idle", "locked", "both", "numbered"} /\ tx'[s].rows = << >> /\ Knows(s)'
        /\ tx'[s].step = "numbered" => tx'[s].number = Len(incident) + 1 /\ Len(incident) < MaxIncidents
    BY <1>0, <1>1, RequestQuiet
  <2>2. Inv'
    BY <1>0, <2>1, RequestQuietInv
  <2>3. Matched'
    BY <1>0, <2>1, MatchedQuiet DEF Quiet
  <2> QED
    BY <2>1, <2>2, <2>3, WholeUnpublished DEF Quiet
<1>2. CASE StartReview(s) \/ Dismiss(s) \/ Reopen(s) \/ Merge(s)
  <2>1. PICK d \in tx[s].locks, r \in DetectionRow :
          /\ Rewrites(s, d, r) /\ r.incident = det[d].incident
          /\ det[d].status \in Active \union {"dismissed"} /\ r.status \in Active \union {"dismissed", "merged"}
          /\ r.status = "merged" => \E e \in tx[s].locks : e # d /\ det[e].status \in Active /\ r.into = e
    BY <1>0, <1>2, EditFact DEF Active
  <2>2. UNCHANGED incident
    BY <1>0, <1>2, EditFact
  <2>3. Inv'
    BY <1>0, <2>1, <2>2, RewriteInv DEF Inv, Types, Runs
  <2>4. det[d].status \notin {"promoted", "merged"} /\ r.status # "promoted"
    BY <2>1 DEF Active
  <2>5. Matched'
    BY <1>0, <2>1, <2>2, <2>4, MatchedEdit
  <2>6. Ending'
    BY <1>0, <2>1, <2>4, EndingEdit
  <2> QED
    BY <2>3, <2>5, <2>6 DEF Whole
<1>3. CASE Promote(s)
  <2>1. PICK d \in tx[s].locks, r \in DetectionRow :
           /\ Rewrites(s, d, r) /\ det[d].status = "under_review" /\ r.status = "promoted"
           /\ r.incident = Len(incident) + 1 /\ Len(incident) + 1 <= MaxIncidents
           /\ incident' \in Seq(1..MaxRows) /\ Len(incident') = Len(incident) + 1
           /\ incident'[Len(incident) + 1] = d /\ \A m \in DOMAIN incident : incident'[m] = incident[m]
    BY <1>0, <1>3, PromoteFact DEF Matched
  <2>2. Inv'
    BY <1>0, <2>1, RewriteInv
  <2>3. Matched'
    BY <1>0, <2>1, MatchedPromote
  <2>4. Ending'
    BY <1>0, <2>1, EndingEdit
  <2> QED
    BY <2>2, <2>3, <2>4 DEF Whole
<1> QED
  BY <1>1, <1>2, <1>3 DEF Request

\* A step of a run keeps it.
LEMMA WholeRun == ASSUME Whole, NEW e \in Engines, Run(e) \/ Fail(e) PROVE Whole'
<1>0. Inv /\ Matched /\ Ending /\ e \in Sessions /\ e \notin Operators /\ Types
  BY SessionsAssumption DEF Whole, Inv, Sessions
<1>1. CASE CommitRun(e)
  BY <1>0, <1>1, CommitInv, MatchedCommit, EndingCommit DEF Whole
<1>2. CASE StartRun(e) \/ Look(e) \/ SkipSensor(e) \/ FlushRow(e) \/ Persist(e) \/ Fail(e)
  <2>1. /\ Quiet(e) /\ tx'[e].step \in {"idle", "look", "open"}
        /\ tx'[e].step = "open" => tx'[e].at \in Keys
        /\ Remembers(e)
    BY <1>0, <1>2, RunQuiet
  <2>2. Inv'
    BY <1>0, <2>1, RunQuietInv
  <2>3. Matched'
    BY <1>0, <2>1, MatchedQuiet DEF Quiet
  <2> QED
    BY <2>1, <2>2, <2>3, WholeUnpublished DEF Quiet
<1> QED
  BY <1>1, <1>2 DEF Run, Works

\* Every step keeps it.
LEMMA WholeNext == ASSUME Whole, [Next]_vars PROVE Whole'
<1>1. CASE UNCHANGED vars
  BY <1>1 DEF vars, Whole, Inv, Types, TxInv, Locks, Known, Knows, Runs, Pending, Matched, Numbered, Ranges,
              IncidentsMatch, Ending, MergedOf
<1> QED
  BY <1>1, NextSplit, WholeRequest, WholeRun

\* A request's step is one of its session's record.
LEMMA RequestGoes == ASSUME NEW s \in Operators, Request(s) PROVE \E r : Goes(s, r)
  BY DEF Request, Lock, LockOther, StartReview, AddNote, Dismiss, Reopen, Merge, TakeNumber, Promote, Edit

\* Whoever starts beside a run at work overlaps with it, and so does that run.
LEMMA RacesNext == ASSUME Whole, Races, [Next]_vars PROVE Races'
<1>0. Types /\ tx \in [Sessions -> Tx] /\ Engines \subseteq Sessions /\ Operators \subseteq Sessions
  BY DEF Whole, Inv, Types, TxInv, Sessions
<1>1. CASE UNCHANGED vars
  BY <1>1 DEF vars, Races
<1>2. ASSUME NEW s \in Operators, Request(s), overlapped' = overlapped PROVE Races'
  <2>1. \A u \in Sessions \ {s} : tx'[u] = tx[u]
    BY <1>0, <1>2, RequestGoes, OthersSame
  <2>2. \A e \in Engines : tx'[e] = tx[e]
    BY <1>0, <2>1, SessionsAssumption
  <2> QED
    BY <1>2, <2>2 DEF Races
<1>3. ASSUME NEW e \in Engines, Works(e), overlapped' = overlapped PROVE Races'
  <2>1. tx[e].step # "idle" /\ \E r : Goes(e, r)
    BY <1>3 DEF Works, Look, SkipSensor, FlushRow, AtFlush, Persist
  <2>2. \A u \in Engines \ {e} : tx'[u] = tx[u]
    BY <1>0, <2>1, OthersSame
  <2> QED
    BY <1>3, <2>1, <2>2 DEF Races
<1>4. ASSUME NEW e \in Engines, StartRun(e) PROVE Races'
  <2>1. \A u \in Engines \ {e} : tx'[u] = tx[u]
    BY <1>0, <1>4, OthersSame DEF StartRun
  <2>2. tx[e].step = "idle"
    BY <1>4 DEF StartRun
  <2>3. overlapped' = IF Running = {} THEN overlapped ELSE overlapped \union Running \union {e}
    BY <1>4 DEF StartRun
  <2>4. ASSUME NEW f \in Engines, NEW u \in Engines, f # u, tx'[f].step # "idle", tx'[u].step # "idle"
        PROVE  f \in overlapped'
    <3>1. CASE f = e
      BY <2>1, <2>3, <2>4, <3>1 DEF Running
    <3>2. CASE f # e
      BY <2>1, <2>3, <2>4, <3>2 DEF Running
    <3> QED
      BY <3>1, <3>2
  <2>5. overlapped' \subseteq Engines
    BY <2>3 DEF Races, Running
  <2> QED
    BY <2>4, <2>5 DEF Races
<1>5. ASSUME NEW s \in Sessions, CommitRun(s) \/ Fail(s) PROVE Races'
  <2>1. Goes(s, Idle) /\ overlapped' = overlapped \ {s}
    BY <1>5 DEF CommitRun, Fail, Finishes
  <2>2. tx'[s] = Idle /\ \A u \in Sessions \ {s} : tx'[u] = tx[u]
    BY <1>0, <2>1, GoesIdle, OthersSame DEF Ends
  <2>3. \A f \in Engines : tx'[f].step # "idle" => f # s /\ tx'[f] = tx[f]
    BY <1>0, <2>2, IdleType
  <2> QED
    BY <2>1, <2>3 DEF Races
<1> QED
  BY <1>0, <1>1, <1>2, <1>3, <1>4, <1>5 DEF Next

\* Both always hold.
LEMMA WholeAlways == Spec => [](Whole /\ Races)
<1>1. Init => Whole /\ Races
  BY WholeInit
<1>2. Whole /\ Races /\ [Next]_vars => (Whole /\ Races)'
  BY WholeNext, RacesNext
<1> QED
  BY <1>1, <1>2, PTL DEF Spec

\* Rows, incident numbers and locks stay of their types and bounds: a run's updates are of
\* rows that are still there at its commit (engine.py, run).
THEOREM TypeCorrect == Spec => []TypeOK
<1>1. Whole /\ Races => TypeOK
  BY DEF Races, Whole, Inv, Types, Locks, Runs, Pending, TypeOK
<1> QED
  BY <1>1, WholeAlways, PTL

\* An incident made by a promotion and its detection name each other, however many
\* promotions read the same highest number (investigation.py, promote): the unique number
\* decides.
THEOREM PromotionsMatch == Spec => []IncidentsMatch
<1>1. Whole => IncidentsMatch
  BY DEF Whole, Matched
<1> QED
  BY <1>1, WholeAlways, PTL

\* No two requests wait for each other's rows, and merges make no circle: a merge locks its
\* two detections in the order of their numbers and decides on what it then reads
\* (investigation.py, merge).
THEOREM MergesOrdered == Spec => []MergesEnd
<1>1. Whole => MergesEnd
  BY MergesFollow DEF Whole
<1> QED
  BY <1>1, WholeAlways, PTL

-----------------------------------------------------------------------------
\* Every step keeps what the invariant says of replaced detections.
LEMMA ReplacedNext == ASSUME Whole, Races, Replaced, [Next]_vars PROVE Replaced'
<1>0. Inv /\ Matched
  BY DEF Whole
<1>1. CASE UNCHANGED vars
  BY <1>1 DEF vars, Replaced, Older, Replacing, NoneStands, Standing
<1>2. ASSUME NEW s \in Operators, (Request(s) /\ overlapped' = overlapped) \/ Fail(s) PROVE Replaced'
  <2>1. CASE Lock(s) \/ LockOther(s) \/ AddNote(s) \/ TakeNumber(s) \/ Fail(s)
    <3>1. Quiet(s)
      BY <1>0, <2>1, RequestQuiet
    <3>2. \A e \in Engines : tx'[e] = tx[e]
      BY <3>1, SessionsAssumption DEF Quiet, Others, Sessions
    <3>3. det' = det
      BY <3>1 DEF Quiet, Unpublished
    <3>4. \A e \in Engines : e \in overlapped => e \in overlapped'
      BY <1>2, SessionsAssumption DEF Fail, Finishes
    <3> QED
      BY <1>0, <3>2, <3>3, <3>4, ReplacedRequest DEF Standing
  <2>2. CASE (StartReview(s) \/ Dismiss(s) \/ Reopen(s) \/ Merge(s)) /\ overlapped' = overlapped
    <3>1. PICK d \in tx[s].locks, r \in DetectionRow :
            /\ Rewrites(s, d, r)
            /\ r.status \in Active => r.reopened \/ (det[d].status \in Active /\ r.reopened = det[d].reopened)
      BY <1>0, <2>2, EditFact DEF Active
    <3> QED
      BY <1>0, <2>2, <3>1, ReplacedRewrite
  <2>3. CASE Promote(s) /\ overlapped' = overlapped
    <3>1. PICK d \in tx[s].locks, r \in DetectionRow : Rewrites(s, d, r) /\ r.status = "promoted"
      BY <1>0, <2>3, PromoteFact DEF Matched
    <3>2. r.status \notin Active
      BY <3>1 DEF Active
    <3> QED
      BY <1>0, <2>3, <3>1, <3>2, ReplacedRewrite
  <2> QED
    BY <1>2, <2>1, <2>2, <2>3 DEF Request
<1>3. ASSUME NEW e \in Engines,
             StartRun(e) \/ (Works(e) /\ overlapped' = overlapped) \/ CommitRun(e) \/ Fail(e)
      PROVE  Replaced'
  BY <1>0, <1>3, ReplacedRun, ReplacedCommit
<1> QED
  BY <1>1, <1>2, <1>3 DEF Next, Sessions

\* Every step changes statuses and conditions as allowed.
LEMMA AllowedNext ==
  ASSUME Whole, Races, Replaced, [Next]_vars, NEW d \in DOMAIN det
  PROVE  /\ det'[d].status # det[d].status => <<det[d].status, det'[d].status>> \in Allowed
         /\ ~det[d].held => ~det'[d].held \/ det'[d].raced
<1>0. Inv /\ Matched
  BY DEF Whole
<1>1. CASE UNCHANGED det
  BY <1>1
<1>2. ASSUME NEW s \in Operators, StartReview(s) \/ Dismiss(s) \/ Reopen(s) \/ Merge(s)
      PROVE  /\ det'[d].status # det[d].status => <<det[d].status, det'[d].status>> \in Allowed
             /\ ~det[d].held => ~det'[d].held \/ det'[d].raced
  <2>1. PICK x \in tx[s].locks, r \in DetectionRow :
          /\ Rewrites(s, x, r)
          /\ \/ det[x].status \in Active /\ r.status \in {"under_review", "dismissed", "merged"}
             \/ det[x].status = "dismissed" /\ r.status = "queued"
    BY <1>0, <1>2, EditFact
  <2>2. /\ x \in DOMAIN det /\ det'[x] = r /\ r.held = det[x].held
        /\ \A y \in DOMAIN det \ {x} : det'[y] = det[y]
    BY <1>0, <2>1, RewriteFact DEF Rewrites
  <2>3. r.status # det[x].status => <<det[x].status, r.status>> \in Allowed
    BY <2>1 DEF Allowed, Active
  <2> QED
    BY <2>2, <2>3
<1>3. ASSUME NEW s \in Operators, Promote(s)
      PROVE  /\ det'[d].status # det[d].status => <<det[d].status, det'[d].status>> \in Allowed
             /\ ~det[d].held => ~det'[d].held \/ det'[d].raced
  <2>1. PICK x \in tx[s].locks, r \in DetectionRow :
          Rewrites(s, x, r) /\ det[x].status = "under_review" /\ r.status = "promoted"
    BY <1>0, <1>3, PromoteFact DEF Matched
  <2>2. /\ x \in DOMAIN det /\ det'[x] = r /\ r.held = det[x].held
        /\ \A y \in DOMAIN det \ {x} : det'[y] = det[y]
    BY <1>0, <2>1, RewriteFact DEF Rewrites
  <2>3. <<det[x].status, r.status>> \in Allowed
    BY <2>1 DEF Allowed, Active
  <2> QED
    BY <2>2, <2>3
<1>4. ASSUME NEW e \in Engines, CommitRun(e)
      PROVE  /\ det'[d].status # det[d].status => <<det[d].status, det'[d].status>> \in Allowed
             /\ ~det[d].held => ~det'[d].held \/ det'[d].raced
  <2>1. /\ det'[d].status = det[d].status
        /\ d \in tx[e].recovered => ~det'[d].held
        /\ d \in tx[e].repeated \ tx[e].recovered =>
             det'[d].raced = (det[d].raced \/ (~det[d].held /\ e \in overlapped))
        /\ d \notin tx[e].recovered \union tx[e].repeated => det'[d] = det[d]
        /\ tx[e].step = "look"
    BY <1>0, <1>4, CommitFact
  <2>2. d \in tx[e].repeated => det[d].held \/ e \in overlapped
    BY <2>1 DEF Replaced, Replacing
  <2> QED
    BY <2>1, <2>2
<1>5. ASSUME NEW s \in Operators, Lock(s) \/ LockOther(s) \/ AddNote(s) \/ TakeNumber(s) \/ Fail(s)
      PROVE  UNCHANGED det
  BY <1>0, <1>5, RequestQuiet DEF Quiet, Unpublished
<1>6. ASSUME NEW e \in Engines,
             StartRun(e) \/ Look(e) \/ SkipSensor(e) \/ FlushRow(e) \/ Persist(e) \/ Fail(e)
      PROVE  UNCHANGED det
  BY <1>0, <1>6, RunQuiet DEF Quiet, Unpublished
<1>7. UNCHANGED vars => UNCHANGED det
  BY DEF vars
<1>8. ASSUME NEW s \in Operators, Request(s) \/ Fail(s)
      PROVE  /\ det'[d].status # det[d].status => <<det[d].status, det'[d].status>> \in Allowed
             /\ ~det[d].held => ~det'[d].held \/ det'[d].raced
  BY <1>1, <1>2, <1>3, <1>5, <1>8 DEF Request
<1>9. ASSUME NEW e \in Engines, Run(e) \/ Fail(e)
      PROVE  /\ det'[d].status # det[d].status => <<det[d].status, det'[d].status>> \in Allowed
             /\ ~det[d].held => ~det'[d].held \/ det'[d].raced
  BY <1>1, <1>4, <1>6, <1>9 DEF Run, Works
<1> QED
  BY <1>1, <1>7, <1>8, <1>9, NextSplit

\* The invariants always hold.
LEMMA ReplacedAlways == Spec => [](Whole /\ Races /\ Replaced)
<1>1. Init => Whole /\ Races /\ Replaced
  BY WholeInit
<1>2. Whole /\ Races /\ Replaced /\ [Next]_vars => (Whole /\ Races /\ Replaced)'
  BY WholeNext, RacesNext, ReplacedNext
<1> QED
  BY <1>1, <1>2, PTL DEF Spec

\* A condition's detections that are in the queue and still held are one, but for those an
\* operator reopened and those of runs that overlapped (engine.py, run; deduplication.py).
THEOREM OneOpen == Spec => []OneOpenDetection
<1>1. Whole /\ Replaced => OneOpenDetection
  BY OneFollows DEF Whole, Replaced
<1> QED
  BY <1>1, ReplacedAlways, PTL

\* No request acts on a status another has changed under it, and no condition that has
\* ended is held again, but by runs that overlap.
THEOREM OnlyAllowed == Spec => TransitionsAllowed
<1>1. Whole /\ Races /\ Replaced /\ [Next]_vars =>
        [\A d \in DOMAIN det :
           /\ det'[d].status # det[d].status => <<det[d].status, det'[d].status>> \in Allowed
           /\ ~det[d].held => ~det'[d].held \/ det'[d].raced]_vars
  BY AllowedNext
<1> QED
  BY <1>1, ReplacedAlways, PTL DEF Spec, TransitionsAllowed

-----------------------------------------------------------------------------
(***************************************************************************)
(* The requests and the runs implement DetectionLife: what a request       *)
(* commits is a step on the detections there are, because its row is locked*)
(* since it was read, and so is what a run commits, because no request and *)
(* no other run makes stand what did not when the run looked.              *)
(***************************************************************************)
\* A request on one row, or a merge, is its step of the abstract specification.
LEMMA LifeEdit ==
  ASSUME Inv, NEW s \in Operators, StartReview(s) \/ Dismiss(s) \/ Reopen(s) \/ Merge(s)
  PROVE  Life!LifeNext
<1>1. CASE StartReview(s)
  <2>1. PICK d \in tx[s].locks : Edit(s, d, Active) /\ Becomes(d, "under_review")
    BY <1>1 DEF StartReview
  <2>2. d \in DOMAIN det /\ det[d].status \in Active
    BY <2>1, SeenTrue DEF Edit
  <2>3. Life!Review(d)
    BY <2>1, <2>2 DEF Edit, Becomes, Active, Life!Review, Life!Shown, Life!InQueue
  <2> QED
    BY <2>2, <2>3 DEF Life!LifeNext
<1>2. CASE Dismiss(s)
  <2>1. PICK d \in tx[s].locks : Edit(s, d, Active) /\ Becomes(d, "dismissed")
    BY <1>2 DEF Dismiss
  <2>2. d \in DOMAIN det /\ det[d].status \in Active
    BY <2>1, SeenTrue DEF Edit
  <2>3. Life!Dismiss(d)
    BY <2>1, <2>2 DEF Edit, Becomes, Active, Life!Dismiss, Life!Shown, Life!InQueue
  <2> QED
    BY <2>2, <2>3 DEF Life!LifeNext
<1>3. CASE Reopen(s)
  <2>1. PICK d \in tx[s].locks : Edit(s, d, {"dismissed"}) /\ det' = [det EXCEPT ![d].status = "queued", ![d].reopened = TRUE]
    BY <1>3 DEF Reopen
  <2>2. d \in DOMAIN det /\ det[d].status = "dismissed"
    BY <2>1, SeenTrue DEF Edit
  <2>3. Life!Reopen(d)
    BY <2>1, <2>2 DEF Edit, Life!Reopen
  <2> QED
    BY <2>2, <2>3 DEF Life!LifeNext
<1>4. CASE Merge(s)
  <2>1. PICK d \in tx[s].locks, e \in tx[s].locks :
          /\ d # e /\ tx[s].seen[d] \in Active /\ tx[s].seen[e] \in Active
          /\ det' = [det EXCEPT ![d].status = "merged", ![d].into = e]
          /\ UNCHANGED incident
    BY <1>4 DEF Merge
  <2>2. d \in DOMAIN det /\ det[d].status \in Active
    BY <2>1, SeenTrue
  <2>3. e \in DOMAIN det /\ det[e].status \in Active
    BY <2>1, SeenTrue
  <2>4. Life!Merge(d, e)
    BY <2>1, <2>2, <2>3 DEF Active, Life!Merge, Life!Shown, Life!InQueue
  <2> QED
    BY <2>2, <2>3, <2>4 DEF Life!LifeNext
<1> QED
  BY <1>1, <1>2, <1>3, <1>4

\* A promotion's incident is appended to the others.
LEMMA LifePromote ==
  ASSUME Inv, Numbered, NEW s \in Operators, Promote(s)
  PROVE  Life!LifeNext
<1> DEFINE n == Len(incident) + 1
<1>0. incident \in Seq(1..MaxRows) /\ Len(incident) \in Nat /\ DOMAIN incident = 1..Len(incident)
  BY DEF Inv, Types
<1>1. PICK d \in tx[s].locks :
        /\ tx[s].step = "numbered" /\ NumberUnused(tx[s].number)
        /\ incident' = [m \in DOMAIN incident \union {tx[s].number} |-> IF m = tx[s].number THEN d ELSE incident[m]]
        /\ det' = [det EXCEPT ![d].status = "promoted", ![d].incident = tx[s].number]
  BY DEF Promote
<1>2. tx[s].number = n
  BY <1>0, <1>1 DEF Numbered, NumberUnused
<1>3. d \in DOMAIN det /\ det[d].status = "under_review" /\ d \in 1..MaxRows
  <2>1. d \in DOMAIN det /\ det[d].status = "under_review"
    BY <1>1, SeenTrue DEF Inv, Known, Knows
  <2> QED
    BY <2>1, BoundsAssumption DEF Inv, Types, Runs
<1>4. incident' = Append(incident, d)
  <2>1. DOMAIN incident \union {n} = 1..n
    BY <1>0
  <2>2. incident' = [m \in 1..n |-> IF m = n THEN d ELSE incident[m]]
    BY <1>1, <1>2, <2>1
  <2>3. /\ Append(incident, d) \in Seq(1..MaxRows) /\ Len(Append(incident, d)) = n
        /\ Append(incident, d)[n] = d /\ \A m \in 1..Len(incident) : Append(incident, d)[m] = incident[m]
    BY <1>0, <1>3, AppendProperties
  <2>4. Append(incident, d) \in [1..n -> 1..MaxRows]
    BY <2>3, LenProperties
  <2>5. \A m \in 1..n : m # n => m \in 1..Len(incident)
    BY <1>0
  <2> HIDE DEF n
  <2> QED
    BY <2>2, <2>3, <2>4, <2>5
<1>5. Life!Promote(d)
  BY <1>1, <1>2, <1>3, <1>4 DEF Life!Promote
<1> QED
  BY <1>3, <1>5 DEF Life!LifeNext

(* A run looks at each key once, in their order: what it notes and what it opens are       *)
(* of different keys.                                                                      *)
Noticed(e) == tx[e].recovered \union tx[e].repeated
Apart(e) ==
  /\ \A d \in Noticed(e) : det[d].key < tx[e].at
  /\ \A d \in Noticed(e), i \in DOMAIN tx[e].rows : tx[e].rows[i].key # det[d].key
AllApart == \A e \in Engines : Apart(e)

\* Requests and commits of other sessions change no key.
LEMMA ApartKept ==
  ASSUME Inv, NEW e \in Engines, Apart(e), tx'[e] = tx[e], \A d \in DOMAIN det : det'[d].key = det[d].key
  PROVE  Apart(e)'
  BY DEF Apart, Noticed, Inv, Runs, Pending

\* What a run notes of a key it has looked at is of that key.
LEMMA ApartLook ==
  ASSUME Inv, Replaced, NEW e \in Engines, Apart(e), Look(e) \/ SkipSensor(e)
  PROVE  Apart(e)'
<1> DEFINE k == tx[e].at
           d == FindOpenDetection(k)
<1>0. Types /\ k \in Nat /\ k \in Keys /\ Replacing(e) /\ Unpublished
  BY KeysAssumption, LookFact DEF Inv, Sessions, Replaced
<1>1. /\ det' = det /\ tx'[e].rows = tx[e].rows /\ tx'[e].at \in {k, k + 1}
      /\ \/ Noticed(e)' = Noticed(e)
         \/ Noticed(e)' = Noticed(e) \union {d} /\ tx'[e].at = k + 1 /\ d \in DOMAIN det /\ det[d].held
  <2> HIDE DEF d
  <2>1. /\ \/ Noted(e, tx[e].recovered, tx[e].repeated)
           \/ /\ d \in DOMAIN det /\ det[d].held
              /\ \/ Noted(e, tx[e].recovered \union {d}, tx[e].repeated)
                 \/ Noted(e, tx[e].recovered, tx[e].repeated \union {d})
           \/ /\ Others(e) /\ tx'[e].at = tx[e].at /\ tx'[e].rows = tx[e].rows
              /\ tx'[e].recovered = tx[e].recovered /\ tx'[e].repeated = tx[e].repeated
    BY <1>0, LookFact DEF d
  <2> QED
    BY <1>0, <2>1 DEF Unpublished, Noted, Noticed
<1>2. d \in DOMAIN det => det[d].key = k
  <2>1. /\ FindAny(k) = {} => d = 0
        /\ FindAny(k) # {} => d \in FindAny(k)
    BY <1>0, NewestFound
  <2>2. 0 \notin DOMAIN det
    BY <1>0 DEF Types
  <2> QED
    BY <2>1, <2>2 DEF FindAny
<1>3. \A x \in Noticed(e) : x \in DOMAIN det /\ det[x].key \in Nat /\ det[x].key < k
  <2> TAKE x \in Noticed(e)
  <2>1. x \in DOMAIN det
    BY DEF Inv, Runs, Pending, Noticed
  <2>2. det[x].key \in Nat
    BY <1>0, <2>1, RowType, KeysAssumption DEF DetectionRow
  <2> QED
    BY <2>1, <2>2 DEF Apart
<1>4. \A i \in DOMAIN tx[e].rows : tx[e].rows[i].key \in Nat /\ tx[e].rows[i].key < k
  BY <1>0, RowKeys DEF Replacing
<1> HIDE DEF k, d
<1>5. ASSUME NEW x \in Noticed(e)'
      PROVE  /\ det[x].key < tx'[e].at
             /\ \A i \in DOMAIN tx[e].rows : tx[e].rows[i].key # det[x].key
  <2>1. CASE x \in Noticed(e)
    <3>1. det[x].key < tx'[e].at
      BY <1>0, <1>1, <1>3, <2>1
    <3>2. \A i \in DOMAIN tx[e].rows : tx[e].rows[i].key # det[x].key
      BY <2>1 DEF Apart
    <3> QED
      BY <3>1, <3>2
  <2>2. CASE x \notin Noticed(e)
    <3>1. x = d /\ tx'[e].at = k + 1 /\ det[x].key = k
      BY <1>1, <1>2, <1>5, <2>2
    <3>2. \A i \in DOMAIN tx[e].rows : tx[e].rows[i].key # k
      BY <1>0, <1>4
    <3>3. k < k + 1
      BY <1>0
    <3> QED
      BY <3>1, <3>2, <3>3
  <2> QED
    BY <2>1, <2>2
<1> QED
  BY <1>1, <1>5 DEF Apart

\* The detection a run opens is of the key it is at, which is after those it noted.
LEMMA ApartPersist ==
  ASSUME Inv, NEW e \in Engines, Apart(e), Persist(e)
  PROVE  Apart(e)'
<1> DEFINE k == tx[e].at
           new == NewDetection(k)
<1>0. Types /\ tx[e] \in Tx
  BY DEF Inv, Sessions, Types, TxInv
<1>1. /\ k \in Keys /\ det' = det
      /\ tx'[e].at = k + 1
      /\ tx'[e].rows = Append(tx[e].rows, new)
      /\ Noticed(e)' = Noticed(e)
  BY <1>0, PersistFact DEF Unpublished, Noticed
<1>2. tx[e].rows \in Seq(DetectionRow) /\ new.key = k /\ new \in DetectionRow /\ k \in Nat
  BY <1>0, <1>1, NewType, KeysAssumption DEF Tx, NewDetection
<1> HIDE DEF new
<1>3. /\ Len(tx[e].rows) \in Nat /\ DOMAIN tx[e].rows = 1..Len(tx[e].rows)
      /\ DOMAIN tx'[e].rows = 1..(Len(tx[e].rows) + 1)
      /\ \A i \in DOMAIN tx[e].rows : tx'[e].rows[i] = tx[e].rows[i]
      /\ tx'[e].rows[Len(tx[e].rows) + 1] = new
  BY <1>1, <1>2
<1>4. \A i \in DOMAIN tx'[e].rows : i \in DOMAIN tx[e].rows \/ i = Len(tx[e].rows) + 1
  BY <1>3
<1>5. \A x \in Noticed(e) : det[x].key \in Nat /\ det[x].key < k
  <2> TAKE x \in Noticed(e)
  <2>1. x \in DOMAIN det
    BY DEF Inv, Runs, Pending, Noticed
  <2>2. det[x].key \in Nat
    BY <1>0, <2>1, RowType, KeysAssumption DEF DetectionRow
  <2> QED
    BY <2>2 DEF Apart
<1> HIDE DEF k
<1>6. ASSUME NEW x \in Noticed(e), NEW i \in DOMAIN tx'[e].rows
      PROVE  tx'[e].rows[i].key # det[x].key
  <2>1. CASE i \in DOMAIN tx[e].rows
    BY <1>3, <2>1 DEF Apart
  <2>2. CASE i = Len(tx[e].rows) + 1
    BY <1>2, <1>3, <1>5, <2>2
  <2> QED
    BY <1>4, <2>1, <2>2
<1>7. \A x \in Noticed(e) : det[x].key < k + 1
  BY <1>2, <1>5
<1> QED
  BY <1>1, <1>6, <1>7 DEF Apart

\* Every step of a run keeps what it noted apart from what it opens.
LEMMA ApartRun ==
  ASSUME Inv, Replaced, NEW e \in Engines, Apart(e), Run(e) \/ Fail(e)
  PROVE  Apart(e)'
<1>0. Types /\ e \in Sessions
  BY DEF Inv, Sessions
<1>1. CASE StartRun(e) \/ CommitRun(e) \/ Fail(e)
  <2>1. CASE StartRun(e)
    BY <1>0, <2>1, StartRunFact DEF Apart, Noticed
  <2>2. CASE CommitRun(e) \/ Fail(e)
    <3>1. Ends(e)
      BY <1>0, <2>2, CommitFact, GoesIdle DEF Fail
    <3> QED
      BY <3>1, IdleType DEF Ends, Apart, Noticed
  <2> QED
    BY <1>1, <2>1, <2>2
<1>2. CASE FlushRow(e)
  <2>1. Dirty(e) \subseteq DOMAIN det
    BY DEF Dirty, Inv, Runs, Pending
  <2>2. det' = det /\ tx'[e].at = tx[e].at /\ tx'[e].rows = tx[e].rows /\ Noticed(e)' = Noticed(e)
    BY <1>0, <1>2, <2>1, FlushFact DEF Unpublished, Noticed
  <2> QED
    BY <2>2 DEF Apart
<1> QED
  BY <1>1, <1>2, ApartLook, ApartPersist DEF Run, Works

\* Every step does, of every run.
LEMMA ApartNext == ASSUME Whole, Replaced, AllApart, [Next]_vars PROVE AllApart'
<1>0. Inv /\ Matched
  BY DEF Whole
<1>1. CASE UNCHANGED vars
  BY <1>1 DEF vars, AllApart, Apart, Noticed
<1>2. ASSUME NEW s \in Operators, Request(s) \/ Fail(s) PROVE AllApart'
  <2>1. CASE Lock(s) \/ LockOther(s) \/ AddNote(s) \/ TakeNumber(s) \/ Fail(s)
    <3>1. Quiet(s)
      BY <1>0, <2>1, RequestQuiet
    <3>2. \A e \in Engines : tx'[e] = tx[e]
      BY <3>1, SessionsAssumption DEF Quiet, Others, Sessions
    <3>3. det' = det
      BY <3>1 DEF Quiet, Unpublished
    <3> QED
      BY <1>0, <3>2, <3>3, ApartKept DEF AllApart
  <2>2. CASE StartReview(s) \/ Dismiss(s) \/ Reopen(s) \/ Merge(s) \/ Promote(s)
    <3>1. PICK d \in tx[s].locks, r \in DetectionRow : Rewrites(s, d, r)
      BY <1>0, <2>2, EditFact, PromoteFact DEF Matched
    <3>2. /\ det'[d] = r /\ r.key = det[d].key
          /\ \A x \in DOMAIN det \ {d} : det'[x] = det[x]
      BY <1>0, <3>1, RewriteFact DEF Rewrites
    <3>3. \A x \in DOMAIN det : det'[x].key = det[x].key
      BY <3>2
    <3>4. \A e \in Engines : tx'[e] = tx[e]
      BY <3>1, SessionsAssumption DEF Rewrites, Ends, Others, Sessions
    <3> QED
      BY <1>0, <3>3, <3>4, ApartKept DEF AllApart
  <2> QED
    BY <1>2, <2>1, <2>2 DEF Request
<1>3. ASSUME NEW e \in Engines, Run(e) \/ Fail(e) PROVE AllApart'
  <2>1. Apart(e)'
    BY <1>0, <1>3, ApartRun DEF AllApart
  <2>2. Others(e) /\ \A d \in DOMAIN det : det'[d].key = det[d].key
    BY <1>0, <1>3, RunQuiet, CommitFact DEF Run, Works, Quiet, Unpublished, Ends
  <2>3. \A f \in Engines \ {e} : tx'[f] = tx[f]
    BY <2>2 DEF Others, Sessions
  <2> QED
    BY <1>0, <2>1, <2>2, <2>3, ApartKept DEF AllApart
<1> QED
  BY <1>1, <1>2, <1>3, NextSplit

\* To hold a condition that is held changes nothing.
LEMMA HeldAlready ==
  ASSUME NEW r \in DetectionRow, r.held PROVE [r EXCEPT !.held = TRUE, !.raced = r.raced] = r
  BY DEF DetectionRow

\* A commit leaves each detection as it is or says that its condition has ended; a run
\* that overlapped another's may also hold one again.
LEMMA CommitRows ==
  ASSUME Inv, Replaced, NEW e \in Engines, CommitRun(e), NEW d \in DOMAIN det
  PROVE  \/ det'[d] = det[d]
         \/ d \in Noticed(e) /\ det'[d] = [det[d] EXCEPT !.held = FALSE]
         \/ d \in Noticed(e) /\ e \in overlapped /\ det'[d] = [det[d] EXCEPT !.held = TRUE, !.raced = TRUE]
<1>1. det'[d] = Kept(e, d) /\ tx[e].step = "look" /\ det[d] \in DetectionRow
  BY CommitFact, RowType DEF Inv
<1>2. CASE d \in tx[e].recovered
  BY <1>1, <1>2 DEF Kept, Noticed
<1>3. CASE d \notin tx[e].recovered /\ d \in tx[e].repeated
  <2> DEFINE b == det[d].raced \/ (~det[d].held /\ e \in overlapped)
  <2>1. det'[d] = [det[d] EXCEPT !.held = TRUE, !.raced = b]
    BY <1>1, <1>3 DEF Kept
  <2>2. det[d].held \/ e \in overlapped
    BY <1>1, <1>3 DEF Replaced, Replacing
  <2>3. CASE det[d].held
    <3>1. b = det[d].raced
      BY <1>1, <2>3 DEF DetectionRow
    <3> HIDE DEF b
    <3>2. [det[d] EXCEPT !.held = TRUE, !.raced = det[d].raced] = det[d]
      BY <1>1, <2>3, HeldAlready
    <3> QED
      BY <2>1, <3>1, <3>2
  <2>4. CASE ~det[d].held
    <3>1. b = TRUE
      BY <2>2, <2>4
    <3> HIDE DEF b
    <3> QED
      BY <1>3, <2>1, <2>2, <2>4, <3>1 DEF Noticed
  <2> QED
    BY <2>3, <2>4
<1>4. CASE d \notin Noticed(e)
  BY <1>1, <1>4 DEF Kept, Noticed
<1> QED
  BY <1>2, <1>3, <1>4 DEF Noticed

\* What a run commits is one run of the abstract specification, on the detections there are.
LEMMA LifeCommit ==
  ASSUME Inv, Replaced, NEW e \in Engines, Apart(e), CommitRun(e)
  PROVE  Life!RunEngine(e \in overlapped)
<1>0. /\ det \in Seq(DetectionRow) /\ Len(det) \in Nat /\ DOMAIN det = 1..Len(det)
      /\ tx[e].rows \in Seq(DetectionRow) /\ Len(tx[e].rows) \in Nat /\ Replacing(e)
  BY DEF Inv, Types, TxInv, Tx, Sessions, Replaced
<1>1. /\ det' \in Seq(DetectionRow) /\ Len(det') = Len(det) + Len(tx[e].rows) /\ UNCHANGED incident
  BY CommitFact
<1>2. Len(det') >= Len(det) /\ DOMAIN det' = 1..Len(det')
  BY <1>0, <1>1
<1>3. \A d \in DOMAIN det' \ DOMAIN det :
        \E i \in DOMAIN tx[e].rows, k \in Keys :
          /\ d = Len(det) + i /\ tx[e].rows[i].key = k /\ det'[d].key = k
          /\ det'[d] = [NewDetection(k) EXCEPT !.raced = e \in overlapped]
  BY NewRowsFact DEF NewRows
<1>4. ASSUME NEW d \in Life!Ended
      PROVE  /\ d \in Noticed(e)
             /\ \/ det'[d] = [det[d] EXCEPT !.held = FALSE]
                \/ e \in overlapped /\ det'[d] = [det[d] EXCEPT !.held = TRUE, !.raced = TRUE]
  BY CommitRows DEF Life!Ended
<1>5. ASSUME NEW d \in Life!Added
      PROVE  \E k \in Keys : Life!Unshown(k) /\ det'[d] = [Life!Fresh(k) EXCEPT !.raced = e \in overlapped]
  <2>1. PICK i \in DOMAIN tx[e].rows, k \in Keys :
          tx[e].rows[i].key = k /\ det'[d] = [NewDetection(k) EXCEPT !.raced = e \in overlapped]
    BY <1>3 DEF Life!Added
  <2>3. NoneStands(k)
    BY <1>0, <2>1 DEF Replacing
  <2>4. Life!Unshown(k)
    BY <2>3 DEF NoneStands, Standing, Active, Life!Unshown, Life!Stands, Life!Shown, Life!InQueue
  <2>5. det'[d] = [Life!Fresh(k) EXCEPT !.raced = e \in overlapped]
    BY <2>1 DEF NewDetection, Life!Fresh
  <2> QED
    BY <2>4, <2>5
<1>6. ASSUME NEW d \in Life!Added, NEW x \in Life!Added, d # x PROVE det'[d].key # det'[x].key
  <2>1. PICK i \in DOMAIN tx[e].rows : d = Len(det) + i /\ det'[d].key = tx[e].rows[i].key
    BY <1>3 DEF Life!Added
  <2>2. PICK j \in DOMAIN tx[e].rows : x = Len(det) + j /\ det'[x].key = tx[e].rows[j].key
    BY <1>3 DEF Life!Added
  <2>3. i # j
    BY <1>6, <2>1, <2>2
  <2> QED
    BY <1>0, <2>1, <2>2, <2>3 DEF Replacing
<1>7. ASSUME NEW d \in Life!Ended, NEW x \in Life!Added PROVE det[d].key # det'[x].key
  <2>1. PICK j \in DOMAIN tx[e].rows : det'[x].key = tx[e].rows[j].key
    BY <1>3 DEF Life!Added
  <2> QED
    BY <1>4, <2>1 DEF Apart
<1> QED
  BY <1>1, <1>2, <1>4, <1>5, <1>6, <1>7 DEF Life!RunEngine

\* Every step is one of the abstract specification's, or changes none of its variables.
LEMMA LifeNextStep ==
  ASSUME Whole, Replaced, AllApart, [Next]_vars PROVE [Life!LifeNext]_(Life!life)
<1>0. Inv /\ Numbered
  BY DEF Whole, Matched
<1>1. ASSUME NEW s \in Operators, Request(s) \/ Fail(s) PROVE [Life!LifeNext]_(Life!life)
  <2>1. CASE Lock(s) \/ LockOther(s) \/ AddNote(s) \/ TakeNumber(s) \/ Fail(s)
    BY <1>0, <2>1, RequestQuiet DEF Quiet, Unpublished, Life!life
  <2>2. CASE StartReview(s) \/ Dismiss(s) \/ Reopen(s) \/ Merge(s) \/ Promote(s)
    BY <1>0, <2>2, LifeEdit, LifePromote
  <2> QED
    BY <1>1, <2>1, <2>2 DEF Request
<1>2. ASSUME NEW e \in Engines, Run(e) \/ Fail(e) PROVE [Life!LifeNext]_(Life!life)
  <2>1. CASE StartRun(e) \/ Look(e) \/ SkipSensor(e) \/ FlushRow(e) \/ Persist(e) \/ Fail(e)
    BY <1>0, <2>1, RunQuiet DEF Quiet, Unpublished, Life!life
  <2>2. CASE CommitRun(e)
    <3>1. Life!RunEngine(e \in overlapped)
      BY <1>0, <2>2, LifeCommit DEF AllApart
    <3>2. (e \in overlapped) \in BOOLEAN
      OBVIOUS
    <3> QED
      BY <3>1, <3>2 DEF Life!LifeNext
  <2> QED
    BY <1>2, <2>1, <2>2 DEF Run, Works
<1>3. UNCHANGED vars => UNCHANGED Life!life
  BY DEF vars, Life!life
<1> QED
  BY <1>1, <1>2, <1>3, NextSplit

\* The triage and the engine together, of any number of runs, each request and each run in as many
\* steps as it takes, implement the life of the detections in single steps (engine.py, run;
\* investigation.py): a run reads without locks, and what it opens is still due when it
\* commits; a request decides on what is so when it commits.
THEOREM TriageImplementsLife == Spec => LivesOneByOne
<1>1. Init => Whole /\ Races /\ Replaced /\ AllApart /\ Life!LifeInit
  <2>1. Init => AllApart
    BY IdleType DEF Init, AllApart, Apart, Noticed, Sessions
  <2> QED
    BY <2>1, WholeInit DEF Init, Life!LifeInit
<1>2. Whole /\ Races /\ Replaced /\ AllApart /\ [Next]_vars => (Whole /\ Races /\ Replaced /\ AllApart)'
  BY WholeNext, RacesNext, ReplacedNext, ApartNext
<1>3. Whole /\ Replaced /\ AllApart /\ [Next]_vars => [Life!LifeNext]_(Life!life)
  BY LifeNextStep
<1> QED
  BY <1>1, <1>2, <1>3, PTL DEF Spec, LivesOneByOne, Life!LifeSpec

-----------------------------------------------------------------------------
(***************************************************************************)
(* The rules and the scores the engine runs on (DetectionRules).           *)
(***************************************************************************)
\* The first and the last of a sequence's places.
LEMMA PlaceBounds ==
  ASSUME NEW n \in Nat, NEW T \in SUBSET (1..n), T # {}
  PROVE  /\ Min(T) \in T /\ \A y \in T : Min(T) <= y
         /\ Max(T) \in T /\ \A y \in T : y <= Max(T)
<1>1. \E x \in T : \A y \in T : x <= y
  <2>1. T \in SUBSET Nat
    OBVIOUS
  <2> QED
    BY <2>1, SmallestNat
<1>2. \E x \in T : \A y \in T : x >= y
  <2> DEFINE D == {n - x : x \in T}
  <2>1. D \in SUBSET Nat /\ D # {}
    <3>1. \A x \in T : x \in 1..n /\ n - x \in Nat
      OBVIOUS
    <3> QED
      BY <3>1
  <2>2. PICK d \in D : \A e \in D : d <= e
    <3> HIDE DEF D
    <3> QED
      BY <2>1, SmallestNat
  <2>3. PICK x \in T : d = n - x
    BY <2>2
  <2>4. ASSUME NEW y \in T PROVE x >= y
    <3>1. n - y \in D
      OBVIOUS
    <3> QED
      BY <2>2, <2>3, <3>1
  <2> QED
    BY <2>4
<1> QED
  BY <1>1, <1>2 DEF Min, Max

\* The least and the greatest of two numbers.
LEMMA TwoBounds ==
  ASSUME NEW x \in Int, NEW y \in Int
  PROVE  /\ Min({x, y}) = IF x <= y THEN x ELSE y
         /\ Max({x, y}) = IF x >= y THEN x ELSE y
BY DEF Min, Max

\* A window of a run of readings in order.
Ordered(rs, now, h) == h.triggered => /\ h.start \in Int /\ h.end \in Int
                                      /\ h.start <= h.end /\ h.end <= now /\ {h.start, h.end} \subseteq Times(rs)

LEMMA WithBounds ==
  ASSUME NEW rs \in Seq(Readings), NEW a, With(rs, a) # {}
  PROVE  /\ Min(With(rs, a)) \in DOMAIN rs /\ Max(With(rs, a)) \in DOMAIN rs
         /\ Min(With(rs, a)) <= Max(With(rs, a))
<1>1. Len(rs) \in Nat /\ DOMAIN rs = 1..Len(rs)
  OBVIOUS
<1>2. With(rs, a) \in SUBSET (1..Len(rs))
  BY <1>1 DEF With
<1> QED
  BY <1>1, <1>2, PlaceBounds

LEMMA TimesOf ==
  ASSUME NEW rs \in Seq(Readings), NEW k \in DOMAIN rs
  PROVE  rs[k].t \in Nat /\ rs[k].t \in Times(rs)
<1>1. rs[k] \in Readings
  OBVIOUS
<1>2. rs[k].t \in Nat
  BY <1>1 DEF Readings
<1> QED
  BY <1>2 DEF Times, ToSet

\* A hit of the first and the last reading with a value.
LEMMA ChangedOrdered ==
  ASSUME NEW rs \in Seq(Readings), NEW now \in Int, Chronological(rs, now), NEW a, With(rs, a) # {}, NEW reason
  PROVE  Ordered(rs, now, Hit({reason}, FirstWith(rs, a).t, LastWith(rs, a).t))
<1> DEFINE j == Min(With(rs, a))
           k == Max(With(rs, a))
<1>1. j \in DOMAIN rs /\ k \in DOMAIN rs /\ j <= k
  BY WithBounds
<1>2. rs[j].t <= rs[k].t /\ rs[k].t <= now
  BY <1>1 DEF Chronological
<1> HIDE DEF j, k
<1>3. rs[j].t \in Nat /\ rs[k].t \in Nat /\ {rs[j].t, rs[k].t} \subseteq Times(rs)
  BY <1>1, TimesOf
<1> QED
  BY <1>2, <1>3 DEF Ordered, Hit, FirstWith, LastWith, j, k

LEMMA NoHitOrdered == ASSUME NEW rs, NEW now PROVE Ordered(rs, now, NoHit)
BY DEF Ordered, NoHit

LEMMA SomeWith ==
  ASSUME NEW rs \in Seq(Readings), NEW a, NEW n \in Nat \ {0}, Cardinality(With(rs, a)) >= n
  PROVE  With(rs, a) # {}
<1> SUFFICES ASSUME With(rs, a) = {} PROVE FALSE
  OBVIOUS
<1> QED
  BY FS_EmptySet

LEMMA DropOrdered ==
  ASSUME NEW rs \in Seq(Readings), NEW now \in Int, Chronological(rs, now), NEW n \in Nat \ {0}, NEW pct
  PROVE  /\ Ordered(rs, now, PressureDrop(rs, pct, n))
         /\ Ordered(rs, now, FlowSurge(rs, pct, n))
BY SomeWith, ChangedOrdered, NoHitOrdered DEF PressureDrop, FlowSurge, Changed

\* A hit of all readings of the window.
LEMMA WindowHitOrdered ==
  ASSUME NEW rs \in Seq(Readings), NEW now \in Int, Chronological(rs, now), rs # << >>, NEW reasons
  PROVE  Ordered(rs, now, WindowHit(rs, reasons))
<1>1. 1 \in DOMAIN rs /\ Len(rs) \in DOMAIN rs /\ 1 <= Len(rs)
  OBVIOUS
<1>2. \A k \in DOMAIN rs : rs[1].t <= rs[k].t /\ rs[k].t <= rs[Len(rs)].t
  BY <1>1 DEF Chronological
<1>3. \A x \in Times(rs) : rs[1].t <= x /\ x <= rs[Len(rs)].t
  BY <1>2 DEF Times, ToSet
<1>4. {rs[1].t, rs[Len(rs)].t} \subseteq Times(rs) /\ rs[1].t \in Nat /\ rs[Len(rs)].t \in Nat
  BY <1>1, TimesOf
<1>5. Times(rs) \subseteq Nat
  BY TimesOf DEF Times, ToSet, Readings
<1>6. Min(Times(rs)) = rs[1].t
  BY <1>3, <1>4, <1>5 DEF Min
<1>7. Max(Times(rs)) = rs[Len(rs)].t
  BY <1>3, <1>4, <1>5 DEF Max
<1>8. rs[1].t <= rs[Len(rs)].t /\ rs[Len(rs)].t <= now
  BY <1>1 DEF Chronological
<1> QED
  BY <1>4, <1>6, <1>7, <1>8, NoHitOrdered DEF WindowHit, Hit, Ordered

\* Of two hits that lie in the window the combined one does.
LEMMA CombinedOrdered ==
  ASSUME NEW rs, NEW now \in Int, NEW p, NEW f, p.triggered, f.triggered, Ordered(rs, now, p), Ordered(rs, now, f)
  PROVE  Ordered(rs, now, CombinedHit(p, f))
<1>1. /\ p.start \in Int /\ p.end \in Int /\ f.start \in Int /\ f.end \in Int
      /\ p.start <= p.end /\ f.start <= f.end /\ p.end <= now /\ f.end <= now
      /\ {p.start, p.end, f.start, f.end} \subseteq Times(rs)
  BY DEF Ordered
<1>2. Min({p.start, f.start}) = IF p.start <= f.start THEN p.start ELSE f.start
  BY <1>1, TwoBounds
<1>3. Max({p.end, f.end}) = IF p.end >= f.end THEN p.end ELSE f.end
  BY <1>1, TwoBounds
<1> QED
  BY <1>1, <1>2, <1>3 DEF Ordered, CombinedHit, Hit

\* Silence lasts from the latest reading, or from now where there is none.
LEMMA MissingOrdered ==
  ASSUME NEW rs \in Seq(Readings), NEW now \in Int, Chronological(rs, now), NEW n \in Int
  PROVE  LET h == MissingTelemetry(Latest(rs), rs # << >> \/ Latest(rs) # None, n, now) IN
         h.triggered => h.start <= h.end /\ h.end <= now
<1>1. CASE rs = << >>
  BY <1>1 DEF MissingTelemetry, Latest, NoHit, Hit, None
<1>2. CASE rs # << >>
  <2>1. Len(rs) \in DOMAIN rs
    BY <1>2
  <2>2. rs[Len(rs)].t \in Nat /\ rs[Len(rs)].t <= now
    BY <2>1, TimesOf DEF Chronological
  <2> QED
    BY <1>2, <2>2 DEF MissingTelemetry, Latest, NoHit, Hit, None
<1> QED
  BY <1>1, <1>2

\* Every rule's window, for every window of readings and every minimum.
LEMMA EveryWindowOrdered == ASSUME NEW i \in Windows PROVE HitWindowOrdered(i)
<1> DEFINE rs == i.readings
           now == i.now
           n == i.points
<1>1. rs \in Seq(Readings) /\ now \in Int /\ n \in Nat \ {0} /\ Chronological(rs, now)
  BY WindowsAssumption
<1> HIDE DEF rs, now, n
<1> DEFINE Rule(code) == EvaluateRule(code, rs, Latest(rs), now, n)
           Fits(code) == LET h == Rule(code) IN
             h.triggered => /\ h.start <= h.end /\ h.end <= now
                            /\ code # "MISSING_TELEMETRY" => {h.start, h.end} \subseteq Times(rs)
<1>2. ASSUME NEW code, Ordered(rs, now, Rule(code)) PROVE Fits(code)
  <2> HIDE DEF Rule
  <2> QED
    BY <1>2 DEF Ordered
<1>3. Fits("PRESSURE_DROP")
  <2>1. Rule("PRESSURE_DROP") = PressureDrop(rs, 8, n)
    BY DEF EvaluateRule
  <2> HIDE DEF Rule
  <2> QED
    BY <1>1, <1>2, <2>1, DropOrdered
<1>4. Fits("FLOW_SURGE")
  <2>1. Rule("FLOW_SURGE") = FlowSurge(rs, 12, n)
    BY DEF EvaluateRule
  <2> HIDE DEF Rule
  <2> QED
    BY <1>1, <1>2, <2>1, DropOrdered
<1>5. Fits("COMBINED_LEAK_PATTERN")
  <2>1. Rule("COMBINED_LEAK_PATTERN") = CombinedLeakPattern(rs, 8, 12, n)
    BY DEF EvaluateRule
  <2>2. Ordered(rs, now, CombinedLeakPattern(rs, 8, 12, n))
    BY <1>1, DropOrdered, CombinedOrdered, NoHitOrdered DEF CombinedLeakPattern
  <2> HIDE DEF Rule
  <2> QED
    BY <1>2, <2>1, <2>2
<1>6. Fits("CONNECTIVITY_DEGRADATION")
  <2>1. Rule("CONNECTIVITY_DEGRADATION") = Connectivity(rs, 10, -100, 15, n)
    BY DEF EvaluateRule
  <2>2. ~ Len(rs) < n => rs # << >>
    BY <1>1
  <2>3. Ordered(rs, now, Connectivity(rs, 10, -100, 15, n))
    BY <1>1, <2>2, WindowHitOrdered, NoHitOrdered DEF Connectivity
  <2> HIDE DEF Rule
  <2> QED
    BY <1>2, <2>1, <2>3
<1>7. Fits("SENSOR_QUALITY")
  <2>1. Rule("SENSOR_QUALITY") = SensorQuality(rs, {"p", "f"}, [p |-> 50..1600, f |-> 0..120], 15, 5, 50, n)
    BY DEF EvaluateRule
  <2>2. ~ Len(rs) < n => rs # << >>
    BY <1>1
  <2>3. Ordered(rs, now, SensorQuality(rs, {"p", "f"}, [p |-> 50..1600, f |-> 0..120], 15, 5, 50, n))
    BY <1>1, <2>2, WindowHitOrdered, NoHitOrdered DEF SensorQuality
  <2> HIDE DEF Rule
  <2> QED
    BY <1>2, <2>1, <2>3
<1>8. Fits("MISSING_TELEMETRY")
  <2>1. Rule("MISSING_TELEMETRY") = MissingTelemetry(Latest(rs), rs # << >> \/ Latest(rs) # None, 30, now)
    BY DEF EvaluateRule
  <2> HIDE DEF Rule
  <2>2. LET h == Rule("MISSING_TELEMETRY") IN h.triggered => h.start <= h.end /\ h.end <= now
    BY <1>1, <2>1, MissingOrdered
  <2> QED
    BY <2>2
<1> HIDE DEF Fits
<1>9. \A code \in RuleCodes : Fits(code)
  BY <1>3, <1>4, <1>5, <1>6, <1>7, <1>8 DEF RuleCodes
<1> QED
  BY <1>9 DEF HitWindowOrdered, Fits, rs, now, n

-----------------------------------------------------------------------------
(* Scores: no part of a score falls where the observation gets worse. *)
LEMMA DivGrows ==
  ASSUME NEW a \in Int, NEW b \in Int, a <= b, NEW d \in Nat \ {0}
  PROVE  a \div d \in Int /\ b \div d \in Int /\ a \div d <= b \div d
<1> DEFINE q == a \div d
           r == b \div d
<1>1. /\ q \in Int /\ d * q <= a /\ a < d * (q + 1)
      /\ r \in Int /\ d * r <= b /\ b < d * (r + 1)
  OBVIOUS
<1> HIDE DEF q, r
<1>2. ~ (r + 1 <= q)
  <2> SUFFICES ASSUME r + 1 <= q PROVE FALSE
    OBVIOUS
  <2>1. PICK e \in Nat : q = r + 1 + e
    <3>1. q - (r + 1) \in Nat /\ q = r + 1 + (q - (r + 1))
      BY <1>1
    <3> QED
      BY <3>1
  <2>2. d * q = d * (r + 1) + d * e
    BY <1>1, <2>1
  <2>3. d * e >= 0
    BY <2>1
  <2> QED
    BY <1>1, <2>2, <2>3
<1> QED
  BY <1>1, <1>2 DEF q, r

\* Two factors of a score in thousandths.
NoLarger(p, q) == p \in 0..1000 /\ q \in 0..1000 /\ p <= q

LEMMA ClampGrows ==
  ASSUME NEW x \in Int, NEW y \in Int, x <= y
  PROVE  NoLarger(Clamp(x, 0, 1000), Clamp(y, 0, 1000))
BY DEF Clamp, NoLarger

LEMMA MagnitudeGrows ==
  ASSUME NEW x \in Int, NEW y \in Int, x <= y, NEW t \in Int
  PROVE  NoLarger(Magnitude(x, t), Magnitude(y, t))
<1>1. CASE t <= 0
  BY <1>1 DEF Magnitude, NoLarger
<1>2. CASE ~ t <= 0
  <2> DEFINE a == (x - t) * 1000
             b == (y - t) * 1000
  <2>1. a \in Int /\ b \in Int /\ a <= b /\ t \in Nat \ {0}
    BY <1>2
  <2>2. Magnitude(x, t) = Clamp(a \div t, 0, 1000) /\ Magnitude(y, t) = Clamp(b \div t, 0, 1000)
    BY <1>2 DEF Magnitude
  <2> HIDE DEF a, b
  <2>3. a \div t \in Int /\ b \div t \in Int /\ a \div t <= b \div t
    BY <2>1, DivGrows
  <2>4. PICK q \in Int, r \in Int : q = a \div t /\ r = b \div t /\ q <= r
    BY <2>3
  <2> QED
    BY <2>2, <2>4, ClampGrows
<1> QED
  BY <1>1, <1>2

\* A factor of which nothing is known is nought.
LEMMA CriticalityGrows ==
  ASSUME NEW x \in Int, NEW y \in Int, x = None \/ (y # None /\ x <= y)
  PROVE  NoLarger(Criticality(x), Criticality(y))
<1> DEFINE a == (x * 1000) \div 3
           b == (y * 1000) \div 3
<1>1. PICK q \in Int, r \in Int : q = a /\ r = b /\ (x <= y => q <= r)
  OBVIOUS
<1>2. /\ Criticality(x) = IF x = None THEN 0 ELSE Clamp(a, 0, 1000)
      /\ Criticality(y) = IF y = None THEN 0 ELSE Clamp(b, 0, 1000)
  BY DEF Criticality
<1> HIDE DEF a, b
<1>3. CASE x # None
  <2>1. NoLarger(Clamp(q, 0, 1000), Clamp(r, 0, 1000))
    BY <1>1, <1>3, ClampGrows
  <2> QED
    BY <1>1, <1>2, <1>3, <2>1
<1>4. CASE x = None
  <2>1. NoLarger(0, Clamp(r, 0, 1000)) /\ NoLarger(0, 0)
    BY DEF Clamp, NoLarger
  <2> QED
    BY <1>1, <1>2, <1>4, <2>1
<1> QED
  BY <1>3, <1>4

LEMMA CorroborationGrows ==
  ASSUME NEW x \in Int, NEW y \in Int, x <= y
  PROVE  NoLarger(Corroboration(x), Corroboration(y))
BY DEF Corroboration, NoLarger, Clamp

LEMMA QualityGrows ==
  ASSUME NEW x \in Int, NEW y \in Int, x = None \/ (y # None /\ x <= y)
  PROVE  NoLarger(Quality(x), Quality(y))
BY DEF Quality, NoLarger, Clamp, None

LEMMA HealthGrows ==
  ASSUME NEW x \in Int, NEW y \in Int, x = None \/ (y # None /\ y <= x)
  PROVE  NoLarger(Health(x), Health(y))
BY DEF Health, NoLarger, Clamp, None

\* A hundredth of a larger sum is no smaller, nor is its priority.
LEMMA HundredthGrows ==
  ASSUME NEW a \in Int, NEW b \in Int, a <= b
  PROVE  /\ Clamp(a \div 100, 0, 1000) <= Clamp(b \div 100, 0, 1000)
         /\ PriorityForScore(Clamp(a \div 100, 0, 1000)) <= PriorityForScore(Clamp(b \div 100, 0, 1000))
<1>1. a \div 100 \in Int /\ b \div 100 \in Int /\ a \div 100 <= b \div 100
  OBVIOUS
<1> QED
  BY <1>1 DEF Clamp, PriorityForScore

LEMMA SeverityFactor ==
  ASSUME NEW x \in Observed, NEW y \in Observed, Worse(x, y)
  PROVE  NoLarger(Clamp(x.severity, 0, 1000), Clamp(y.severity, 0, 1000))
<1>1. PICK a \in Int, b \in Int : a = x.severity /\ b = y.severity /\ a <= b
  BY DEF Observed, Worse
<1>2. NoLarger(Clamp(a, 0, 1000), Clamp(b, 0, 1000))
  BY <1>1, ClampGrows
<1> QED
  BY <1>1, <1>2

LEMMA MetricsFactor ==
  ASSUME NEW x \in Observed, NEW y \in Observed, Worse(x, y)
  PROVE  NoLarger(Corroboration(x.metrics), Corroboration(y.metrics))
<1>1. PICK a \in Int, b \in Int : a = x.metrics /\ b = y.metrics /\ a <= b
  BY DEF Observed, Worse
<1>2. NoLarger(Corroboration(a), Corroboration(b))
  BY <1>1, CorroborationGrows
<1> QED
  BY <1>1, <1>2

LEMMA CriticalityFactor ==
  ASSUME NEW x \in Observed, NEW y \in Observed, Worse(x, y)
  PROVE  NoLarger(Criticality(x.criticality), Criticality(y.criticality))
<1>1. PICK a \in Int, b \in Int : a = x.criticality /\ b = y.criticality /\ (a = None \/ (b # None /\ a <= b))
  BY DEF Observed, Worse
<1>2. NoLarger(Criticality(a), Criticality(b))
  BY <1>1, CriticalityGrows
<1> QED
  BY <1>1, <1>2

LEMMA LossFactor ==
  ASSUME NEW x \in Observed, NEW y \in Observed, Worse(x, y)
  PROVE  NoLarger(Quality(x.loss), Quality(y.loss))
<1>1. PICK a \in Int, b \in Int : a = x.loss /\ b = y.loss /\ (a = None \/ (b # None /\ a <= b))
  BY DEF Observed, Worse
<1>2. NoLarger(Quality(a), Quality(b))
  BY <1>1, QualityGrows
<1> QED
  BY <1>1, <1>2

LEMMA HealthFactor ==
  ASSUME NEW x \in Observed, NEW y \in Observed, Worse(x, y)
  PROVE  NoLarger(Health(x.health), Health(y.health))
<1>1. PICK a \in Int, b \in Int : a = x.health /\ b = y.health /\ (a = None \/ (b # None /\ b <= a))
  BY DEF Observed, Worse
<1>2. NoLarger(Health(a), Health(b))
  BY <1>1, HealthGrows
<1> QED
  BY <1>1, <1>2

LEMMA MagnitudeFactor ==
  ASSUME NEW x \in Observed, NEW y \in Observed, Worse(x, y)
  PROVE  NoLarger(Magnitude(x.observed, x.threshold), Magnitude(y.observed, y.threshold))
<1>1. PICK a \in Int, b \in Int, t \in Int : a = x.observed /\ b = y.observed /\ a <= b /\ t = x.threshold /\ t = y.threshold
  BY DEF Observed, Worse
<1>2. NoLarger(Magnitude(a, t), Magnitude(b, t))
  BY <1>1, MagnitudeGrows
<1> QED
  BY <1>1, <1>2

LEMMA SumGrows ==
  ASSUME NEW a, NEW b, NEW c, NEW d, NEW e, NEW f, NEW a2, NEW b2, NEW c2, NEW d2, NEW e2, NEW f2,
         NoLarger(a, a2), NoLarger(b, b2), NoLarger(c, c2), NoLarger(d, d2), NoLarger(e, e2), NoLarger(f, f2)
  PROVE  LET p == 40 * a + 25 * b + 15 * c + 10 * d + 5 * e + 5 * f
             q == 40 * a2 + 25 * b2 + 15 * c2 + 10 * d2 + 5 * e2 + 5 * f2
         IN  p \in Int /\ q \in Int /\ p <= q
BY DEF NoLarger

LEMMA EveryWorseScoresHigher == ASSUME NEW i \in ScoredPairs PROVE WorseScoresHigher(i)
<1> SUFFICES ASSUME NEW x \in Observed, NEW y \in Observed, Worse(x, y)
             PROVE  Score(x) <= Score(y) /\ PriorityForScore(Score(x)) <= PriorityForScore(Score(y))
  BY ScoredPairsAssumption DEF WorseScoresHigher
<1> DEFINE p == 40 * Clamp(x.severity, 0, 1000) + 25 * Magnitude(x.observed, x.threshold)
                + 15 * Corroboration(x.metrics) + 10 * Criticality(x.criticality)
                + 5 * Quality(x.loss) + 5 * Health(x.health)
           q == 40 * Clamp(y.severity, 0, 1000) + 25 * Magnitude(y.observed, y.threshold)
                + 15 * Corroboration(y.metrics) + 10 * Criticality(y.criticality)
                + 5 * Quality(y.loss) + 5 * Health(y.health)
<1>1. p \in Int /\ q \in Int /\ p <= q
  BY SeverityFactor, MagnitudeFactor, MetricsFactor, CriticalityFactor, LossFactor, HealthFactor, SumGrows
<1>2. Score(x) = Clamp(p \div 100, 0, 1000) /\ Score(y) = Clamp(q \div 100, 0, 1000)
  BY DEF Score
<1> HIDE DEF p, q
<1> QED
  BY <1>1, <1>2, HundredthGrows

\* For all windows in the order of their times, whatever the rules' minimum, a hit of any rule
\* lies in its window; and for all pairs of observations the worse one scores no lower.
THEOREM RulesHold == RulesSpec => []RulesSound
<1> DEFINE Tried == (subject = "rules" => input \in Windows) /\ (subject = "scores" => input \in ScoredPairs)
<1>1. Untried => Tried
  BY DEF Untried
<1>2. Tried /\ [TryRules \/ TryScores]_trial => Tried'
  BY DEF TryRules, TryScores, Try, trial
<1>3. Tried => RulesSound
  BY EveryWindowOrdered, EveryWorseScoresHigher DEF RulesSound, For
<1> QED
  BY <1>1, <1>2, <1>3, PTL DEF RulesSpec
=============================================================================
