------------------------- MODULE DeviceNetworkProofs -------------------------
(***************************************************************************)
(* Proofs about DeviceNetwork for any devices, refreshes and times.  IInv  *)
(* is the inductive invariant:                                             *)
(*   TypeOK, LoopStopsBehindBatch, and BatchIsWhole as Whole;              *)
(*   Dated     a row is stamped no later than it was observed;             *)
(*   Pending   what a refresh has in hand is of its own beginning and      *)
(*             later, and what it has flushed are devices without a        *)
(*             number;                                                     *)
(*   Single    one refresh at most has flushed rows.                       *)
(* The last part is about NetworkViews, the functions a refresh and its    *)
(* pages are made of: their invariant is the property of each input.       *)
(***************************************************************************)
EXTENDS DeviceNetwork, NetworkViews, FiniteSetTheorems, SequenceTheorems, WellFoundedInduction, TLAPS

Dated == \A x \in Range(snapshots) : x.at <= x.observed /\ x.observed <= now

InHand(x, t) ==
  /\ IsFiniteSet(x.answers) /\ x.at <= t
  /\ \A y \in x.answers : x.at <= y.observed /\ y.observed <= t
  /\ \A i \in DOMAIN x.flushed :
       LET y == x.flushed[i] IN
       y.at = x.at /\ y.observed = x.at /\ y.status = "not_supported" /\ y.asset \notin Cellular
Pending == \A r \in Refreshes : InHand(refreshes[r], now)

\* Numbers are held by one refresh at a time.
Single == \A r, o \in Refreshes : refreshes[r].flushed # << >> /\ refreshes[o].flushed # << >> => r = o

\* BatchIsWhole over the rows rather than their positions.
Whole ==
  /\ \A r \in Refreshes : refreshes[r].pc = "done" =>
       \A y \in refreshes[r].answers :
         \E x \in Range(snapshots) : x.asset = y.asset /\ x.status = y.status /\ x.observed = y.observed
  /\ \A x \in Range(snapshots) : \E r \in Refreshes : Wrote(r, x)

IInv == TypeOK /\ Whole /\ LoopStopsBehindBatch /\ Dated /\ Pending /\ Single

-----------------------------------------------------------------------------
(* Sequences and sets. *)
\* A set that becomes a sequence loses nothing.
LEMMA SeqOfSet ==
  ASSUME NEW S, IsFiniteSet(S)
  PROVE  SetToSeq(S) \in Seq(S) /\ Range(SetToSeq(S)) = S
<1> DEFINE n == Cardinality(S)
           Is(f) == f \in [1..n -> S] /\ IsInjective(f)
           g == SetToSeq(S)
<1>1. n \in Nat /\ ExistsBijection(1..n, S)
  BY FS_CardinalityType
<1>2. \E f \in [1..n -> S] : IsInjective(f)
  BY <1>1 DEF ExistsBijection, Bijection, Injection, IsInjective
<1>3. g \in [1..n -> S] /\ IsInjective(g)
  BY <1>2 DEF SetToSeq
<1>4. g \in Seq(S)
  BY <1>1, <1>3
<1>5. g \in Injection(1..n, S)
  BY <1>3 DEF Injection, IsInjective
<1>6. Cardinality(1..n) = n
  BY <1>1, FS_Interval
<1> HIDE DEF g
<1>7. g \in Surjection(1..n, S)
  BY <1>5, <1>6, FS_Injection
<1>8. Range(g) = S
  BY <1>3, <1>7 DEF Surjection, Range
<1> QED
  BY <1>4, <1>8 DEF g

\* What is in a sequence after another is appended.
LEMMA Appended ==
  ASSUME NEW S, NEW s \in Seq(S), NEW t \in Seq(S)
  PROVE  s \o t \in Seq(S) /\ Range(s \o t) = Range(s) \union Range(t)
<1>1. /\ s \o t \in Seq(S) /\ Len(s \o t) = Len(s) + Len(t) /\ DOMAIN s = 1..Len(s) /\ DOMAIN t = 1..Len(t)
      /\ \A i \in 1..Len(s) + Len(t) : (s \o t)[i] = IF i <= Len(s) THEN s[i] ELSE t[i - Len(s)]
      /\ DOMAIN (s \o t) = 1..Len(s \o t) /\ Len(s) \in Nat /\ Len(t) \in Nat
  BY ConcatProperties
<1> DEFINE u == s \o t
<1> HIDE DEF u
<1>2. \A x \in Range(s) : x \in Range(u)
  <2> SUFFICES ASSUME NEW i \in 1..Len(s) PROVE s[i] \in Range(u)
    BY <1>1 DEF Range
  <2>1. i \in DOMAIN u /\ u[i] = s[i]
    BY <1>1 DEF u
  <2> QED
    BY <2>1 DEF Range
<1>3. \A x \in Range(t) : x \in Range(u)
  <2> SUFFICES ASSUME NEW i \in 1..Len(t) PROVE t[i] \in Range(u)
    BY <1>1 DEF Range
  <2>1. Len(s) + i \in DOMAIN u /\ u[Len(s) + i] = t[i]
    BY <1>1 DEF u
  <2> QED
    BY <2>1 DEF Range
<1>4. \A x \in Range(u) : x \in Range(s) \/ x \in Range(t)
  <2> SUFFICES ASSUME NEW i \in DOMAIN u PROVE u[i] \in Range(s) \/ u[i] \in Range(t)
    BY DEF Range
  <2>1. CASE i <= Len(s)
    <3>1. i \in DOMAIN s /\ u[i] = s[i]
      BY <1>1, <2>1 DEF u
    <3> QED
      BY <3>1 DEF Range
  <2>2. CASE ~(i <= Len(s))
    <3>1. i - Len(s) \in DOMAIN t /\ u[i] = t[i - Len(s)]
      BY <1>1, <2>2 DEF u
    <3> QED
      BY <3>1 DEF Range
  <2> QED
    BY <2>1, <2>2
<1> QED
  BY <1>1, <1>2, <1>3, <1>4 DEF u

\* A sequence over a set is one over a larger set.
LEMMA Wider ==
  ASSUME NEW S, NEW T, S \subseteq T, NEW s \in Seq(S)
  PROVE  s \in Seq(T)
  OBVIOUS

\* What a sequence holds.
LEMMA InRange ==
  ASSUME NEW S, NEW s \in Seq(S)
  PROVE  \A x \in Range(s) : x \in S
  BY DEF Range

\* The smallest of numbers.
LEMMA SmallestNat == ASSUME NEW T \in SUBSET Nat, T # {} PROVE \E x \in T : \A y \in T : x <= y
<1> DEFINE R == {ss \in Nat \X Nat : ss[1] < ss[2]}
<1>1. R = OpToRel(<, Nat)
  BY DEF OpToRel
<1>2. IsWellFoundedOn(R, Nat)
  BY <1>1, NatLessThanWellFounded
<1>3. ASSUME NEW x \in Nat, NEW y \in Nat, y < x PROVE <<y, x>> \in R
  BY <1>3
<1> HIDE DEF R
<1>4. PICK x \in T : \A y \in T : <<y, x>> \notin R
  BY <1>2, WFMin
<1>5. \A y \in T : ~ (y < x)
  BY <1>3, <1>4
<1> QED
  BY <1>5

\* The largest of numbers up to n.
LEMMA LargestUpTo ==
  ASSUME NEW n \in Nat, NEW T \in SUBSET (0..n), T # {}
  PROVE  \E x \in T : \A y \in T : y <= x
<1> DEFINE D == {n - x : x \in T}
<1>1. D \in SUBSET Nat /\ D # {}
  <2>1. \A x \in T : x \in Nat /\ n - x \in Nat
    OBVIOUS
  <2> QED
    BY <2>1
<1>2. PICK d \in D : \A e \in D : d <= e
  <2> HIDE DEF D
  <2> QED
    BY <1>1, SmallestNat
<1>3. PICK x \in T : d = n - x
  BY <1>2
<1>4. ASSUME NEW y \in T PROVE y <= x
  <2>1. n - y \in D
    OBVIOUS
  <2> QED
    BY <1>2, <1>3, <2>1
<1> QED
  BY <1>4

\* A device with rows has a latest one, and it is one of its rows.
LEMMA LatestFact ==
  ASSUME TypeOK, NEW a \in Assets, Rows(a) # {}
  PROVE  LatestOf(a) \in Range(snapshots)
<1> DEFINE n == Len(snapshots)
           ats == {snapshots[i].at : i \in Rows(a)}
<1>1. /\ n \in Nat /\ DOMAIN snapshots = 1..n /\ Rows(a) \subseteq 1..n /\ MaxTime \in Nat
      /\ \A i \in 1..n : snapshots[i].at \in 0..MaxTime
  <2>1. snapshots \in Seq(Snapshot) /\ MaxTime \in Nat
    BY NetworkAssumption DEF TypeOK
  <2>2. n \in Nat /\ DOMAIN snapshots = 1..n /\ \A i \in 1..n : snapshots[i] \in Snapshot
    BY <2>1
  <2>3. \A i \in 1..n : snapshots[i].at \in 0..MaxTime
    BY <2>2 DEF Snapshot
  <2> QED
    BY <2>1, <2>2, <2>3 DEF Rows
<1>2. ats \in SUBSET (0..MaxTime) /\ ats # {}
  BY <1>1
<1>3. PICK m \in ats : \A x \in ats : x <= m
  <2> HIDE DEF ats
  <2> QED
    BY <1>1, <1>2, LargestUpTo
<1> DEFINE tops == {i \in Rows(a) : snapshots[i].at = m}
<1>4. tops \in SUBSET (0..n) /\ tops # {}
  BY <1>1, <1>3
<1>5. PICK i \in tops : \A j \in tops : j <= i
  <2> HIDE DEF tops
  <2> QED
    BY <1>1, <1>4, LargestUpTo
<1>6. ASSUME NEW j \in Rows(a) PROVE Newer(i, j)
  <2>1. snapshots[j].at <= m /\ snapshots[i].at = m
    BY <1>3, <1>5
  <2>2. m \in 0..MaxTime /\ snapshots[j].at \in 0..MaxTime /\ i \in 1..n /\ j \in 1..n
    BY <1>1, <1>2, <1>3, <1>5
  <2>3. CASE snapshots[j].at = m
    <3>1. j <= i
      BY <1>5, <2>3
    <3> QED
      BY <2>1, <2>2, <2>3, <3>1 DEF Newer
  <2>4. CASE snapshots[j].at # m
    BY <2>1, <2>2, <2>4 DEF Newer
  <2> QED
    BY <2>3, <2>4
<1>7. \E k \in Rows(a) : \A j \in Rows(a) : Newer(k, j)
  BY <1>5, <1>6
<1>8. (CHOOSE k \in Rows(a) : \A j \in Rows(a) : Newer(k, j)) \in Rows(a)
  BY <1>7
<1> QED
  BY <1>1, <1>8 DEF LatestOf, Range

\* The image of a finite set is finite.
LEMMA FiniteImage ==
  ASSUME NEW S, IsFiniteSet(S), NEW f, f \in [S -> {f[x] : x \in S}]
  PROVE  IsFiniteSet({f[x] : x \in S})
<1> DEFINE T == {f[x] : x \in S}
<1>1. f \in Surjection(S, T)
  BY DEF Surjection
<1> QED
  BY <1>1, FS_Surjection

-----------------------------------------------------------------------------
(* Steps of one refresh. *)
\* One refresh changes.
LEMMA One ==
  ASSUME TypeOK, NEW r \in Refreshes, NEW w \in Refresh, refreshes' = [refreshes EXCEPT ![r] = w]
  PROVE  /\ refreshes' \in [Refreshes -> Refresh] /\ refreshes'[r] = w
         /\ \A o \in Refreshes \ {r} : refreshes'[o] = refreshes[o]
  BY DEF TypeOK

\* Of a refresh that has flushed rows, one is of a device without a number.
LEMMA UncommittedFact ==
  ASSUME TypeOK, Pending, NEW o \in Refreshes, refreshes[o].flushed # << >>
  PROVE  /\ refreshes[o].pc = "querying"
         /\ \E i \in DOMAIN refreshes[o].flushed : refreshes[o].flushed[i].status = "not_supported"
<1>1. refreshes[o].flushed \in Seq(Snapshot) /\ refreshes[o].pc = "querying"
  BY DEF TypeOK, Refresh
<1>2. 1 \in DOMAIN refreshes[o].flushed
  BY <1>1
<1> QED
  BY <1>1, <1>2 DEF Pending, InHand

\* A step that stores nothing.
LEMMA QuietStep ==
  ASSUME IInv, NEW r \in Refreshes, NEW w \in Refresh, refreshes' = [refreshes EXCEPT ![r] = w],
         UNCHANGED <<now, snapshots>>, loop = Free, loop' \in {Free, r},
         InHand(w, now), w.flushed # << >> => w.pc = "querying", w.pc = "waiting" <=> loop' = r,
         loop' = r => Uncommitted(r), w.flushed # << >> => ~Uncommitted(r), refreshes[r].pc # "done", w.pc # "done"
  PROVE  IInv'
<1>1. /\ refreshes' \in [Refreshes -> Refresh] /\ refreshes'[r] = w
      /\ \A o \in Refreshes \ {r} : refreshes'[o] = refreshes[o]
  BY One DEF IInv
<1>2. Free \notin Refreshes
  BY NetworkAssumption DEF Free
<1>3. TypeOK'
  BY <1>1, <1>2 DEF IInv, TypeOK
<1>4. Whole'
  <2>1. \A o \in Refreshes, x \in Range(snapshots) : Wrote(o, x) => Wrote(o, x)'
    BY <1>1 DEF Wrote
  <2> QED
    BY <1>1, <2>1 DEF IInv, Whole
<1>5. LoopStopsBehindBatch'
  <2> SUFFICES ASSUME loop' = r PROVE LoopStopsBehindBatch'
    BY DEF LoopStopsBehindBatch, Free
  <2>1. PICK o \in Refreshes \ {r} : refreshes[o].flushed # << >>
    BY DEF Uncommitted
  <2> QED
    BY <1>1, <2>1, UncommittedFact DEF IInv, LoopStopsBehindBatch
<1>6. Dated' /\ Pending'
  <2>1. \A o \in Refreshes \ {r} : InHand(refreshes'[o], now)
    BY <1>1 DEF IInv, Pending, InHand
  <2>2. InHand(refreshes'[r], now)
    BY <1>1 DEF InHand
  <2> QED
    BY <2>1, <2>2 DEF IInv, Dated, Pending
<1>7. Single'
  BY <1>1 DEF IInv, Single, Uncommitted
<1> QED
  BY <1>3, <1>4, <1>5, <1>6, <1>7 DEF IInv

\* A refresh that ends stores the rows T.
LEMMA StoreStep ==
  ASSUME IInv, NEW r \in Refreshes, NEW w \in Refresh, refreshes' = [refreshes EXCEPT ![r] = w],
         loop = Free, UNCHANGED <<now, loop>>, refreshes[r].pc # "done",
         w.pc = "done", w.flushed = << >>, InHand(w, now),
         NEW T \in Seq(Snapshot), snapshots' = snapshots \o T,
         \A y \in w.answers : \E x \in Range(T) :
            x.asset = y.asset /\ x.status = y.status /\ x.observed = y.observed,
         \A x \in Range(T) :
            /\ x.at <= x.observed /\ x.observed <= now
            /\ IF x.asset \in Cellular THEN \E y \in w.answers : y.asset = x.asset /\ y.observed = x.observed
               ELSE x.at = w.at
  PROVE  IInv'
<1>1. /\ refreshes' \in [Refreshes -> Refresh] /\ refreshes'[r] = w
      /\ \A o \in Refreshes \ {r} : refreshes'[o] = refreshes[o]
  BY One DEF IInv
<1>2. Free \notin Refreshes /\ snapshots \in Seq(Snapshot)
  BY NetworkAssumption DEF Free, IInv, TypeOK
<1>3. snapshots' \in Seq(Snapshot) /\ Range(snapshots') = Range(snapshots) \union Range(T)
  BY <1>2, Appended
<1>4. TypeOK'
  BY <1>1, <1>2, <1>3 DEF IInv, TypeOK
<1>5. Whole'
  <2>1. \A o \in Refreshes, x \in Range(snapshots) : Wrote(o, x) => Wrote(o, x)'
    BY <1>1 DEF Wrote
  <2>2. \A x \in Range(T) : Wrote(r, x)'
    BY <1>1 DEF Wrote
  <2>3. \A x \in Range(snapshots') : \E o \in Refreshes : Wrote(o, x)'
    BY <1>3, <2>1, <2>2 DEF IInv, Whole
  <2>4. \A o \in Refreshes : refreshes'[o].pc = "done" =>
          \A y \in refreshes'[o].answers :
            \E x \in Range(snapshots') : x.asset = y.asset /\ x.status = y.status /\ x.observed = y.observed
    BY <1>1, <1>3 DEF IInv, Whole
  <2>5. Range(snapshots)' = Range(snapshots')
    BY DEF Range
  <2> QED
    BY <2>3, <2>4, <2>5 DEF Whole
<1>6. LoopStopsBehindBatch'
  BY DEF LoopStopsBehindBatch
<1>7. Dated'
  <2>1. Range(snapshots)' = Range(snapshots')
    BY DEF Range
  <2> QED
    BY <1>3, <2>1 DEF IInv, Dated
<1>8. Pending'
  <2>1. \A o \in Refreshes \ {r} : InHand(refreshes'[o], now)
    BY <1>1 DEF IInv, Pending, InHand
  <2>2. InHand(refreshes'[r], now)
    BY <1>1 DEF InHand
  <2> QED
    BY <2>1, <2>2 DEF Pending
<1>9. Single'
  BY <1>1 DEF IInv, Single
<1> QED
  BY <1>4, <1>5, <1>6, <1>7, <1>8, <1>9 DEF IInv

-----------------------------------------------------------------------------
(* The steps. *)
\* The clock.
LEMMA TickStep == ASSUME IInv, Tick PROVE IInv'
<1>1. /\ now' = now + 1 /\ now < MaxTime /\ UNCHANGED <<snapshots, refreshes, loop>>
      /\ now \in 0..MaxTime /\ MaxTime \in Nat
  BY NetworkAssumption DEF Tick, IInv, TypeOK
<1>2. TypeOK'
  BY <1>1 DEF IInv, TypeOK
<1>3. Whole' /\ LoopStopsBehindBatch'
  BY <1>1 DEF IInv, Whole, Wrote, LoopStopsBehindBatch, Range
<1>4. Dated'
  <2>1. \A x \in Range(snapshots) : x.observed \in 0..MaxTime
    <3>1. snapshots \in Seq(Snapshot)
      BY DEF IInv, TypeOK
    <3>2. \A x \in Range(snapshots) : x \in Snapshot
      BY <3>1, InRange
    <3> QED
      BY <3>2 DEF Snapshot
  <2> QED
    BY <1>1, <2>1 DEF IInv, Dated, Range
<1>5. Pending'
  <2> SUFFICES ASSUME NEW r \in Refreshes PROVE InHand(refreshes[r], now')
    BY <1>1 DEF Pending
  <2>1. /\ InHand(refreshes[r], now) /\ refreshes[r].at \in 0..MaxTime
        /\ \A y \in refreshes[r].answers : y.observed \in 0..MaxTime
    BY DEF IInv, Pending, TypeOK, Refresh, Answers
  <2> QED
    BY <1>1, <2>1 DEF InHand
<1> QED
  BY <1>1, <1>2, <1>3, <1>4, <1>5 DEF IInv, Single

\* An answer.
LEMMA AnswerStep ==
  ASSUME IInv, NEW r \in Refreshes, NEW a \in Cellular, NEW s \in Replies, Answer(r, a, s) PROVE IInv'
<1> DEFINE x == refreshes[r]
           y == [asset |-> a, status |-> s, observed |-> now]
           w == [x EXCEPT !.answers = @ \union {y}]
<1>1. /\ loop = Free /\ x.pc = "querying" /\ UNCHANGED <<now, snapshots, loop>>
      /\ refreshes' = [refreshes EXCEPT ![r] = w]
      /\ x \in Refresh /\ now \in 0..MaxTime /\ InHand(x, now) /\ Free \notin Refreshes
  BY NetworkAssumption DEF Answer, IInv, TypeOK, Pending, Free
<1>2. y \in Answers
  BY <1>1 DEF Answers, Statuses
<1>3. /\ w \in Refresh /\ w.pc = "querying" /\ w.at = x.at /\ w.flushed = x.flushed
      /\ w.answers = x.answers \union {y}
  BY <1>1, <1>2 DEF Refresh
<1>4. x.at \in 0..MaxTime
  BY <1>1 DEF Refresh
<1>5. InHand(w, now)
  <2>1. IsFiniteSet(w.answers)
    BY <1>1, <1>3, FS_AddElement DEF InHand
  <2> HIDE DEF w
  <2>2. \A z \in w.answers : x.at <= z.observed /\ z.observed <= now
    BY <1>1, <1>3, <1>4 DEF InHand
  <2> QED
    BY <1>1, <1>3, <2>1, <2>2 DEF InHand
<1>6. w.flushed # << >> => ~Uncommitted(r)
  BY <1>3 DEF IInv, Single, Uncommitted
<1>7. w.flushed # << >> => w.pc = "querying"
  BY <1>3
<1> HIDE DEF w
<1> QED
  BY <1>1, <1>3, <1>5, <1>6, QuietStep

\* What a refresh that ends in a failure keeps.
LEMMA RollBackFact ==
  ASSUME NEW x \in Refresh, InHand(x, now)
  PROVE  /\ RollBack(x) \in Refresh /\ RollBack(x).pc = "failed" /\ RollBack(x).flushed = << >>
         /\ RollBack(x).answers = x.answers /\ InHand(RollBack(x), now)
<1> DEFINE w == [x EXCEPT !.pc = "failed", !.flushed = << >>]
<1>1. /\ w \in Refresh /\ w.pc = "failed" /\ w.flushed = << >> /\ w.at = x.at /\ w.answers = x.answers
  <2>1. << >> \in Seq(Snapshot)
    OBVIOUS
  <2>2. DOMAIN x = {"pc", "at", "asked", "cached", "answers", "flushed"}
    BY DEF Refresh
  <2> QED
    BY <2>1, <2>2 DEF Refresh
<1> HIDE DEF w
<1>2. InHand(w, now)
  BY <1>1 DEF InHand
<1> QED
  BY <1>1, <1>2 DEF RollBack, w

\* A failure.
LEMMA FailStep == ASSUME IInv, NEW r \in Refreshes, Fail(r) PROVE IInv'
<1> DEFINE w == RollBack(refreshes[r])
<1>1. /\ loop = Free /\ refreshes[r].pc = "querying" /\ UNCHANGED <<now, snapshots, loop>>
      /\ refreshes' = [refreshes EXCEPT ![r] = w]
      /\ refreshes[r] \in Refresh /\ InHand(refreshes[r], now) /\ Free \notin Refreshes
  BY NetworkAssumption DEF Fail, IInv, TypeOK, Pending, Free
<1>2. w \in Refresh /\ w.pc = "failed" /\ w.flushed = << >> /\ InHand(w, now)
  BY <1>1, RollBackFact
<1> HIDE DEF w
<1> QED
  BY <1>1, <1>2, QuietStep

\* A restart.
LEMMA RestartStep == ASSUME IInv, Restart PROVE IInv'
<1> DEFINE Ended(x) == IF x.pc \in {"querying", "waiting"} THEN RollBack(x) ELSE x
<1>1. /\ refreshes' = [r \in Refreshes |-> Ended(refreshes[r])]
      /\ loop' = Free /\ UNCHANGED <<now, snapshots>> /\ Free \notin Refreshes /\ TypeOK
  BY NetworkAssumption DEF Restart, Free, IInv
<1>2. ASSUME NEW r \in Refreshes
      PROVE  /\ Ended(refreshes[r]) \in Refresh /\ InHand(Ended(refreshes[r]), now)
             /\ Ended(refreshes[r]).pc \notin {"querying", "waiting"}
             /\ Ended(refreshes[r]).flushed = << >>
             /\ Ended(refreshes[r]).answers = refreshes[r].answers
             /\ Ended(refreshes[r]).pc = "done" <=> refreshes[r].pc = "done"
             /\ Ended(refreshes[r]).pc = "done" => Ended(refreshes[r]).at = refreshes[r].at
  <2>1. /\ refreshes[r] \in Refresh /\ InHand(refreshes[r], now)
        /\ refreshes[r].flushed # << >> => refreshes[r].pc = "querying"
    BY DEF IInv, TypeOK, Pending
  <2> QED
    BY <2>1, RollBackFact
<1> HIDE DEF Ended
<1>3. TypeOK'
  BY <1>1, <1>2 DEF TypeOK
<1>4. Whole'
  <2>1. \A o \in Refreshes, x \in Range(snapshots) : Wrote(o, x) => Wrote(o, x)'
    BY <1>1, <1>2 DEF Wrote
  <2> QED
    BY <1>1, <1>2, <2>1 DEF IInv, Whole, Range
<1> QED
  BY <1>1, <1>2, <1>3, <1>4 DEF IInv, LoopStopsBehindBatch, Dated, Pending, Single, Range

\* A set of numbers that becomes a sequence of rows.
LEMMA RowsFact ==
  ASSUME NEW S \in SUBSET Snapshot, IsFiniteSet(S)
  PROVE  SetToSeq(S) \in Seq(Snapshot) /\ Range(SetToSeq(S)) = S
  BY SeqOfSet, Wider

\* The end of a refresh.
LEMMA FinishStep == ASSUME IInv, NEW r \in Refreshes, Finish(r) PROVE IInv'
<1> DEFINE x == refreshes[r]
           answered == {Persist(r, y.asset, y.status, y.observed) : y \in x.answers}
<1>1. /\ loop = Free /\ x.pc = "querying" /\ AllAnswered(x) /\ now' = now
      /\ x \in Refresh /\ InHand(x, now) /\ Free \notin Refreshes /\ snapshots \in Seq(Snapshot)
  BY NetworkAssumption DEF Finish, IInv, TypeOK, Pending, Free
<1>2. DOMAIN x = {"pc", "at", "asked", "cached", "answers", "flushed"}
  BY <1>1 DEF Refresh
<1>3. CASE Uncommitted(r)
  <2> DEFINE w == [x EXCEPT !.pc = "waiting"]
  <2>1. /\ refreshes' = [refreshes EXCEPT ![r] = w]
        /\ loop' = r /\ snapshots' = snapshots
    BY <1>3 DEF Finish
  <2>2. x.flushed = << >>
    BY <1>3 DEF IInv, Single, Uncommitted
  <2>3. w \in Refresh /\ w.pc = "waiting" /\ w.at = x.at /\ w.flushed = << >> /\ w.answers = x.answers
    BY <1>1, <1>2, <2>2 DEF Refresh
  <2> HIDE DEF w
  <2>4. InHand(w, now)
    BY <1>1, <2>3 DEF InHand
  <2> QED
    BY <1>1, <1>3, <2>1, <2>3, <2>4, QuietStep
<1>4. CASE ~Uncommitted(r)
  <2> DEFINE w == [x EXCEPT !.pc = "done", !.flushed = << >>]
             f == [y \in x.answers |-> Persist(r, y.asset, y.status, y.observed)]
             T == x.flushed \o SetToSeq(answered)
  <2>1. /\ refreshes' = [refreshes EXCEPT ![r] = w] /\ loop' = loop
        /\ snapshots' = snapshots \o x.flushed \o SetToSeq(answered)
    BY <1>4 DEF Finish
  <2>2. w \in Refresh /\ w.pc = "done" /\ w.at = x.at /\ w.flushed = << >> /\ w.answers = x.answers
    <3>1. << >> \in Seq(Snapshot)
      OBVIOUS
    <3> QED
      BY <1>1, <1>2, <3>1 DEF Refresh
  <2>3. InHand(w, now)
    BY <1>1, <2>2 DEF InHand
  <2>4. IsFiniteSet(answered)
    <3>1. answered = {f[y] : y \in x.answers} /\ IsFiniteSet(x.answers)
      BY <1>1 DEF InHand
    <3>2. f \in [x.answers -> {f[y] : y \in x.answers}]
      OBVIOUS
    <3> HIDE DEF f
    <3> QED
      BY <3>1, <3>2, FiniteImage
  <2>5. ASSUME NEW y \in x.answers
        PROVE  LET z == Persist(r, y.asset, y.status, y.observed) IN
               /\ z \in Snapshot /\ z.asset = y.asset /\ z.status = y.status /\ z.observed = y.observed
               /\ z.at = x.at /\ z.asset \in Cellular /\ z.at <= z.observed /\ z.observed <= now
    <3>1. y.asset \in Cellular /\ y.status \in Statuses /\ y.observed \in 0..MaxTime /\ x.at \in 0..MaxTime
      BY <1>1 DEF Refresh, Answers
    <3>2. x.at <= y.observed /\ y.observed <= now
      BY <1>1 DEF InHand
    <3>3. y.asset \in Assets
      BY <3>1, NetworkAssumption
    <3> QED
      BY <3>1, <3>2, <3>3 DEF Persist, Snapshot
  <2>6. SetToSeq(answered) \in Seq(Snapshot) /\ Range(SetToSeq(answered)) = answered
    <3>1. answered \in SUBSET Snapshot
      BY <2>5
    <3> HIDE DEF answered
    <3> QED
      BY <2>4, <3>1, RowsFact
  <2>7. x.flushed \in Seq(Snapshot)
    BY <1>1 DEF Refresh
  <2>8. T \in Seq(Snapshot) /\ Range(T) = Range(x.flushed) \union answered
    <3> HIDE DEF answered
    <3> QED
      BY <2>6, <2>7, Appended
  <2>9. snapshots' = snapshots \o T
    <3> DEFINE t == SetToSeq(answered)
               u == x.flushed
    <3> HIDE DEF t, u
    <3>1. t \in Seq(Snapshot) /\ u \in Seq(Snapshot)
      BY <2>6, <2>7 DEF t, u
    <3>2. (snapshots \o u) \o t = snapshots \o (u \o t)
      BY <1>1, <3>1, ConcatAssociative
    <3> QED
      BY <2>1, <3>2 DEF t, u
  <2>10. \A z \in Range(x.flushed) :
           /\ z.at = x.at /\ z.observed = x.at /\ z.asset \notin Cellular /\ z.at <= now /\ z.at \in 0..MaxTime
    <3>1. \A i \in DOMAIN x.flushed :
            LET z == x.flushed[i] IN z.at = x.at /\ z.observed = x.at /\ z.asset \notin Cellular
      BY <1>1 DEF InHand
    <3>2. x.at <= now /\ x.at \in 0..MaxTime
      BY <1>1 DEF InHand, Refresh
    <3> QED
      BY <3>1, <3>2 DEF Range
  <2>11. \A y \in w.answers : \E z \in Range(T) :
            z.asset = y.asset /\ z.status = y.status /\ z.observed = y.observed
    <3> HIDE DEF w, T
    <3> SUFFICES ASSUME NEW y \in x.answers
                 PROVE  \E z \in Range(T) : z.asset = y.asset /\ z.status = y.status /\ z.observed = y.observed
      BY <2>2
    <3>1. Persist(r, y.asset, y.status, y.observed) \in answered
      OBVIOUS
    <3> HIDE DEF answered
    <3> QED
      BY <2>5, <2>8, <3>1
  <2>12. \A z \in Range(T) :
            /\ z.at <= z.observed /\ z.observed <= now
            /\ IF z.asset \in Cellular THEN \E y \in w.answers : y.asset = z.asset /\ y.observed = z.observed
               ELSE z.at = w.at
    <3> HIDE DEF w, T
    <3> TAKE z \in Range(T)
    <3>1. CASE z \in Range(x.flushed)
      BY <2>2, <2>10, <3>1
    <3>2. CASE z \in answered
      <4>1. PICK y \in x.answers : z = Persist(r, y.asset, y.status, y.observed)
        BY <3>2
      <4> QED
        BY <2>2, <2>5, <4>1
    <3> QED
      BY <2>8, <3>1, <3>2
  <2> HIDE DEF w, T, x
  <2>13. refreshes[r].pc # "done" /\ UNCHANGED <<now, loop>>
    BY <1>1, <2>1 DEF x
  <2> QED
    BY <1>1, <2>1, <2>2, <2>3, <2>8, <2>9, <2>11, <2>12, <2>13, StoreStep
<1> QED
  BY <1>3, <1>4

\* The beginning of a refresh.
LEMMA BeginStep ==
  ASSUME IInv, NEW r \in Refreshes, NEW wanted \in SUBSET Assets, NEW force \in BOOLEAN, Begin(r, wanted, force)
  PROVE  IInv'
<1> DEFINE cached == IF force THEN {} ELSE {a \in wanted : WithinCache(a)}
           asked  == (wanted \ cached) \intersect Cellular
           others == (wanted \ cached) \ Cellular
           f      == [a \in others |-> [asset |-> a, status |-> "not_supported", at |-> now, observed |-> now]]
           F      == {[asset |-> a, status |-> "not_supported", at |-> now, observed |-> now] : a \in others}
           fresh  == SetToSeq(F)
           S(pc, rows) == [Idle EXCEPT !.pc = pc, !.at = now, !.asked = asked, !.cached = cached, !.flushed = rows]
<1>1. /\ loop = Free /\ refreshes[r].pc = "idle" /\ now' = now /\ now \in 0..MaxTime
      /\ Free \notin Refreshes /\ MaxTime \in Nat
  BY NetworkAssumption DEF Begin, IInv, TypeOK, Free
<1>2. \/ /\ fresh # << >> /\ Uncommitted(r)
         /\ refreshes' = [refreshes EXCEPT ![r] = S("waiting", << >>)]
         /\ loop' = r /\ snapshots' = snapshots
      \/ /\ fresh = << >> \/ ~Uncommitted(r)
         /\ refreshes' = [refreshes EXCEPT ![r] = S("querying", fresh)]
         /\ snapshots' = snapshots /\ loop' = loop
      \/ /\ fresh = << >> \/ ~Uncommitted(r)
         /\ refreshes' = [refreshes EXCEPT ![r] = S("done", << >>)]
         /\ snapshots' = snapshots \o fresh /\ loop' = loop
  BY DEF Begin
<1>3. asked \in SUBSET Assets /\ cached \in SUBSET Assets /\ others \in SUBSET Assets /\ others \intersect Cellular = {}
  OBVIOUS
<1>4. F \in SUBSET Snapshot /\ IsFiniteSet(F)
  <2>1. IsFiniteSet(others)
    BY <1>3, NetworkAssumption, FS_Subset
  <2>2. F = {f[a] : a \in others} /\ f \in [others -> {f[a] : a \in others}]
    OBVIOUS
  <2>3. IsFiniteSet(F)
    <3> HIDE DEF f, others
    <3> QED
      BY <2>1, <2>2, FiniteImage
  <2>4. F \in SUBSET Snapshot
    BY <1>1, <1>3 DEF Snapshot, Statuses
  <2> QED
    BY <2>3, <2>4
<1>5. fresh \in Seq(Snapshot) /\ Range(fresh) = F
  <2> HIDE DEF F
  <2> QED
    BY <1>4, RowsFact
<1>6. \A x \in Range(fresh) : x.at = now /\ x.observed = now /\ x.status = "not_supported" /\ x.asset \notin Cellular
  <2> HIDE DEF fresh
  <2> QED
    BY <1>3, <1>5
<1> HIDE DEF fresh, F, f
<1>7. ASSUME NEW pc \in {"waiting", "querying", "done"}, NEW rows \in Seq(Snapshot)
      PROVE  /\ S(pc, rows) \in Refresh /\ S(pc, rows).pc = pc /\ S(pc, rows).at = now
             /\ S(pc, rows).answers = {} /\ S(pc, rows).flushed = rows
  <2> HIDE DEF asked, cached
  <2> QED
    BY <1>1, <1>3, <1>7 DEF Idle, Refresh
<1> HIDE DEF S
<1>8. ASSUME NEW pc \in {"waiting", "querying", "done"}, NEW rows \in Seq(Snapshot),
             \A i \in DOMAIN rows : rows[i] \in Range(fresh)
      PROVE  InHand(S(pc, rows), now)
  <2> DEFINE w == S(pc, rows)
  <2>1. w.at = now /\ w.answers = {} /\ w.flushed = rows
    BY <1>7
  <2> HIDE DEF w
  <2>2. \A i \in DOMAIN w.flushed : rows[i].at = now /\ rows[i].observed = now
                                     /\ rows[i].status = "not_supported" /\ rows[i].asset \notin Cellular
    BY <1>6, <1>8, <2>1
  <2>3. InHand(w, now)
    BY <1>1, <2>1, <2>2, FS_EmptySet DEF InHand
  <2> QED
    BY <2>3 DEF w
<1>9. << >> \in Seq(Snapshot) /\ DOMAIN << >> = {}
  OBVIOUS
<1>10. \A i \in DOMAIN fresh : fresh[i] \in Range(fresh)
  BY DEF Range
<1>11. CASE /\ fresh # << >> /\ Uncommitted(r)
            /\ refreshes' = [refreshes EXCEPT ![r] = S("waiting", << >>)]
            /\ loop' = r /\ snapshots' = snapshots
  <2> DEFINE w == S("waiting", << >>)
  <2>1. InHand(w, now) /\ w \in Refresh /\ w.pc = "waiting" /\ w.flushed = << >>
    BY <1>7, <1>8, <1>9
  <2> HIDE DEF w
  <2> QED
    BY <1>1, <1>11, <2>1, QuietStep DEF w
<1>12. CASE /\ fresh = << >> \/ ~Uncommitted(r)
            /\ refreshes' = [refreshes EXCEPT ![r] = S("querying", fresh)]
            /\ snapshots' = snapshots /\ loop' = loop
  <2> DEFINE w == S("querying", fresh)
  <2>1. InHand(w, now) /\ w \in Refresh /\ w.pc = "querying" /\ w.flushed = fresh
    BY <1>5, <1>7, <1>8, <1>10
  <2>2. refreshes' = [refreshes EXCEPT ![r] = w] /\ (w.flushed # << >> => ~Uncommitted(r))
    BY <1>12, <2>1
  <2> HIDE DEF w
  <2> QED
    BY <1>1, <1>12, <2>1, <2>2, QuietStep
<1>13. CASE /\ refreshes' = [refreshes EXCEPT ![r] = S("done", << >>)]
            /\ snapshots' = snapshots \o fresh /\ loop' = loop
  <2> DEFINE w == S("done", << >>)
  <2>1. InHand(w, now) /\ w \in Refresh /\ w.pc = "done" /\ w.flushed = << >> /\ w.at = now /\ w.answers = {}
    BY <1>7, <1>8, <1>9
  <2>2. refreshes' = [refreshes EXCEPT ![r] = w]
    BY <1>13
  <2> HIDE DEF w
  <2>3. \A x \in Range(fresh) :
           /\ x.at <= x.observed /\ x.observed <= now
           /\ IF x.asset \in Cellular THEN \E y \in w.answers : y.asset = x.asset /\ y.observed = x.observed
              ELSE x.at = w.at
    BY <1>1, <1>6, <2>1
  <2>4. \A y \in w.answers : \E x \in Range(fresh) :
           x.asset = y.asset /\ x.status = y.status /\ x.observed = y.observed
    BY <2>1
  <2> QED
    BY <1>1, <1>5, <1>13, <2>1, <2>2, <2>3, <2>4, StoreStep
<1> QED
  BY <1>2, <1>11, <1>12, <1>13

-----------------------------------------------------------------------------
(* The invariant, and the theorems. *)
\* It holds at the start.
LEMMA InitIInv == Init => IInv
<1> SUFFICES ASSUME Init PROVE IInv
  OBVIOUS
<1>1. /\ now = 0 /\ snapshots = << >> /\ loop = Free /\ refreshes = [r \in Refreshes |-> Idle]
      /\ Free \notin Refreshes /\ MaxTime \in Nat
  BY NetworkAssumption DEF Init, Free
<1>2. /\ Idle \in Refresh /\ Idle.pc = "idle" /\ Idle.answers = {} /\ Idle.flushed = << >> /\ Idle.at = 0
  BY <1>1 DEF Idle, Refresh
<1>3. Range(snapshots) = {} /\ snapshots \in Seq(Snapshot)
  BY <1>1 DEF Range
<1>4. TypeOK
  BY <1>1, <1>2, <1>3 DEF TypeOK
<1>5. InHand(Idle, now)
  BY <1>1, <1>2, FS_EmptySet DEF InHand
<1> QED
  BY <1>1, <1>2, <1>3, <1>4, <1>5 DEF IInv, Whole, LoopStopsBehindBatch, Dated, Pending, Single

\* Every step preserves it.
LEMMA NextIInv == IInv /\ [Next]_vars => IInv'
<1> SUFFICES ASSUME IInv, [Next]_vars PROVE IInv'
  OBVIOUS
<1>1. CASE UNCHANGED vars
  <2>1. TypeOK' /\ Whole' /\ LoopStopsBehindBatch'
    BY <1>1 DEF vars, IInv, TypeOK, Whole, Wrote, LoopStopsBehindBatch, Range
  <2>2. Dated' /\ Pending' /\ Single'
    BY <1>1 DEF vars, IInv, Dated, Pending, Single, Range
  <2> QED
    BY <2>1, <2>2 DEF IInv
<1> QED
  BY <1>1, TickStep, RestartStep, BeginStep, AnswerStep, FailStep, FinishStep DEF Next

\* The invariant always holds.
LEMMA Always == Spec => []IInv
  BY InitIInv, NextIInv, PTL DEF Spec

\* Snapshots, refreshes and the loop stay of their types, and a refresh waits exactly when
\* it stops the loop (network_health.py, refresh_many).
THEOREM TypeCorrect == Spec => []TypeOK
<1>1. IInv => TypeOK
  BY DEF IInv
<1> QED
  BY <1>1, Always, PTL

\* A batch is all or nothing, for any number of refreshes that overlap, fail or are cut off
\* by a restart (network_health.py, refresh_many; session.py, get_db).
THEOREM BatchesWhole == Spec => []BatchIsWhole
<1>1. IInv => BatchIsWhole
  <2> SUFFICES ASSUME IInv PROVE BatchIsWhole
    OBVIOUS
  <2>1. \A r \in Refreshes : refreshes[r].pc = "done" =>
          \A y \in refreshes[r].answers :
            \E i \in Rows(y.asset) : snapshots[i].status = y.status /\ snapshots[i].observed = y.observed
    BY DEF IInv, Whole, Range, Rows
  <2>2. \A i \in DOMAIN snapshots : \E r \in Refreshes : Wrote(r, snapshots[i])
    BY DEF IInv, Whole, Range
  <2> QED
    BY <2>1, <2>2 DEF BatchIsWhole
<1> QED
  BY <1>1, Always, PTL

\* The event loop stops only behind a batch that flushed a device without a number and
\* awaits the provider (network_health.py, refresh_many).
THEOREM LoopStops == Spec => []LoopStopsBehindBatch
<1>1. IInv => LoopStopsBehindBatch
  BY DEF IInv
<1> QED
  BY <1>1, Always, PTL

\* What is shown as not stale was observed within the limit, whatever the order in which
\* overlapping refreshes end (network_health.py, _is_stale, _within_cache).
THEOREM FreshIsRecent == Spec => []NotStaleIsRecent
<1>1. IInv => NotStaleIsRecent
  <2> SUFFICES ASSUME IInv, NEW a \in Assets, Rows(a) # {}
               PROVE  /\ ~IsStale(a) => now - LatestOf(a).observed <= StaleAfter
                      /\ WithinCache(a) => now - LatestOf(a).observed < CacheSeconds
    BY DEF NotStaleIsRecent, WithinCache
  <2> DEFINE x == LatestOf(a)
  <2>1. x \in Range(snapshots)
    BY LatestFact DEF IInv
  <2>2. snapshots \in Seq(Snapshot) /\ now \in 0..MaxTime /\ StaleAfter \in Nat /\ CacheSeconds \in Nat
    BY NetworkAssumption DEF IInv, TypeOK
  <2>3. x \in Snapshot
    BY <2>1, <2>2, InRange
  <2>4. x.at <= x.observed /\ x.at \in 0..MaxTime /\ x.observed \in 0..MaxTime
    BY <2>1, <2>3 DEF IInv, Dated, Snapshot
  <2> HIDE DEF x
  <2>5. /\ ~(now - x.at > StaleAfter) => now - x.observed <= StaleAfter
        /\ now - x.at < CacheSeconds => now - x.observed < CacheSeconds
    BY <2>2, <2>4
  <2> QED
    BY <2>5 DEF IsStale, WithinCache, x
<1> QED
  BY <1>1, Always, PTL

-----------------------------------------------------------------------------
(***************************************************************************)
(* What the platform makes of the network's answers (NetworkViews).        *)
(***************************************************************************)
\* What a call of the provider answers as reachability, and the row it makes.
LEMMA ReachabilityStatus ==
  ASSUME NEW p
  PROVE  ReachabilityOf(p).status \in {"reachable", "unreachable", "unknown"}
<1>1. (CASE p.reachable = "true" -> "reachable" [] p.reachable = "false" -> "unreachable" [] OTHER -> "unknown")
        \in {"reachable", "unreachable", "unknown"}
  OBVIOUS
<1> QED
  BY <1>1, Zenon DEF ReachabilityOf

\* The via it makes is too long in one case only: the first of several types, none of them known.
LEMMA ViaUnfit ==
  ASSUME NEW p \in NetworkAnswers
  PROVE  ReachabilityOf(p).via = Unfit <=>
           /\ p.via # << >> /\ p.via[1] = Unfit /\ {"data", "sms"} \intersect ToSet(p.via) = {}
           /\ ~ (p.subscription /\ p.reachable = Null)
<1>1. Unfit \notin {Null, "CIRCLE", "data", "sms"}
  BY UnfitAssumption
<1>2. CASE p.subscription /\ p.reachable = Null
  BY <1>1, <1>2 DEF ReachabilityOf
<1>3. CASE ~ (p.subscription /\ p.reachable = Null)
  <2>1. ReachabilityOf(p).via = ReachableVia(p.via)
    BY <1>3 DEF ReachabilityOf
  <2>2. CASE "data" \in ToSet(p.via)
    <3>1. ReachableVia(p.via) = "data"
      BY <2>2, Zenon DEF ReachableVia
    <3> QED
      BY <1>1, <2>1, <2>2, <3>1
  <2>3. CASE "data" \notin ToSet(p.via) /\ "sms" \in ToSet(p.via)
    <3>1. ReachableVia(p.via) = "sms"
      BY <2>3, Zenon DEF ReachableVia
    <3> QED
      BY <1>1, <2>1, <2>3, <3>1
  <2>4. CASE "data" \notin ToSet(p.via) /\ "sms" \notin ToSet(p.via) /\ p.via # << >>
    <3>1. {"data", "sms"} \intersect ToSet(p.via) = {}
      BY <2>4
    <3>2. ReachableVia(p.via) = p.via[1]
      BY <2>4, <3>1, Zenon DEF ReachableVia
    <3> QED
      BY <1>3, <2>1, <2>4, <3>1, <3>2
  <2>5. CASE "data" \notin ToSet(p.via) /\ "sms" \notin ToSet(p.via) /\ p.via = << >>
    <3>1. ReachableVia(p.via) = Null
      BY <2>5, Zenon DEF ReachableVia
    <3> QED
      BY <1>1, <2>1, <2>5, <3>1
  <2> QED
    BY <2>2, <2>3, <2>4, <2>5
<1> QED
  BY <1>2, <1>3

LEMMA ThreeValues == Null # Nan /\ Null # Text /\ Nan # Text /\ Null \notin Int /\ Nan \notin Int /\ Text \notin Int
<1>1. Null \notin Int /\ Nan \notin Int /\ Text \notin Int
  BY NullAssumption, CoordinateAssumption
<1>2. IsFiniteSet({Null}) /\ IsFiniteSet({Nan}) /\ IsFiniteSet({}) /\ Cardinality({}) = 0
  BY FS_EmptySet, FS_Singleton
<1>3. \A x, y : Cardinality({x, y}) <= 2
  <2> SUFFICES ASSUME NEW x, NEW y PROVE Cardinality({x, y}) <= 2
    OBVIOUS
  <2>1. IsFiniteSet({x}) /\ Cardinality({x}) = 1
    BY FS_Singleton
  <2>2. Cardinality({x} \union {y}) = IF y \in {x} THEN Cardinality({x}) ELSE Cardinality({x}) + 1
    BY <2>1, FS_AddElement
  <2>3. {x} \union {y} = {x, y}
    OBVIOUS
  <2> QED
    BY <2>1, <2>2, <2>3
<1>4. Cardinality({Null, Nan, Text}) = 3
  BY CoordinateAssumption
<1>5. ASSUME NEW x, NEW y, {Null, Nan, Text} = {x, y} PROVE FALSE
  <2>1. Cardinality({x, y}) <= 2 /\ Cardinality({x, y}) = 3
    BY <1>3, <1>4, <1>5
  <2> QED
    BY <2>1
<1>6. Null # Nan
  BY <1>5
<1>7. Null # Text
  BY <1>5
<1>8. Nan # Text
  BY <1>5
<1> QED
  BY <1>1, <1>6, <1>7, <1>8

\* A row keeps a location whole or not at all.
LEMMA RowOf ==
  ASSUME NEW r, NEW l, l.available \in BOOLEAN
  PROVE  /\ Row(r, l).status = r.status /\ Row(r, l).via = r.via
         /\ Row(r, l).located = (l.available /\ Null \notin {l.lat, l.lon})
         /\ Row(r, l).located => Row(r, l).lat = l.lat /\ Row(r, l).lon = l.lon /\ Row(r, l).radius = l.radius
              /\ Row(r, l).area = l.area
         /\ ~ Row(r, l).located => Row(r, l).lat = Null /\ Row(r, l).lon = Null /\ Row(r, l).radius = Null
              /\ Row(r, l).area = Null
BY DEF Row

\* A row of no location fits when its status and its via do.
LEMMA UnlocatedFits ==
  ASSUME NEW row, row.status \in {"reachable", "unreachable", "unknown", "not_checked"}, ~ row.located,
         row.lat = Null, row.lon = Null, row.radius = Null, row.area = Null
  PROVE  RowAllowed(row) <=> row.via # Unfit
<1>1. Unfit # Null
  BY UnfitAssumption
<1> QED
  BY <1>1 DEF RowAllowed, Within

\* Nobody asked: the disabled provider's row fits.
LEMMA DisabledFits == RowAllowed(Row(DisabledReachability, NoLocation("provider_disabled")))
<1> DEFINE r == DisabledReachability
           l == NoLocation("provider_disabled")
<1>1. r.status = "not_checked" /\ r.via = Null /\ l.available = FALSE
  BY DEF DisabledReachability, NoLocation
<1>2. Unfit # Null
  BY UnfitAssumption
<1>3. /\ Row(r, l).status = "not_checked" /\ Row(r, l).via = Null /\ ~ Row(r, l).located
      /\ Row(r, l).lat = Null /\ Row(r, l).lon = Null /\ Row(r, l).radius = Null /\ Row(r, l).area = Null
  <2> HIDE DEF r, l
  <2>1. l.available \in BOOLEAN /\ ~ l.available
    BY <1>1
  <2> QED
    BY <1>1, <2>1, RowOf
<1> HIDE DEF r, l
<1>4. RowAllowed(Row(r, l))
  BY <1>2, <1>3, UnlocatedFits
<1> QED
  BY <1>4 DEF r, l

LEMMA EveryAnswerFits == ASSUME NEW p \in NetworkAnswers PROVE AnswersFitTheTable(p)
<1> DEFINE l == LocationOf(p)
           r == ReachabilityOf(p)
           row == Row(r, l)
<1>1. p.lat \in Coordinate /\ p.lon \in Coordinate /\ p.radius \in Coordinate
  BY NetworkAnswersAssumption
<1>2. r.status \in {"reachable", "unreachable", "unknown"}
  BY ReachabilityStatus
<1>3. l.available \in BOOLEAN
  BY DEF LocationOf, NoLocation
<1> DEFINE long == /\ p.via # << >> /\ p.via[1] = Unfit /\ {"data", "sms"} \intersect ToSet(p.via) = {}
                   /\ ~ (p.subscription /\ p.reachable = Null)
<1>6. r.via = Unfit <=> long
  BY ViaUnfit
<1>7. Unfit # Null /\ Unfit # "CIRCLE"
  BY UnfitAssumption
<1>4. CASE ~ l.available
  <2>1. /\ row.status \in {"reachable", "unreachable", "unknown"} /\ ~ row.located
        /\ row.lat = Null /\ row.lon = Null /\ row.radius = Null /\ row.area = Null /\ row.via = r.via
    <3> HIDE DEF l, r
    <3> QED
      BY <1>2, <1>3, <1>4, RowOf
  <2>2. RowAllowed(row) <=> r.via # Unfit
    <3> HIDE DEF row, r
    <3> QED
      BY <2>1, UnlocatedFits
  <2> QED
    BY <1>4, <1>6, <2>2, DisabledFits DEF AnswersFitTheTable
<1>5. CASE l.available
  <2>1. /\ Text \notin {p.lat, p.lon, p.radius} /\ Null \notin {p.lat, p.lon}
        /\ ~ Below(p.lat, -90) /\ ~ Above(p.lat, 90) /\ ~ Below(p.lon, -180) /\ ~ Above(p.lon, 180)
        /\ l.lat = p.lat /\ l.lon = p.lon /\ l.radius = IF Below(p.radius, 0) THEN Null ELSE p.radius
    BY <1>5 DEF LocationOf, NoLocation
  <2>8. l.area = AreaOf(p)
    BY <1>5 DEF LocationOf, NoLocation
  <2>9. AreaOf(p) = Unfit <=> p.area = Unfit
    BY <1>7 DEF AreaOf
  <2>2. /\ row.status \in {"reachable", "unreachable", "unknown"} /\ row.located /\ row.via = r.via /\ row.area = AreaOf(p)
        /\ row.lat = p.lat /\ row.lon = p.lon /\ row.radius = IF Below(p.radius, 0) THEN Null ELSE p.radius
    <3>1. /\ row.status = r.status /\ row.via = r.via /\ row.located = (l.available /\ Null \notin {l.lat, l.lon})
          /\ row.located => row.lat = l.lat /\ row.lon = l.lon /\ row.radius = l.radius /\ row.area = l.area
      <4> HIDE DEF l, r
      <4> QED
        BY <1>3, RowOf
    <3> HIDE DEF l, r, row
    <3> QED
      BY <1>2, <1>5, <2>1, <2>8, <3>1
  <2>3. /\ p.lat \in Int \union {Nan} /\ p.lon \in Int \union {Nan} /\ p.radius \in Int \union {Null, Nan}
    BY <1>1, <2>1 DEF Coordinate
  <2>4. row.radius \in {Null, Nan} \/ row.radius >= 0
    BY <2>2, <2>3, ThreeValues DEF Below, Number
  <2>5. Within(p.lat, -90, 90) <=> p.lat # Nan
    BY <2>1, <2>3, ThreeValues DEF Within, Below, Above, Number
  <2>6. Within(p.lon, -180, 180) <=> p.lon # Nan
    BY <2>1, <2>3, ThreeValues DEF Within, Below, Above, Number
  <2> HIDE DEF row, r
  <2>7. RowAllowed(row) <=> Nan \notin {p.lat, p.lon} /\ r.via # Unfit /\ AreaOf(p) # Unfit
    BY <2>1, <2>2, <2>4, <2>5, <2>6 DEF RowAllowed
  <2>10. RowAllowed(row) <=> (Nan \notin {p.lat, p.lon} /\ p.area # Unfit) /\ ~ long
    <3> HIDE DEF long
    <3> QED
      BY <1>6, <2>7, <2>9
  <2> QED
    BY <1>5, <2>10, DisabledFits DEF AnswersFitTheTable, row, r
<1> QED
  BY <1>3, <1>4, <1>5

-----------------------------------------------------------------------------
\* Of a range of numbers the least of a set there is.
LEMMA LeastThere ==
  ASSUME NEW T \in SUBSET Nat, NEW n \in T
  PROVE  Min(T) \in T /\ \A y \in T : Min(T) <= y
BY SmallestNat DEF Min

\* The attempts of a call: the answer of attempt k is that of the first lasting attempt from k on.
\* f goes on with the next attempt after each that is to be repeated (R) and may be.
Attempting(f, n, R, V) == f = [k \in 1..n |-> IF R[k] /\ k < n THEN f[k + 1] ELSE V[k]]

\* Counted from the last attempt down, each ends as the first lasting one from it on.
LEMMA AttemptsEnd ==
  ASSUME NEW n \in Nat \ {0}, NEW R \in [1..n -> BOOLEAN], NEW V,
         NEW f, Attempting(f, n, R, V)
  PROVE  f[1] = V[Min({j \in 1..n : ~ R[j]} \union {n})]
<1> DEFINE T(k) == {j \in k..n : ~ R[j]} \union {n}
           Ends(k) == f[k] = V[Min(T(k))]
           Fails == {d \in Nat : d < n /\ ~ Ends(n - d)}
<1>1. ASSUME NEW k \in 1..n PROVE Min(T(k)) \in T(k) /\ \A y \in T(k) : Min(T(k)) <= y
  <2>1. T(k) \in SUBSET Nat /\ n \in T(k)
    OBVIOUS
  <2> HIDE DEF T
  <2> QED
    BY <2>1, LeastThere
<1>2. ASSUME NEW k \in 1..n, ~ (R[k] /\ k < n) PROVE Ends(k)
  <2>1. f[k] = V[k]
    BY <1>2 DEF Attempting
  <2>2. k \in T(k) /\ T(k) \subseteq k..n
    BY <1>2
  <2>3. Min(T(k)) = k
    <3> HIDE DEF T
    <3>1. Min(T(k)) \in T(k) /\ Min(T(k)) <= k
      BY <1>1, <2>2
    <3> QED
      BY <2>2, <3>1
  <2> QED
    BY <2>1, <2>3
<1>3. ASSUME NEW k \in 1..n, R[k], k < n, Ends(k + 1) PROVE Ends(k)
  <2>1. f[k] = f[k + 1]
    BY <1>3 DEF Attempting
  <2>2. T(k) = T(k + 1)
    <3>1. \A j \in k..n : ~ R[j] => j \in (k + 1)..n
      BY <1>3
    <3> QED
      BY <3>1, <1>3
  <2> QED
    BY <1>3, <2>1, <2>2
<1> HIDE DEF Ends
<1>4. Fails = {}
  <2> SUFFICES ASSUME Fails # {} PROVE FALSE
    OBVIOUS
  <2>1. PICK d \in Fails : \A e \in Fails : d <= e
    <3>1. Fails \in SUBSET Nat
      OBVIOUS
    <3> HIDE DEF Fails
    <3> QED
      BY <3>1, SmallestNat
  <2>2. n - d \in 1..n /\ ~ Ends(n - d) /\ d \in Nat
    BY <2>1
  <2>3. R[n - d] /\ n - d < n
    BY <1>2, <2>2
  <2>4. d - 1 \in Nat /\ d - 1 < n /\ n - (d - 1) = n - d + 1 /\ ~ (d <= d - 1)
    BY <2>2, <2>3
  <2>5. d - 1 \notin Fails
    BY <2>1, <2>4
  <2>6. Ends(n - d + 1)
    BY <2>4, <2>5
  <2> QED
    BY <1>3, <2>2, <2>3, <2>6
<1>5. n - 1 \in Nat /\ n - 1 < n /\ n - (n - 1) = 1
  OBVIOUS
<1>6. Ends(1)
  BY <1>4, <1>5
<1> QED
  BY <1>6 DEF Ends

\* There is such a function: the recursion of the attempts is grounded.
LEMMA AttemptsThere ==
  ASSUME NEW n \in Nat \ {0}, NEW R \in [1..n -> BOOLEAN], NEW V
  PROVE  \E f : Attempting(f, n, R, V)
<1> DEFINE T(k) == {j \in k..n : ~ R[j]} \union {n}
           g == [k \in 1..n |-> V[Min(T(k))]]
<1>1. ASSUME NEW k \in 1..n, R[k], k < n PROVE g[k] = g[k + 1]
  <2>1. \A j \in k..n : ~ R[j] => j \in (k + 1)..n
    BY <1>1
  <2>2. T(k) = T(k + 1)
    BY <1>1, <2>1
  <2> HIDE DEF T
  <2> QED
    BY <1>1, <2>2
<1>2. ASSUME NEW k \in 1..n, ~ (R[k] /\ k < n) PROVE g[k] = V[k]
  <2>1. T(k) \in SUBSET Nat /\ n \in T(k) /\ k \in T(k) /\ T(k) \subseteq k..n
    BY <1>2
  <2> HIDE DEF T
  <2>2. Min(T(k)) \in T(k) /\ Min(T(k)) <= k
    BY <2>1, LeastThere
  <2>3. Min(T(k)) = k
    BY <2>1, <2>2
  <2> QED
    BY <2>3
<1>3. g = [k \in 1..n |-> g[k]]
  OBVIOUS
<1> HIDE DEF g
<1>4. g = [k \in 1..n |-> IF R[k] /\ k < n THEN g[k + 1] ELSE V[k]]
  BY <1>1, <1>2, <1>3
<1> QED
  BY <1>4 DEF Attempting

LEMMA EveryCallEnds == ASSUME NEW i \in Calls PROVE PostIsFirstLasting(i)
<1> DEFINE n == i.retries + 1
           R == [k \in 1..n |-> Transient(i.replies[k])]
           V == [k \in 1..n |-> Outcome(i.replies[k])]
           post == CHOOSE f : f = [k \in 1..n |-> IF Transient(i.replies[k]) /\ k <= i.retries THEN f[k + 1] ELSE Outcome(i.replies[k])]
<1>1. n \in Nat \ {0} /\ i.retries \in Nat
  BY CallsAssumption
<1>2. R \in [1..n -> BOOLEAN]
  BY DEF Transient
<1>3. ASSUME NEW f
      PROVE  Attempting(f, n, R, V)
               <=> f = [k \in 1..n |-> IF Transient(i.replies[k]) /\ k <= i.retries THEN f[k + 1] ELSE Outcome(i.replies[k])]
  <2>1. \A k \in 1..n : R[k] = Transient(i.replies[k]) /\ V[k] = Outcome(i.replies[k]) /\ (k < n <=> k <= i.retries)
    BY <1>1
  <2> HIDE DEF R, V, n
  <2> QED
    BY <2>1 DEF Attempting
<1>4. Post(i.replies, i.retries) = post[1]
  BY DEF Post
<1>5. \E f : Attempting(f, n, R, V)
  <2> HIDE DEF n, R, V
  <2> QED
    BY <1>1, <1>2, AttemptsThere
<1>6. Attempting(post, n, R, V)
  <2> HIDE DEF n, R, V
  <2> QED
    BY <1>3, <1>5
<1>7. post[1] = V[Min({j \in 1..n : ~ R[j]} \union {n})]
  <2> HIDE DEF n, R, V, post
  <2> QED
    BY <1>1, <1>2, <1>6, AttemptsEnd
<1>8. Min({j \in 1..n : ~ R[j]} \union {n}) \in 1..n
  <2> DEFINE T == {j \in 1..n : ~ R[j]} \union {n}
  <2>1. T \in SUBSET Nat /\ n \in T /\ T \subseteq 1..n
    BY <1>1
  <2> HIDE DEF T
  <2>2. Min(T) \in T
    BY <2>1, LeastThere
  <2> QED
    BY <2>1, <2>2 DEF T
<1>9. {j \in 1..n : ~ R[j]} = {j \in 1..n : ~ Transient(i.replies[j])}
  OBVIOUS
<1> QED
  BY <1>4, <1>7, <1>8, <1>9 DEF PostIsFirstLasting

-----------------------------------------------------------------------------
\* Sets without a common member add up.
LEMMA ApartAdd ==
  ASSUME NEW A, NEW B, IsFiniteSet(A), IsFiniteSet(B), A \intersect B = {}
  PROVE  IsFiniteSet(A \union B) /\ Cardinality(A \union B) = Cardinality(A) + Cardinality(B)
<1>1. Cardinality(A \union B) = Cardinality(A) + Cardinality(B) - Cardinality(A \intersect B)
  BY FS_Union
<1>2. Cardinality(A \intersect B) = 0
  BY FS_EmptySet
<1>3. Cardinality(A) \in Nat /\ Cardinality(B) \in Nat
  BY FS_CardinalityType
<1> QED
  BY <1>1, <1>2, <1>3, FS_Union

LEMMA EverySummaryCounts == ASSUME NEW i \in DeviceLists PROVE SummaryCountsAll(i)
<1> DEFINE M == DevicesMatching(i.devices, i.filters)
           status(k) == ItemStatus(i.devices[k])
           A == {k \in M : status(k) = "reachable"}
           B == {k \in M : status(k) = "unreachable"}
           C == {k \in M : status(k) \in {"unknown", "not_checked"}}
           D == {k \in M : status(k) = "not_supported"}
<1>1. IsFiniteSet(M) /\ M \subseteq DOMAIN i.devices
  BY DeviceListsAssumption, FS_Subset DEF DevicesMatching
<1>2. \A k \in M : status(k) \in {"reachable", "unreachable", "unknown", "not_supported", "not_checked"}
  <2> SUFFICES ASSUME NEW k \in M
               PROVE  status(k) \in {"reachable", "unreachable", "unknown", "not_supported", "not_checked"}
    OBVIOUS
  <2>1. k \in DOMAIN i.devices
    BY <1>1
  <2> QED
    BY <2>1, DeviceListsAssumption DEF ItemStatus
<1>3. /\ DeviceSummary(i.devices, i.filters, 900).reachable = Cardinality(A)
      /\ DeviceSummary(i.devices, i.filters, 900).unreachable = Cardinality(B)
      /\ DeviceSummary(i.devices, i.filters, 900).unknown = Cardinality(C)
      /\ Counting(i.devices, i.filters, LAMBDA d : ItemStatus(d) = "not_supported") = Cardinality(D)
  BY DEF DeviceSummary, Counting
<1> HIDE DEF M
<1>4. IsFiniteSet(A) /\ IsFiniteSet(B) /\ IsFiniteSet(C) /\ IsFiniteSet(D)
  BY <1>1, FS_Subset
<1>5. A \intersect B = {} /\ (A \union B) \intersect C = {} /\ (A \union B \union C) \intersect D = {}
  OBVIOUS
<1>6. A \union B \union C \union D = M
  BY <1>2
<1> HIDE DEF A, B, C, D
<1>7. IsFiniteSet(A \union B) /\ Cardinality(A \union B) = Cardinality(A) + Cardinality(B)
  BY <1>4, <1>5, ApartAdd
<1>8. IsFiniteSet(A \union B \union C) /\ Cardinality(A \union B \union C) = Cardinality(A \union B) + Cardinality(C)
  BY <1>4, <1>5, <1>7, ApartAdd
<1>9. Cardinality(M) = Cardinality(A \union B \union C) + Cardinality(D)
  BY <1>4, <1>5, <1>6, <1>8, ApartAdd
<1> QED
  BY <1>3, <1>7, <1>8, <1>9 DEF SummaryCountsAll, M

-----------------------------------------------------------------------------
LEMMA EveryNumberStays == ASSUME NEW i \in Lookups PROVE OnlySandboxNumbersLeave(i)
<1>1. SandboxNumber(i.number, i.mapping) \in Sandbox
  <2>1. \A m \in DOMAIN i.mapping : i.mapping[m] \in Sandbox
    BY LookupsAssumption
  <2>2. "sandbox_1001" \in Sandbox
    BY DEF Sandbox
  <2>3. CASE i.number = Null
    BY <2>2, <2>3, Zenon DEF SandboxNumber
  <2>4. CASE i.number # Null /\ i.number \in Sandbox
    BY <2>4, Zenon DEF SandboxNumber
  <2>5. CASE i.number \notin Sandbox \union {Null} /\ i.number \in DOMAIN i.mapping
    BY <2>1, <2>5, Zenon DEF SandboxNumber
  <2>6. CASE i.number \notin Sandbox \union {Null} /\ i.number \notin DOMAIN i.mapping
    BY <2>2, <2>6, Zenon DEF SandboxNumber
  <2> QED
    BY <2>3, <2>4, <2>5, <2>6
<1>2. ASSUME Provider(i.settings).source = "nokia_live"
      PROVE  i.settings.enabled /\ i.settings.credentials /\ Provider(i.settings).name = "nokia_camara"
  <2> DEFINE s == i.settings
  <2>1. CASE s.mode = "disabled"
    BY <1>2, <2>1, Zenon DEF Provider
  <2>2. CASE s.mode # "disabled" /\ s.enabled /\ s.mode = "live" /\ s.credentials
    BY <2>2, Zenon DEF Provider
  <2>3. CASE s.mode # "disabled" /\ s.enabled /\ s.mode = "live" /\ ~ s.credentials
    BY <1>2, <2>3, Zenon DEF Provider
  <2>4. CASE s.mode # "disabled" /\ ~ (s.enabled /\ s.mode = "live")
    <3>1. Provider(s) = [name |-> "nokia_mock", source |-> ConfiguredSourceMode(s)]
      BY <2>4, Zenon DEF Provider
    <3>2. ConfiguredSourceMode(s) # "nokia_live"
      BY <2>4 DEF ConfiguredSourceMode
    <3> QED
      BY <1>2, <3>1, <3>2
  <2> QED
    BY <2>1, <2>2, <2>3, <2>4
<1> QED
  BY <1>1, <1>2 DEF OnlySandboxNumbersLeave

\* For all answers, replies, lists and numbers: what is made of the network's answers is kept as
\* it may be, a call ends with its first lasting attempt, every matching device is counted, and no
\* number but the sandbox's is sent.
THEOREM AnswersHold == AnswersSpec => []AnswersKept
<1> DEFINE Tried == /\ subject = "answers" => input \in NetworkAnswers
                    /\ subject = "post" => input \in Calls
                    /\ subject = "summary" => input \in DeviceLists
                    /\ subject = "provider" => input \in Lookups
<1>1. Untried => Tried
  BY DEF Untried
<1>2. Tried /\ [TryAnswers \/ TryPost \/ TrySummary \/ TryProvider]_trial => Tried'
  BY DEF TryAnswers, TryPost, TrySummary, TryProvider, Try, trial
<1>3. Tried => AnswersKept
  BY EveryAnswerFits, EveryCallEnds, EverySummaryCounts, EveryNumberStays DEF AnswersKept, For
<1> QED
  BY <1>1, <1>2, <1>3, PTL DEF AnswersSpec
=============================================================================
