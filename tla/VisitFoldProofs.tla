-------------------------- MODULE VisitFoldProofs --------------------------
(***************************************************************************)
(* Proofs about VisitFold for every timeout, threshold, clock and number   *)
(* of requests: the type invariant, the consistency of the counters of a   *)
(* row and the agreement of its readings.                                  *)
(***************************************************************************)
EXTENDS VisitReference, SetSums

\* A gap is a whole, non-negative number of seconds, in either order of stamps.
LEMMA GapType ==
    ASSUME NEW a \in Nat, NEW b \in Nat
    PROVE  Gap(a, b) \in Nat
<1>1. TicksPerSecond \in Nat /\ TicksPerSecond > 0
  BY VisitFoldAssumption
<1>2. CASE b > a
  <2>1. b - a \in Nat
    BY <1>2
  <2>2. (b - a) \div TicksPerSecond \in Nat
    BY <1>1, <2>1
  <2>3. QED
    BY <1>2, <2>2 DEF Gap
<1>3. CASE ~(b > a)
  BY <1>3 DEF Gap
<1>4. QED
  BY <1>2, <1>3

\* Whatever branch the upsert takes, it leaves a well-typed row.
LEMMA FoldedVisitType ==
    ASSUME NEW r \in Row \cup {NoRow}, NEW at \in Nat
    PROVE  FoldedVisit(r, at) \in Row
<1>1. FirstVisit(at) \in Row
  BY DEF FirstVisit, Row
<1>2. ASSUME r \in Row
      PROVE  NextVisit(r, at) \in Row
  <2>1. Count(Bounced(r)) \in Nat
    BY DEF Count
  <2>2. QED
    BY <1>2, <2>1 DEF NextVisit, Row
<1>3. ASSUME r \in Row
      PROVE  ContinueVisit(r, at) \in Row
  <2>1. Gap(r.last_seen, at) \in Nat
    BY <1>3, GapType DEF Row
  <2>2. QED
    BY <1>3, <2>1 DEF ContinueVisit, Row
<1>4. QED
  BY <1>1, <1>2, <1>3 DEF FoldedVisit

LEMMA EngagedType ==
    ASSUME NEW r \in Row, NEW h \in Hit
    PROVE  Engaged(r, h) \in Row
<1>1. h.at \in 0..LastTick /\ h.secs \in EngagedSeconds \cup {0}
  BY DEF Hit
<1>2. h.at \in Nat
  BY <1>1
<1>3. h.secs \in Nat
  <2>1. ASSUME NEW s \in EngagedSeconds \cup {0}
        PROVE  s \in Nat
    <3>1. CASE s = 0
      BY <3>1
    <3>2. CASE s \in EngagedSeconds
      BY <3>2, VisitFoldAssumption
    <3>3. QED
      BY <3>1, <3>2
  <2>2. QED
    BY <1>1, <2>1
<1>4. QED
  BY <1>2, <1>3 DEF Engaged, MaxOf, Row

-----------------------------------------------------------------------------

\* Type correctness of the fold.
THEOREM VisitFoldTyped == Spec => []TypeOK
<1>1. Init => TypeOK
  BY VisitFoldAssumption DEF Init, TypeOK
<1>2. TypeOK /\ [Next]_vars => TypeOK'
  <2> SUFFICES ASSUME TypeOK, [Next]_vars PROVE TypeOK'
    OBVIOUS
  <2>1. CASE Tick
    BY <2>1, VisitFoldAssumption DEF Tick, TypeOK
  <2>2. ASSUME NEW secs \in EngagedSeconds \cup {0}, Stamp(secs)
        PROVE  TypeOK'
    <3>1. [id |-> issued + 1, at |-> now, secs |-> secs] \in Hit
      BY <2>2, VisitFoldAssumption DEF Stamp, TypeOK, Hit
    <3>2. QED
      BY <2>2, <3>1, VisitFoldAssumption DEF Stamp, TypeOK
  <2>3. ASSUME NEW h \in pending, FoldVisit(h)
        PROVE  TypeOK'
    <3>1. h \in Hit /\ h.at \in Nat
      BY VisitFoldAssumption DEF TypeOK, Hit
    <3>2. row' \in Row
      BY <2>3, <3>1, FoldedVisitType DEF FoldVisit, TypeOK
    <3>3. QED
      BY <2>3, <3>1, <3>2 DEF FoldVisit, TypeOK
  <2>4. ASSUME NEW h \in pending, FoldEngagement(h)
        PROVE  TypeOK'
    <3>1. h \in Hit
      BY DEF TypeOK
    <3>2. row' \in Row \cup {NoRow}
      BY <2>4, <3>1, EngagedType DEF FoldEngagement, TypeOK
    <3>3. QED
      BY <2>4, <3>1, <3>2 DEF FoldEngagement, TypeOK
  <2>5. ASSUME NEW h \in pending, FoldFails(h)
        PROVE  TypeOK'
    BY <2>5 DEF FoldFails, TypeOK
  <2>6. CASE UNCHANGED vars
    BY <2>6 DEF vars, TypeOK
  <2>7. QED
    BY <2>1, <2>2, <2>3, <2>4, <2>5, <2>6 DEF Next
<1>3. QED
  BY <1>1, <1>2, PTL DEF Spec

\* Every branch of the upsert leaves a sound row.
LEMMA FoldedVisitSound ==
    ASSUME NEW r \in Row \cup {NoRow}, NEW at \in Nat,
           r # NoRow => RowSound(r), threshold \in Nat
    PROVE  RowSound(FoldedVisit(r, at))
<1>1. RowSound(FirstVisit(at))
  BY DEF FirstVisit, RowSound
<1>2. ASSUME r \in Row, RowSound(r)
      PROVE  RowSound(NextVisit(r, at))
  <2>1. CASE Bounced(r)
    <3>1. Count(Bounced(r)) = 1
      BY <2>1 DEF Count
    <3>2. r.cur_pv = 1
      BY <1>2, <2>1 DEF Bounced, RowSound, Row
    <3>3. QED
      BY <1>2, <3>1, <3>2 DEF NextVisit, RowSound, Row
  <2>2. CASE ~Bounced(r)
    <3>1. Count(Bounced(r)) = 0
      BY <2>2 DEF Count
    <3>2. threshold = 0 => r.cur_pv >= 2
      BY <1>2, <2>2 DEF Bounced, RowSound, Row
    <3>3. QED
      BY <1>2, <3>1, <3>2 DEF NextVisit, RowSound, Row
  <2>3. QED
    BY <2>1, <2>2
<1>3. ASSUME r \in Row, RowSound(r)
      PROVE  RowSound(ContinueVisit(r, at))
  BY <1>3 DEF ContinueVisit, RowSound, Row
<1>4. QED
  BY <1>1, <1>2, <1>3 DEF FoldedVisit

\* The counters of a row are sound in every reachable state: out-of-order
\* commits, swallowed folds and beacons of any age included.
THEOREM RowIsSound == Spec => []RowInv
<1>1. Init => RowInv
  BY DEF Init, RowInv
<1>2. TypeOK /\ RowInv /\ [Next]_vars => RowInv'
  <2> SUFFICES ASSUME TypeOK, RowInv, [Next]_vars PROVE RowInv'
    OBVIOUS
  <2>1. CASE Tick
    BY <2>1 DEF Tick, RowInv, RowSound
  <2>2. ASSUME NEW secs \in EngagedSeconds \cup {0}, Stamp(secs)
        PROVE  RowInv'
    BY <2>2 DEF Stamp, RowInv, RowSound
  <2>3. ASSUME NEW h \in pending, FoldVisit(h)
        PROVE  RowInv'
    <3>1. h.at \in Nat
      BY VisitFoldAssumption DEF TypeOK, Hit
    <3>2. row \in Row \cup {NoRow} /\ threshold \in Nat
      BY VisitFoldAssumption DEF TypeOK
    <3>3. RowSound(FoldedVisit(row, h.at))
      BY <3>1, <3>2, FoldedVisitSound DEF RowInv
    <3>4. threshold' = threshold /\ row' = FoldedVisit(row, h.at)
      BY <2>3 DEF FoldVisit
    <3>5. QED
      BY <3>3, <3>4 DEF RowInv, RowSound
  <2>4. ASSUME NEW h \in pending, FoldEngagement(h)
        PROVE  RowInv'
    <3>1. CASE row' = row
      BY <2>4, <3>1 DEF FoldEngagement, RowInv, RowSound
    <3>2. CASE row # NoRow /\ row' = Engaged(row, h)
      <4>1. row \in Row
        BY <3>2 DEF TypeOK
      <4>2. /\ row'.visits = row.visits /\ row'.bounces = row.bounces
            /\ row'.cur_pv = row.cur_pv /\ row'.cur_dur = row.cur_dur
            /\ row'.total_pv = row.total_pv
        BY <3>2, <4>1 DEF Engaged, Row
      <4>3. QED
        BY <2>4, <3>2, <4>2 DEF FoldEngagement, RowInv, RowSound
    <3>3. QED
      BY <2>4, <3>1, <3>2 DEF FoldEngagement
  <2>5. ASSUME NEW h \in pending, FoldFails(h)
        PROVE  RowInv'
    BY <2>5 DEF FoldFails, RowInv, RowSound
  <2>6. CASE UNCHANGED vars
    BY <2>6 DEF vars, RowInv, RowSound
  <2>7. QED
    BY <2>1, <2>2, <2>3, <2>4, <2>5, <2>6 DEF Next
<1>3. QED
  BY <1>1, <1>2, VisitFoldTyped, PTL DEF Spec

\* The live dashboard and the rollup read every reachable row alike, for every
\* bounce threshold: finalising a month changes no number.
THEOREM ReadingsAlwaysAgree == Spec => []ReadingsAgree
<1>1. TypeOK /\ RowInv => ReadingsAgree
  <2> SUFFICES ASSUME TypeOK, RowInv, row # NoRow
               PROVE  LiveTotals(row) = RollupTotals(row)
    BY DEF ReadingsAgree
  <2>1. row \in Row /\ RowSound(row) /\ threshold \in Nat
    BY VisitFoldAssumption DEF TypeOK, RowInv
  <2>2. OpenBounce(row) <=> Bounced(row)
    BY <2>1 DEF OpenBounce, Bounced, RowSound, Row
  <2>3. Count(OpenBounce(row)) = Count(Bounced(row))
    BY <2>2 DEF Count
  <2>4. QED
    BY <2>3 DEF LiveTotals, RollupTotals
<1>2. QED
  BY <1>1, VisitFoldTyped, RowIsSound, PTL

\* Bounces, visits and pageviews stay in order in every reachable state.
THEOREM CountsAlwaysConsistent == Spec => []CountsAreConsistent
<1>1. TypeOK /\ RowInv => CountsAreConsistent
  <2> SUFFICES ASSUME TypeOK, RowInv, row # NoRow
               PROVE  LET t == LiveTotals(row)
                      IN  /\ 0 <= t.bounces /\ t.bounces <= t.visits
                          /\ t.visits <= t.pageviews
                          /\ threshold = 0 => t.pageviews >= 2 * t.visits - t.bounces
    BY DEF CountsAreConsistent
  <2>1. row \in Row /\ RowSound(row) /\ threshold \in Nat
    BY VisitFoldAssumption DEF TypeOK, RowInv
  <2>2. Count(OpenBounce(row)) \in {0, 1}
    BY DEF Count
  <2>3. threshold = 0 => (Count(OpenBounce(row)) = 0 => row.cur_pv >= 2)
    BY <2>1 DEF OpenBounce, Count, RowSound, Row
  <2>4. QED
    BY <2>1, <2>2, <2>3 DEF LiveTotals, RowSound, Row
<1>2. QED
  BY <1>1, VisitFoldTyped, RowIsSound, PTL

\* Reported on-site time is monotone: no fold, late or early, takes seconds away.
THEOREM ReportedTimeMonotone == Spec => ReportedTimeNeverShrinks
<1>1. TypeOK /\ [Next]_vars =>
        [row # NoRow => LiveTotals(row').duration >= LiveTotals(row).duration]_vars
  <2> SUFFICES ASSUME TypeOK, Next, row # NoRow
               PROVE  LiveTotals(row').duration >= LiveTotals(row).duration
    OBVIOUS
  <2>1. row \in Row
    BY DEF TypeOK
  <2>2. CASE row' = row
    <3>1. row'.total_dur + row'.cur_dur + row'.engaged \in Nat
      BY <2>1, <2>2 DEF Row
    <3>2. QED
      BY <2>2, <3>1 DEF LiveTotals
  <2>3. ASSUME NEW h \in pending, FoldVisit(h)
        PROVE  LiveTotals(row').duration >= LiveTotals(row).duration
    <3>1. h.at \in Nat /\ row.last_seen \in Nat
      BY <2>1, VisitFoldAssumption DEF TypeOK, Hit, Row
    <3>2. Gap(row.last_seen, h.at) \in Nat
      BY <3>1, GapType
    <3>3. row' = NextVisit(row, h.at) \/ row' = ContinueVisit(row, h.at)
      BY <2>3 DEF FoldVisit, FoldedVisit
    <3>4. QED
      BY <2>1, <3>2, <3>3 DEF NextVisit, ContinueVisit, LiveTotals, Row
  <2>4. ASSUME NEW h \in pending, FoldEngagement(h), row' # row
        PROVE  LiveTotals(row').duration >= LiveTotals(row).duration
    <3>1. row' = Engaged(row, h)
      BY <2>4 DEF FoldEngagement
    <3>2. h \in Hit
      BY DEF TypeOK
    <3>3. Engaged(row, h) \in Row
      BY <2>1, <3>2, EngagedType
    <3>4. /\ row'.total_dur = row.total_dur /\ row'.cur_dur = row.cur_dur
          /\ row'.engaged = MaxOf(row.engaged, h.secs)
      BY <2>1, <3>1 DEF Engaged, Row
    <3>5. row'.engaged >= row.engaged
      BY <2>1, <3>1, <3>3, <3>4 DEF MaxOf, Row
    <3>6. QED
      BY <2>1, <3>1, <3>3, <3>4, <3>5 DEF LiveTotals, Row
  <2>5. (Tick \/ (\E secs \in EngagedSeconds \cup {0} : Stamp(secs))
              \/ (\E h \in pending : FoldFails(h))) => row' = row
    BY DEF Tick, Stamp, FoldFails
  <2>6. QED
    BY <2>2, <2>3, <2>4, <2>5 DEF Next
<1>2. QED
  BY <1>1, VisitFoldTyped, PTL DEF Spec, ReportedTimeNeverShrinks

\* Closing a visit keeps the verdict the dashboard already showed for it.
THEOREM VerdictIsKept == Spec => ClosingKeepsTheVerdict
<1>1. TypeOK /\ RowInv /\ [Next]_vars =>
        [row # NoRow /\ row'.visits > row.visits =>
           LiveTotals(row').bounces - Count(OpenBounce(row')) = LiveTotals(row).bounces]_vars
  <2> SUFFICES ASSUME TypeOK, RowInv, Next, row # NoRow, row'.visits > row.visits
               PROVE  LiveTotals(row').bounces - Count(OpenBounce(row'))
                        = LiveTotals(row).bounces
    OBVIOUS
  <2>1. row \in Row /\ RowSound(row) /\ threshold \in Nat
    BY VisitFoldAssumption DEF TypeOK, RowInv
  <2>2. ASSUME NEW h \in pending, FoldVisit(h)
        PROVE  row' = NextVisit(row, h.at) /\ threshold' = threshold
    <3>1. row' # ContinueVisit(row, h.at)
      BY <2>1 DEF ContinueVisit, Row
    <3>2. QED
      BY <2>2, <3>1 DEF FoldVisit, FoldedVisit
  <2>3. ASSUME NEW h \in pending, FoldEngagement(h)
        PROVE  FALSE
    <3>1. row' = Engaged(row, h) => row'.visits = row.visits
      BY <2>1 DEF Engaged, Row
    <3>2. QED
      BY <2>1, <2>3, <3>1 DEF FoldEngagement, Row
  <2>4. (Tick \/ (\E secs \in EngagedSeconds \cup {0} : Stamp(secs))
              \/ (\E h \in pending : FoldFails(h))) => FALSE
    BY <2>1 DEF Tick, Stamp, FoldFails, Row
  <2>5. PICK h \in pending : row' = NextVisit(row, h.at) /\ threshold' = threshold
    BY <2>2, <2>3, <2>4 DEF Next
  <2>6. row'.bounces = row.bounces + Count(Bounced(row))
    BY <2>5 DEF NextVisit
  <2>7. OpenBounce(row) <=> Bounced(row)
    BY <2>1 DEF OpenBounce, Bounced, RowSound, Row
  <2>8. /\ Count(Bounced(row)) = Count(OpenBounce(row))
        /\ Count(OpenBounce(row)) \in Nat
        /\ Count(OpenBounce(row')) \in Nat
    BY <2>7 DEF Count
  <2>9. LiveTotals(row').bounces = row'.bounces + Count(OpenBounce(row'))
    BY <2>5 DEF LiveTotals, OpenBounce
  <2>10. QED
    BY <2>1, <2>6, <2>8, <2>9 DEF LiveTotals, Row
<1>2. QED
  BY <1>1, VisitFoldTyped, RowIsSound, PTL DEF Spec, ClosingKeepsTheVerdict

-----------------------------------------------------------------------------
(***************************************************************************)
(* The visits of the activity stream.  A log that grows leaves which of    *)
(* its hits were active; the row remembers the latest of them, and that is *)
(* enough to tell whether the next hit continues their visit.              *)
(***************************************************************************)

\* Whether hit i of the log l was active, when a tells it of those before.
ActiveAt(l, a, i) ==
    \/ IsPageview(l[i])
    \/ \E j \in 1..i - 1 : a[j] /\ l[i].at - l[j].at <= SessionTimeout * TicksPerSecond

\* a tells which hits of l were active.
Tells(l, a) == a = [i \in DOMAIN l |-> ActiveAt(l, a, i)]
ActiveIn(l) == CHOOSE a : Tells(l, a)

LEMMA ActiveIsTold == Active = ActiveIn(log)
    BY DEF Active, ActiveIn, Tells, ActiveAt

\* Two functions that tell agree: where they first differed, an earlier hit
\* would have to differ.
LEMMA TellingIsUnique ==
    ASSUME NEW l, NEW n \in Nat, NEW a, NEW b,
           \A i \in 1..n : a[i] <=> ActiveAt(l, a, i),
           \A i \in 1..n : b[i] <=> ActiveAt(l, b, i)
    PROVE  \A i \in 1..n : a[i] <=> b[i]
<1> DEFINE D == {i \in 1..n : ~(a[i] <=> b[i])}
<1>1. ASSUME D # {} PROVE FALSE
    <2>1. D \in SUBSET Nat
        OBVIOUS
    <2>2. PICK i \in D : \A j \in D : i <= j
        BY <1>1, <2>1, LeastNumber
    <2>3. i \in 1..n /\ \A j \in 1..i - 1 : j \in 1..n /\ ~(i <= j)
        OBVIOUS
    <2>4. \A j \in 1..i - 1 : a[j] <=> b[j]
        BY <2>2, <2>3
    <2>5. ActiveAt(l, a, i) <=> ActiveAt(l, b, i)
        BY <2>4 DEF ActiveAt
    <2> QED BY <2>3, <2>5
<1> QED BY <1>1

\* One hit more: the others are as active as they were, and the new one is when
\* it is a pageview or comes in time after an active one.
LEMMA ActiveGrows ==
    ASSUME NEW l \in Seq(Hit), Tells(l, ActiveIn(l)), NEW h \in Hit
    PROVE  LET a == ActiveIn(l)
               b == ActiveIn(Append(l, h))
               n == Len(l)
           IN  /\ Tells(Append(l, h), b)
               /\ \A i \in 1..n : b[i] <=> a[i]
               /\ b[n + 1] <=>
                    \/ IsPageview(h)
                    \/ \E j \in 1..n : a[j] /\ h.at - l[j].at <= SessionTimeout * TicksPerSecond
<1> DEFINE a == ActiveIn(l)
           m == Append(l, h)
           b == ActiveIn(m)
           n == Len(l)
           new == IsPageview(h) \/ \E j \in 1..n :
                     a[j] /\ h.at - l[j].at <= SessionTimeout * TicksPerSecond
           g == [i \in 1..n + 1 |-> IF i <= n THEN a[i] ELSE new]
<1>1. /\ n \in Nat /\ DOMAIN l = 1..n /\ DOMAIN m = 1..n + 1
      /\ \A i \in 1..n : m[i] = l[i]
      /\ m[n + 1] = h
    OBVIOUS
<1>2. \A i \in 1..n : a[i] = ActiveAt(l, a, i)
    BY <1>1 DEF Tells
<1> HIDE DEF a, m
<1>3. /\ \A i \in 1..n : g[i] = a[i]
      /\ g[n + 1] = new
      /\ g = [i \in 1..n + 1 |-> g[i]]
    BY <1>1
<1> HIDE DEF g
<1>4. ASSUME NEW i \in 1..n
      PROVE  g[i] = ActiveAt(m, g, i)
    <2>1. \A j \in 1..i - 1 : j \in 1..n
        BY <1>1
    <2>2. g[i] = a[i] /\ \A j \in 1..i - 1 : g[j] = a[j] /\ m[j] = l[j]
        BY <1>1, <1>3, <2>1
    <2>3. ActiveAt(m, g, i) <=> ActiveAt(l, a, i)
        BY <1>1, <2>2 DEF ActiveAt
    <2> QED
        BY <1>2, <2>2, <2>3 DEF ActiveAt
<1>5. g[n + 1] = ActiveAt(m, g, n + 1)
    <2>1. (n + 1) - 1 = n /\ n + 1 \in Int
        BY <1>1
    <2> QED BY <1>1, <1>3, <2>1 DEF ActiveAt
<1>6. \A i \in 1..n + 1 : i \in 1..n \/ i = n + 1
    BY <1>1
<1>7. \A i \in 1..n + 1 : g[i] = ActiveAt(m, g, i)
    BY <1>4, <1>5, <1>6
<1>8. Tells(m, g)
    BY <1>1, <1>3, <1>7 DEF Tells
<1>9. Tells(m, b)
    BY <1>8, Zenon DEF ActiveIn
<1> HIDE DEF b
<1>10. \A i \in 1..n + 1 : b[i] <=> g[i]
    <2>1. \A i \in 1..n + 1 : b[i] <=> ActiveAt(m, b, i)
        BY <1>1, <1>9 DEF Tells
    <2>2. n + 1 \in Nat
        BY <1>1
    <2> QED BY <1>7, <2>1, <2>2, TellingIsUnique
<1>11. \A i \in 1..n : i \in 1..n + 1
    BY <1>1
<1>12. n + 1 \in 1..n + 1
    BY <1>1
<1>13. /\ \A i \in 1..n : b[i] <=> a[i]
       /\ b[n + 1] <=> new
    BY <1>3, <1>10, <1>11, <1>12, Zenon
<1> QED BY <1>9, <1>13, Zenon DEF a, b, m

\* The later the hit a gap is counted from, the shorter it is.
LEMMA GapShrinks ==
    ASSUME NEW a \in Nat, NEW b \in Nat, NEW c \in Nat, a <= b, b <= c
    PROVE  Gap(b, c) <= Gap(a, c)
<1>1. TicksPerSecond \in Nat /\ TicksPerSecond > 0
    BY VisitFoldAssumption
<1>2. ASSUME NEW x \in Nat, NEW y \in Nat, x <= y
      PROVE  x \div TicksPerSecond <= y \div TicksPerSecond
    BY <1>1, <1>2
<1>3. CASE c > b
    <2>1. c > a /\ c - b \in Nat /\ c - a \in Nat /\ c - b <= c - a
        BY <1>3
    <2>2. (c - b) \div TicksPerSecond <= (c - a) \div TicksPerSecond
        BY <1>2, <2>1
    <2> QED BY <1>3, <2>1, <2>2 DEF Gap
<1>4. CASE ~(c > b)
    <2>1. Gap(b, c) = 0
        BY <1>4 DEF Gap
    <2>2. Gap(a, c) \in Nat
        BY GapType
    <2> QED BY <2>1, <2>2
<1> QED BY <1>3, <1>4

\* The pageviews of l that opened a visit.
Openings(l) ==
    {i \in DOMAIN l : /\ IsPageview(l[i])
                      /\ \A j \in 1..i - 1 :
                            ActiveIn(l)[j] => Gap(l[j].at, l[i].at) > SessionTimeout}

LEMMA VisitsAreOpenings == VisitsKeptAlive = Cardinality(Openings(log))
    BY ActiveIsTold DEF VisitsKeptAlive, Openings

\* The induction.  Folded in stamp order, the row has seen the latest of the
\* active hits and nothing later, and counts their visits.
Stamped(l) == \A i, j \in 1..Len(l) : i <= j => l[i].at <= l[j].at
SeenLast(r, l) ==
    /\ \A i \in 1..Len(l) : ActiveIn(l)[i] => l[i].at <= r.last_seen
    /\ \E i \in 1..Len(l) : ActiveIn(l)[i] /\ l[i].at = r.last_seen
ActivityInv ==
    /\ Tells(log, ActiveIn(log))
    /\ InOrder =>
        /\ Stamped(log)
        /\ row = NoRow => \A i \in 1..Len(log) : ~ActiveIn(log)[i]
        /\ row # NoRow => SeenLast(row, log) /\ row.visits = Cardinality(Openings(log))

\* Hits in stamp order stay so when a later one follows, and were so before.
LEMMA StampedGrows ==
    ASSUME NEW l \in Seq(Hit), NEW h \in Hit,
           \A i \in 1..Len(Append(l, h)) - 1 : Append(l, h)[i].at <= Append(l, h)[i + 1].at
    PROVE  /\ \A i \in 1..Len(l) - 1 : l[i].at <= l[i + 1].at
           /\ Stamped(l) => Stamped(Append(l, h))
           /\ Stamped(l) => \A i \in 1..Len(l) : l[i].at <= h.at
<1> DEFINE m == Append(l, h)
           n == Len(l)
<1>1. /\ n \in Nat /\ Len(m) = n + 1 /\ m[n + 1] = h
      /\ \A i \in 1..n : m[i] = l[i] /\ l[i] \in Hit
    OBVIOUS
<1>2. \A k \in Hit : k.at \in Nat
    BY VisitFoldAssumption DEF Hit
<1> HIDE DEF m
<1>3. \A i \in 1..n : m[i].at <= m[i + 1].at
    BY <1>1 DEF m
<1>4. \A i \in 1..n - 1 : l[i].at <= l[i + 1].at
    <2>1. \A i \in 1..n - 1 : i \in 1..n /\ i + 1 \in 1..n
        BY <1>1
    <2> QED BY <1>1, <1>3, <2>1
<1>5. ASSUME Stamped(l) PROVE \A i \in 1..n : l[i].at <= h.at
    <2> SUFFICES ASSUME NEW i \in 1..n PROVE l[i].at <= h.at
        OBVIOUS
    <2>1. n \in 1..n /\ i <= n
        BY <1>1
    <2>2. l[i].at <= l[n].at
        BY <1>5, <2>1 DEF Stamped
    <2>3. l[n].at <= h.at
        BY <1>1, <1>3, <2>1
    <2>4. l[i].at \in Nat /\ l[n].at \in Nat /\ h.at \in Nat
        BY <1>1, <1>2, <2>1
    <2> QED BY <2>2, <2>3, <2>4
<1>6. ASSUME Stamped(l) PROVE Stamped(m)
    <2> SUFFICES ASSUME NEW i \in 1..n + 1, NEW j \in 1..n + 1, i <= j
                 PROVE  m[i].at <= m[j].at
        BY <1>1 DEF Stamped
    <2>1. CASE j \in 1..n
        <3>1. i \in 1..n
            BY <2>1
        <3> QED BY <1>1, <1>6, <2>1, <3>1 DEF Stamped
    <2>2. CASE j = n + 1 /\ i \in 1..n
        BY <1>1, <1>5, <1>6, <2>2
    <2>3. CASE j = n + 1 /\ i = n + 1
        BY <1>1, <1>2, <2>3
    <2>4. (j \in 1..n \/ j = n + 1) /\ (i \in 1..n \/ i = n + 1)
        BY <1>1
    <2> QED BY <2>1, <2>2, <2>3, <2>4
<1> QED BY <1>1, <1>4, <1>5, <1>6 DEF m

\* A hit that follows leaves the visits that were opened, and opens one when it
\* is a pageview too late for all that was active.
LEMMA OpeningsGrow ==
    ASSUME NEW l \in Seq(Hit), Tells(l, ActiveIn(l)), NEW h \in Hit
    PROVE  LET opens == IsPageview(h) /\ \A j \in 1..Len(l) :
                           ActiveIn(l)[j] => Gap(l[j].at, h.at) > SessionTimeout
           IN  /\ Openings(Append(l, h)) = Openings(l) \cup (IF opens THEN {Len(l) + 1} ELSE {})
               /\ Cardinality(Openings(l)) \in Nat
               /\ Cardinality(Openings(Append(l, h)))
                    = Cardinality(Openings(l)) + (IF opens THEN 1 ELSE 0)
<1> DEFINE m == Append(l, h)
           n == Len(l)
           opens == IsPageview(h) /\ \A j \in 1..n :
                       ActiveIn(l)[j] => Gap(l[j].at, h.at) > SessionTimeout
<1>1. /\ n \in Nat /\ DOMAIN m = 1..n + 1 /\ m[n + 1] = h /\ DOMAIN l = 1..n
      /\ \A i \in 1..n : m[i] = l[i]
    OBVIOUS
<1>2. \A i \in 1..n : ActiveIn(m)[i] <=> ActiveIn(l)[i]
    BY ActiveGrows
<1> HIDE DEF m
<1>3. \A i \in 1..n : i \in Openings(m) <=> i \in Openings(l)
    <2> SUFFICES ASSUME NEW i \in 1..n
                 PROVE  i \in Openings(m) <=> i \in Openings(l)
        OBVIOUS
    <2>1. i \in 1..n + 1 /\ \A j \in 1..i - 1 : j \in 1..n
        BY <1>1
    <2> QED BY <1>1, <1>2, <2>1 DEF Openings
<1>4. n + 1 \in Openings(m) <=> opens
    <2>1. n + 1 \in 1..n + 1 /\ (n + 1) - 1 = n
        BY <1>1
    <2> QED BY <1>1, <1>2, <2>1 DEF Openings
<1>5. Openings(m) = Openings(l) \cup (IF opens THEN {n + 1} ELSE {})
    <2>1. Openings(m) \subseteq 1..n + 1 /\ Openings(l) \subseteq 1..n
        BY <1>1 DEF Openings
    <2>2. \A i \in 1..n + 1 : i \in 1..n \/ i = n + 1
        BY <1>1
    <2>3. \A i \in 1..n : i # n + 1
        BY <1>1
    <2> HIDE DEF opens
    <2> QED BY <1>3, <1>4, <2>1, <2>2, <2>3
<1>6. IsFiniteSet(Openings(l)) /\ n + 1 \notin Openings(l)
    <2>1. Openings(l) \in SUBSET (1..n)
        BY <1>1 DEF Openings
    <2>2. IsFiniteSet(1..n)
        BY <1>1, FS_Interval
    <2> QED BY <1>1, <2>1, <2>2, FS_Subset
<1>7. Cardinality(Openings(l)) \in Nat
    BY <1>6, FS_CardinalityType
<1>8. Cardinality(Openings(m)) = Cardinality(Openings(l)) + (IF opens THEN 1 ELSE 0)
    <2>1. Cardinality(Openings(l) \cup {n + 1}) = Cardinality(Openings(l)) + 1
        BY <1>6, FS_AddElement
    <2> HIDE DEF opens
    <2>2. CASE opens
        BY <1>5, <2>1, <2>2
    <2>3. CASE ~opens
        BY <1>5, <1>7, <2>3
    <2> QED BY <2>2, <2>3
<1> QED BY <1>5, <1>7, <1>8 DEF m

\* A pageview folded last in stamp order.
LEMMA PageviewKeepsActivity ==
    ASSUME TypeOK, ActivityInv, NEW h \in pending, FoldVisit(h)
    PROVE  ActivityInv'
<1> DEFINE l == log
           m == Append(l, h)
           n == Len(l)
           opens == IsPageview(h) /\ \A j \in 1..n :
                       ActiveIn(l)[j] => Gap(l[j].at, h.at) > SessionTimeout
<1>1. /\ h \in Hit /\ l \in Seq(Hit) /\ row \in Row \cup {NoRow}
      /\ \A k \in Hit : k.at \in Nat
    BY VisitFoldAssumption DEF TypeOK, Hit
<1>2. IsPageview(h) /\ log' = m /\ row' = FoldedVisit(row, h.at)
    BY DEF FoldVisit
<1>3. Tells(l, ActiveIn(l))
    BY DEF ActivityInv
<1>4. /\ Tells(m, ActiveIn(m))
      /\ \A i \in 1..n : ActiveIn(m)[i] <=> ActiveIn(l)[i]
      /\ ActiveIn(m)[n + 1]
    BY <1>1, <1>2, <1>3, ActiveGrows
<1>5. /\ n \in Nat /\ Len(m) = n + 1 /\ m[n + 1] = h
      /\ \A i \in 1..n : m[i] = l[i] /\ l[i] \in Hit
      /\ \A i \in 1..n + 1 : i \in 1..n \/ i = n + 1
      /\ n + 1 \in 1..n + 1
    BY <1>1
<1>6. /\ Cardinality(Openings(l)) \in Nat
      /\ Cardinality(Openings(m)) = Cardinality(Openings(l)) + (IF opens THEN 1 ELSE 0)
    BY <1>1, <1>3, OpeningsGrow
<1> HIDE DEF m, l
<1>7. SUFFICES ASSUME InOrder'
               PROVE  /\ Stamped(m)
                      /\ row' # NoRow /\ SeenLast(row', m)
                      /\ row'.visits = Cardinality(Openings(m))
    BY <1>2, <1>4 DEF ActivityInv
<1>8. \A i \in 1..Len(m) - 1 : m[i].at <= m[i + 1].at
    BY <1>2, <1>7 DEF InOrder
<1>9. /\ InOrder
      /\ Stamped(l) => Stamped(m)
      /\ Stamped(l) => \A i \in 1..n : l[i].at <= h.at
    BY <1>1, <1>8, StampedGrows DEF InOrder, l, m
<1>10. /\ Stamped(l)
       /\ row = NoRow => \A i \in 1..n : ~ActiveIn(l)[i]
       /\ row # NoRow => SeenLast(row, l) /\ row.visits = Cardinality(Openings(l))
    BY <1>9 DEF ActivityInv, l
<1>11. row' \in Row /\ row'.last_seen = h.at
    BY <1>1, <1>2, FoldedVisitType DEF FoldedVisit, FirstVisit, NextVisit, ContinueVisit
<1>12. SeenLast(row', m)
    <2>1. \A i \in 1..n + 1 : m[i].at <= h.at
        BY <1>1, <1>5, <1>9, <1>10
    <2>2. ActiveIn(m)[n + 1] /\ m[n + 1].at = h.at
        BY <1>4, <1>5
    <2> QED BY <1>5, <1>11, <2>1, <2>2 DEF SeenLast
<1>13. row' # NoRow
    BY <1>11 DEF Row, NoRow
<1>14. row'.visits = Cardinality(Openings(m))
    <2>1. CASE row = NoRow
        <3>1. row'.visits = 1
            BY <1>2, <2>1 DEF FoldedVisit, FirstVisit
        <3>2. opens
            BY <1>2, <1>10, <2>1
        <3>3. Openings(l) = {}
            <4>1. DOMAIN l = 1..n
                BY <1>1 DEF l
            <4>2. \A i \in 1..n : ActiveIn(l)[i] = ActiveAt(l, ActiveIn(l), i)
                BY <1>3, <4>1 DEF Tells
            <4>3. \A i \in 1..n : ~IsPageview(l[i])
                BY <1>10, <2>1, <4>2 DEF ActiveAt
            <4> QED BY <4>1, <4>3 DEF Openings
        <3>4. Cardinality(Openings(l)) = 0
            BY <3>3, FS_EmptySet
        <3> HIDE DEF opens
        <3> QED BY <1>6, <3>1, <3>2, <3>4
    <2>2. CASE row # NoRow
        <3>1. row \in Row /\ row.last_seen \in Nat /\ row.visits \in Nat
            BY <1>1, <2>2 DEF Row
        <3>2. opens <=> StartsVisit(row, h.at)
            <4>1. PICK i \in 1..n : ActiveIn(l)[i] /\ l[i].at = row.last_seen
                BY <1>10, <2>2 DEF SeenLast, l
            <4>2. ASSUME NEW j \in 1..n, ActiveIn(l)[j]
                  PROVE  Gap(row.last_seen, h.at) <= Gap(l[j].at, h.at)
                <5>1. l[j].at \in Nat /\ h.at \in Nat /\ row.last_seen \in Nat
                    BY <1>1, <1>5, <3>1
                <5>2. l[j].at <= row.last_seen /\ row.last_seen <= h.at
                    BY <1>9, <1>10, <2>2, <4>1, <4>2 DEF SeenLast, l
                <5> QED BY <5>1, <5>2, GapShrinks
            <4>3. \A j \in 1..n : Gap(l[j].at, h.at) \in Nat
                BY <1>1, <1>5, GapType
            <4>4. SessionTimeout \in Nat /\ Gap(row.last_seen, h.at) \in Nat
                BY <1>1, <3>1, GapType, VisitFoldAssumption
            <4> QED BY <1>2, <4>1, <4>2, <4>3, <4>4 DEF StartsVisit
        <3> HIDE DEF opens
        <3>3. StartsVisit(row, h.at) => row'.visits = row.visits + 1
            BY <1>2, <2>2 DEF FoldedVisit, NextVisit
        <3>4. ~StartsVisit(row, h.at) => row'.visits = row.visits
            BY <1>2, <2>2 DEF FoldedVisit, ContinueVisit
        <3> QED BY <1>6, <1>10, <2>2, <3>1, <3>2, <3>3, <3>4
    <2> QED BY <2>1, <2>2
<1> QED BY <1>9, <1>10, <1>12, <1>13, <1>14

\* A beacon folded last in stamp order: accepted, it is what was seen last; not
\* accepted, it comes too late to be active, or with what was seen last.
LEMMA BeaconKeepsActivity ==
    ASSUME TypeOK, ActivityInv, NEW h \in pending, FoldEngagement(h)
    PROVE  ActivityInv'
<1> DEFINE l == log
           m == Append(l, h)
           n == Len(l)
           limit == SessionTimeout * TicksPerSecond
<1>1. /\ h \in Hit /\ l \in Seq(Hit) /\ row \in Row \cup {NoRow}
      /\ \A k \in Hit : k.at \in Nat
      /\ limit \in Nat
    BY VisitFoldAssumption DEF TypeOK, Hit
<1>2. ~IsPageview(h) /\ log' = m
    BY DEF FoldEngagement
<1>3. Tells(l, ActiveIn(l))
    BY DEF ActivityInv
<1>4. /\ Tells(m, ActiveIn(m))
      /\ \A i \in 1..n : ActiveIn(m)[i] <=> ActiveIn(l)[i]
      /\ ActiveIn(m)[n + 1] <=> \E j \in 1..n : ActiveIn(l)[j] /\ h.at - l[j].at <= limit
    BY <1>1, <1>2, <1>3, ActiveGrows
<1>5. /\ n \in Nat /\ Len(m) = n + 1 /\ m[n + 1] = h
      /\ \A i \in 1..n : m[i] = l[i] /\ l[i] \in Hit
      /\ \A i \in 1..n + 1 : i \in 1..n \/ i = n + 1
      /\ \A i \in 1..n : i \in 1..n + 1
      /\ n + 1 \in 1..n + 1
    BY <1>1
<1>6. Cardinality(Openings(m)) = Cardinality(Openings(l))
    BY <1>1, <1>2, <1>3, OpeningsGrow
<1> HIDE DEF m, l, limit
<1>7. SUFFICES ASSUME InOrder'
               PROVE  /\ Stamped(m)
                      /\ row' = NoRow => \A i \in 1..n + 1 : ~ActiveIn(m)[i]
                      /\ row' # NoRow => SeenLast(row', m)
                                         /\ row'.visits = Cardinality(Openings(m))
    BY <1>2, <1>4, <1>5 DEF ActivityInv
<1>8. \A i \in 1..Len(m) - 1 : m[i].at <= m[i + 1].at
    BY <1>2, <1>7 DEF InOrder
<1>9. /\ InOrder
      /\ Stamped(l) => Stamped(m)
      /\ Stamped(l) => \A i \in 1..n : l[i].at <= h.at
    BY <1>1, <1>8, StampedGrows DEF InOrder, l, m
<1>10. /\ Stamped(l)
       /\ row = NoRow => \A i \in 1..n : ~ActiveIn(l)[i]
       /\ row # NoRow => SeenLast(row, l) /\ row.visits = Cardinality(Openings(l))
    BY <1>9 DEF ActivityInv, l
<1>11. CASE row = NoRow
    <2>1. row' = NoRow
        BY <1>11 DEF FoldEngagement
    <2>2. \A i \in 1..n + 1 : ~ActiveIn(m)[i]
        BY <1>4, <1>5, <1>10, <1>11
    <2> QED BY <1>9, <1>10, <2>1, <2>2
<1>12. CASE row # NoRow
    <2>1. row \in Row /\ row.last_seen \in Nat /\ row.engaged \in Nat
        BY <1>1, <1>12 DEF Row
    <2>2. PICK i \in 1..n : ActiveIn(l)[i] /\ l[i].at = row.last_seen
        BY <1>10, <1>12 DEF SeenLast, l
    <2>3. row.last_seen <= h.at /\ h.at \in Nat
        BY <1>1, <1>9, <1>10, <2>2
    <2>4. ActiveIn(m)[n + 1] <=> row.last_seen >= h.at - limit
        <3>1. ASSUME NEW j \in 1..n, ActiveIn(l)[j], h.at - l[j].at <= limit
              PROVE  row.last_seen >= h.at - limit
            <4>1. l[j].at <= row.last_seen /\ l[j].at \in Nat
                BY <1>1, <1>5, <1>10, <1>12, <3>1 DEF SeenLast, l
            <4> QED BY <1>1, <2>1, <2>3, <3>1, <4>1
        <3>2. row.last_seen >= h.at - limit => h.at - l[i].at <= limit
            BY <1>1, <2>1, <2>2, <2>3
        <3> QED BY <1>4, <2>2, <3>1, <3>2
    <2>5. /\ row' \in Row /\ row'.visits = row.visits
          /\ row'.last_seen = (IF row.last_seen >= h.at - limit THEN h.at ELSE row.last_seen)
        <3>1. CASE BeaconAccepted(row, h)
            <4>1. row' = Engaged(row, h)
                BY <1>12, <3>1 DEF FoldEngagement
            <4>2. row' \in Row
                BY <1>1, <2>1, <4>1, EngagedType
            <4>3. row'.visits = row.visits /\ row'.last_seen = MaxOf(row.last_seen, h.at)
                BY <2>1, <4>1 DEF Engaged, Row
            <4>4. MaxOf(row.last_seen, h.at) = h.at
                BY <2>1, <2>3 DEF MaxOf
            <4> QED BY <3>1, <4>2, <4>3, <4>4 DEF BeaconAccepted, limit
        <3>2. CASE ~BeaconAccepted(row, h)
            <4>1. row' = row
                BY <3>2 DEF FoldEngagement
            <4>2. ~(row.last_seen >= h.at - limit) \/ ~(row.last_seen < h.at)
                BY <3>2 DEF BeaconAccepted, limit
            <4> QED BY <2>1, <2>3, <4>1, <4>2
        <3> QED BY <3>1, <3>2
    <2>6. SeenLast(row', m)
        <3>1. CASE row.last_seen >= h.at - limit
            <4>1. row'.last_seen = h.at /\ ActiveIn(m)[n + 1]
                BY <2>4, <2>5, <3>1
            <4>2. \A j \in 1..n + 1 : m[j].at <= h.at
                BY <1>5, <1>9, <1>10, <2>3
            <4> QED BY <1>5, <4>1, <4>2 DEF SeenLast
        <3>2. CASE ~(row.last_seen >= h.at - limit)
            <4>1. row'.last_seen = row.last_seen /\ ~ActiveIn(m)[n + 1]
                BY <2>4, <2>5, <3>2
            <4>2. \A j \in 1..n + 1 : ActiveIn(m)[j] => m[j].at <= row.last_seen
                BY <1>4, <1>5, <1>10, <1>12, <4>1 DEF SeenLast, l
            <4>3. i \in 1..n + 1 /\ ActiveIn(m)[i] /\ m[i].at = row.last_seen
                BY <1>4, <1>5, <2>2
            <4> QED BY <1>5, <4>1, <4>2, <4>3 DEF SeenLast
        <3> QED BY <3>1, <3>2
    <2>7. row' # NoRow
        <3>1. \A r \in Row : r # NoRow
            BY DEF Row, NoRow
        <3> QED BY <2>5, <3>1
    <2> QED BY <1>6, <1>9, <1>10, <1>12, <2>5, <2>6, <2>7
<1> QED BY <1>11, <1>12

\* The log's activity and the row go together in every reachable state.
LEMMA ActivityHolds == Spec => []ActivityInv
<1>1. Init => ActivityInv
    <2> SUFFICES ASSUME Init PROVE ActivityInv
        OBVIOUS
    <2>1. log = <<>> /\ row = NoRow /\ DOMAIN log = {} /\ Len(log) = 0 /\ 1..0 = {}
        BY DEF Init
    <2>2. Tells(log, [i \in {} |-> TRUE])
        BY <2>1 DEF Tells
    <2>3. Tells(log, ActiveIn(log))
        BY <2>2, Zenon DEF ActiveIn
    <2> QED BY <2>1, <2>3 DEF ActivityInv, Stamped
<1>2. TypeOK /\ ActivityInv /\ [Next]_vars => ActivityInv'
    <2> SUFFICES ASSUME TypeOK, ActivityInv, [Next]_vars PROVE ActivityInv'
        OBVIOUS
    <2>1. CASE log' = log /\ row' = row
        BY <2>1 DEF ActivityInv, InOrder
    <2>2. ASSUME NEW h \in pending, FoldVisit(h) PROVE ActivityInv'
        BY <2>2, PageviewKeepsActivity
    <2>3. ASSUME NEW h \in pending, FoldEngagement(h) PROVE ActivityInv'
        BY <2>3, BeaconKeepsActivity
    <2> QED BY <2>1, <2>2, <2>3 DEF Next, Tick, Stamp, FoldFails, vars
<1> QED BY <1>1, <1>2, VisitFoldTyped, PTL DEF Spec

\* Whatever the order, the row reads as the activity stream when the folds
\* commit in stamp order: each visit is counted once, a beacon keeps an open one
\* alive, and none is revived by a stale one.
THEOREM VisitsAreKeptAlive == Spec => []BeaconsKeepVisitsAlive
<1>1. ActivityInv => BeaconsKeepVisitsAlive
    BY VisitsAreOpenings DEF ActivityInv, BeaconsKeepVisitsAlive
<1> QED BY <1>1, ActivityHolds, PTL

-----------------------------------------------------------------------------
(***************************************************************************)
(* The read-time sessioniser.  Of hits in stamp order, the i-th row by     *)
(* created_at has the stamp of the i-th hit, whichever way ties fall; the  *)
(* totals depend on the stamps alone, and grow by one hit as the row does. *)
(***************************************************************************)

HitsOf(l) == {l[i] : i \in DOMAIN l}
Distinct(l) == \A i, j \in 1..Len(l) : l[i].id = l[j].id => i = j

LEMMA HitsAreStamped ==
    /\ \A h \in Hit : h.at \in Nat /\ h.id \in Nat
    BY VisitFoldAssumption DEF Hit

\* As many hits as positions.
LEMMA HitsCount ==
    ASSUME NEW l \in Seq(Hit), Distinct(l), NEW I \in SUBSET (1..Len(l))
    PROVE  /\ IsFiniteSet({l[i] : i \in I})
           /\ Cardinality({l[i] : i \in I}) = Cardinality(I)
<1> DEFINE f == [i \in I |-> l[i]]
           T == {l[i] : i \in I}
<1>1. IsFiniteSet(I)
    <2>1. 1 \in Int /\ Len(l) \in Int
        OBVIOUS
    <2>2. IsFiniteSet(1..Len(l))
        BY <2>1, FS_Interval
    <2> QED BY <2>2, FS_Subset
<1>2. f \in [I -> T] /\ \A i \in I : f[i] = l[i]
    OBVIOUS
<1>3. \A i, j \in I : f[i] = f[j] => i = j
    BY <1>2 DEF Distinct
<1>4. \A t \in T : \E i \in I : f[i] = t
    BY <1>2
<1> HIDE DEF f, T
<1>5. f \in Bijection(I, T)
    BY <1>2, <1>3, <1>4 DEF Bijection, Injection, IsInjective, Surjection
<1>6. ExistsBijection(I, T)
    BY <1>5 DEF ExistsBijection
<1> QED BY <1>1, <1>6, FS_Bijection DEF T

Ahead(S, r) == {q \in S : Before(q, r)}

\* Before orders the hits one after the other.
LEMMA BeforeIsOrder ==
    ASSUME NEW l \in Seq(Hit), Distinct(l)
    PROVE  LET S == HitsOf(l) IN
           /\ S \subseteq Hit /\ IsFiniteSet(S) /\ Cardinality(S) = Len(l)
           /\ \A q \in S : ~Before(q, q)
           /\ \A q, r, t \in S : Before(q, r) /\ Before(r, t) => Before(q, t)
           /\ \A q, r \in S : q = r \/ Before(q, r) \/ Before(r, q)
<1> DEFINE S == HitsOf(l)
<1>1. DOMAIN l = 1..Len(l) /\ Len(l) \in Nat
    OBVIOUS
<1>2. S = {l[i] : i \in 1..Len(l)} /\ S \subseteq Hit
    BY <1>1 DEF HitsOf
<1>3. Cardinality(1..Len(l)) = Len(l)
    BY <1>1, FS_Interval
<1>4. IsFiniteSet(S) /\ Cardinality(S) = Len(l)
    BY <1>2, <1>3, HitsCount
<1>5. \A q, r \in S : q.id = r.id => q = r
    BY <1>2 DEF Distinct
<1>6. \A q \in S : q.at \in Nat /\ q.id \in Nat
    BY <1>2, HitsAreStamped
<1> HIDE DEF S
<1>7. \A q \in S : ~Before(q, q)
    BY <1>6 DEF Before
<1>8. \A q, r, t \in S : Before(q, r) /\ Before(r, t) => Before(q, t)
    BY <1>6 DEF Before
<1>9. \A q, r \in S : q = r \/ Before(q, r) \/ Before(r, q)
    BY <1>5, <1>6 DEF Before
<1> QED BY <1>2, <1>4, <1>7, <1>8, <1>9 DEF S

\* Every number of rows is ahead of exactly one hit.
LEMMA EveryPlaceIsTaken ==
    ASSUME NEW l \in Seq(Hit), Distinct(l), NEW i \in 1..Len(l)
    PROVE  \E r \in HitsOf(l) : Cardinality(Ahead(HitsOf(l), r)) = i - 1
<1> DEFINE S == HitsOf(l)
           n == Len(l)
           rank == [r \in S |-> Cardinality(Ahead(S, r))]
<1>1. /\ IsFiniteSet(S) /\ Cardinality(S) = n /\ n \in Nat
      /\ \A q \in S : ~Before(q, q)
      /\ \A q, r, t \in S : Before(q, r) /\ Before(r, t) => Before(q, t)
      /\ \A q, r \in S : q = r \/ Before(q, r) \/ Before(r, q)
    BY BeforeIsOrder
<1> HIDE DEF S
<1>2. ASSUME NEW r \in S
      PROVE  /\ IsFiniteSet(Ahead(S, r)) /\ Cardinality(Ahead(S, r)) \in 0..n - 1
    <2>1. Ahead(S, r) \in SUBSET (S \ {r})
        BY <1>1 DEF Ahead
    <2>2. IsFiniteSet(S \ {r}) /\ Cardinality(S \ {r}) = n - 1
        BY <1>1, FS_RemoveElement
    <2>3. IsFiniteSet(Ahead(S, r)) /\ Cardinality(Ahead(S, r)) <= n - 1
        BY <2>1, <2>2, FS_Subset
    <2> QED BY <1>1, <2>3, FS_CardinalityType
<1>3. ASSUME NEW q \in S, NEW r \in S, Before(q, r)
      PROVE  Cardinality(Ahead(S, q)) < Cardinality(Ahead(S, r))
    <2>1. Ahead(S, q) \in SUBSET Ahead(S, r) /\ q \in Ahead(S, r) /\ q \notin Ahead(S, q)
        BY <1>1, <1>3 DEF Ahead
    <2>2. IsFiniteSet(Ahead(S, r)) /\ IsFiniteSet(Ahead(S, q))
        BY <1>2
    <2>3. Cardinality(Ahead(S, q)) <= Cardinality(Ahead(S, r))
        BY <2>1, <2>2, FS_Subset
    <2>4. Cardinality(Ahead(S, q)) # Cardinality(Ahead(S, r))
        BY <2>1, <2>2, FS_Subset
    <2> QED BY <1>2, <2>3, <2>4
<1>4. rank \in Injection(S, 0..n - 1)
    <2>1. rank \in [S -> 0..n - 1]
        BY <1>2
    <2>2. \A q, r \in S : rank[q] = rank[r] => q = r
        <3> SUFFICES ASSUME NEW q \in S, NEW r \in S, rank[q] = rank[r], q # r
                     PROVE  FALSE
            OBVIOUS
        <3>1. Before(q, r) \/ Before(r, q)
            BY <1>1
        <3>2. rank[q] < rank[r] \/ rank[r] < rank[q]
            BY <1>3, <3>1
        <3>3. rank[q] \in Int /\ rank[r] \in Int
            BY <2>1
        <3> QED BY <3>2, <3>3
    <2> QED BY <2>1, <2>2 DEF Injection, IsInjective
<1>5. IsFiniteSet(0..n - 1) /\ Cardinality(0..n - 1) = n
    <2>1. n - 1 \in Int /\ (0 > n - 1 => n = 0) /\ (n - 1) - 0 + 1 = n
        BY <1>1
    <2>2. \A b \in Int : /\ IsFiniteSet(0..b)
                         /\ Cardinality(0..b) = (IF 0 > b THEN 0 ELSE b - 0 + 1)
        BY FS_Interval
    <2>3. /\ IsFiniteSet(0..n - 1)
          /\ Cardinality(0..n - 1) = (IF 0 > n - 1 THEN 0 ELSE (n - 1) - 0 + 1)
        BY <2>1, <2>2
    <2> QED BY <2>1, <2>3
<1>6. rank \in Surjection(S, 0..n - 1)
    BY <1>1, <1>4, <1>5, FS_Injection
<1>7. i - 1 \in 0..n - 1
    BY <1>1
<1>8. PICK r \in S : rank[r] = i - 1
    BY <1>6, <1>7 DEF Surjection
<1> QED BY <1>8 DEF S

\* In stamp order, the row in place i has the stamp of hit i: with an earlier
\* stamp it and what is ahead of it would be among the first i - 1 hits, with a
\* later one the first i hits would be ahead of it.
LEMMA PlacesHaveStamps ==
    ASSUME NEW l \in Seq(Hit), Distinct(l), Stamped(l), NEW i \in 1..Len(l)
    PROVE  ByCreatedAt(HitsOf(l))[i].at = l[i].at
<1> DEFINE S == HitsOf(l)
           n == Len(l)
           r == CHOOSE r \in S : Cardinality(Ahead(S, r)) = i - 1
<1>1. /\ IsFiniteSet(S) /\ Cardinality(S) = n /\ n \in Nat /\ S \subseteq Hit
      /\ \A q \in S : ~Before(q, q)
    BY BeforeIsOrder
<1>2. ByCreatedAt(S)[i] = r
    BY <1>1 DEF ByCreatedAt, Ahead
<1>3. r \in S /\ Cardinality(Ahead(S, r)) = i - 1
    BY EveryPlaceIsTaken, Zenon
<1> HIDE DEF r
<1>4. PICK k \in 1..n : l[k] = r
    BY <1>3 DEF HitsOf
<1>5. \A j \in 1..n : l[j].at \in Nat /\ l[j] \in S /\ l[j].id \in Nat
    BY HitsAreStamped DEF HitsOf
<1>6. \A q \in S : \E j \in 1..n : q = l[j]
    BY DEF HitsOf
<1>7. ASSUME r.at < l[i].at PROVE FALSE
    <2> DEFINE A == Ahead(S, r) \cup {r}
               B == {l[j] : j \in 1..i - 1}
    <2>1. IsFiniteSet(Ahead(S, r)) /\ r \notin Ahead(S, r)
        <3>1. Ahead(S, r) \in SUBSET S
            BY DEF Ahead
        <3>2. r \notin Ahead(S, r)
            BY <1>1, <1>3 DEF Ahead
        <3> QED BY <1>1, <3>1, <3>2, FS_Subset
    <2>2. IsFiniteSet(A) /\ Cardinality(A) = i
        <3>1. /\ IsFiniteSet(Ahead(S, r) \cup {r})
              /\ Cardinality(Ahead(S, r) \cup {r}) = Cardinality(Ahead(S, r)) + 1
            BY <2>1, FS_AddElement
        <3>2. (i - 1) + 1 = i
            OBVIOUS
        <3> QED BY <1>3, <3>1, <3>2
    <2>3. IsFiniteSet(B) /\ Cardinality(B) = i - 1
        <3>1. 1..i - 1 \in SUBSET (1..n) /\ 1 \in Int /\ i - 1 \in Int
            BY <1>1
        <3>2. Cardinality(1..i - 1) = i - 1
            BY <3>1, FS_Interval
        <3> QED BY <3>1, <3>2, HitsCount
    <2>4. A \in SUBSET B
        <3> SUFFICES ASSUME NEW q \in A PROVE q \in B
            OBVIOUS
        <3>1. PICK j \in 1..n : q = l[j]
            BY <1>3, <1>6 DEF Ahead
        <3>2. q.at <= r.at
            BY <1>3, <1>4, <1>5, <3>1 DEF Ahead, Before
        <3>3. ~(i <= j)
            BY <1>4, <1>5, <1>7, <3>1, <3>2 DEF Stamped
        <3>4. j \in 1..i - 1
            BY <3>3
        <3> QED BY <3>1, <3>4
    <2>5. Cardinality(A) <= Cardinality(B)
        BY <2>3, <2>4, FS_Subset
    <2> QED BY <2>2, <2>3, <2>5
<1>8. ASSUME l[i].at < r.at PROVE FALSE
    <2> DEFINE B == {l[j] : j \in 1..i}
    <2>1. IsFiniteSet(B) /\ Cardinality(B) = i
        <3>1. 1..i \in SUBSET (1..n) /\ 1 \in Int /\ i \in Int
            BY <1>1
        <3>2. Cardinality(1..i) = i
            BY <3>1, FS_Interval
        <3> QED BY <3>1, <3>2, HitsCount
    <2>2. B \in SUBSET Ahead(S, r)
        <3> SUFFICES ASSUME NEW j \in 1..i PROVE l[j] \in Ahead(S, r)
            OBVIOUS
        <3>1. j \in 1..n /\ j <= i
            BY <1>1
        <3>2. l[j].at <= l[i].at
            BY <3>1 DEF Stamped
        <3>3. l[j].at < r.at
            BY <1>4, <1>5, <1>8, <3>1, <3>2
        <3> QED BY <1>5, <3>1, <3>3 DEF Ahead, Before
    <2>3. Ahead(S, r) \in SUBSET S
        BY DEF Ahead
    <2>4. IsFiniteSet(Ahead(S, r))
        BY <1>1, <2>3, FS_Subset
    <2>5. Cardinality(B) <= i - 1
        BY <1>3, <2>2, <2>4, FS_Subset
    <2> QED BY <2>1, <2>5
<1>9. r.at = l[i].at
    BY <1>4, <1>5, <1>7, <1>8
<1> QED BY <1>2, <1>9

\* The totals, read off hits in stamp order.
Gaps(l) == [i \in 2..Len(l) |-> Gap(l[i - 1].at, l[i].at)]
Starts(l) == {i \in 1..Len(l) : i = 1 \/ Gap(l[i - 1].at, l[i].at) > SessionTimeout}
Inner(l) == 1..Len(l) \ Starts(l)
TotalsOf(l) ==
    [visits |-> Cardinality(Starts(l)),
     bounces |-> Cardinality({i \in Starts(l) : i = Len(l) \/ i + 1 \in Starts(l)}),
     pageviews |-> Len(l),
     duration |-> SumFunctionOnSet(Gaps(l), Inner(l))]

LEMMA GapsAreNumbers ==
    ASSUME NEW l \in Seq(Hit)
    PROVE  /\ Inner(l) \subseteq 2..Len(l) /\ IsFiniteSet(Inner(l)) /\ IsFiniteSet(Starts(l))
           /\ \A i \in 2..Len(l) : Gaps(l)[i] = Gap(l[i - 1].at, l[i].at) /\ Gaps(l)[i] \in Nat
           /\ Adds(Gaps(l), Inner(l))
<1>1. Len(l) \in Nat /\ 1 \in Int /\ Len(l) \in Int
    OBVIOUS
<1>2. Inner(l) \subseteq 2..Len(l)
    BY <1>1 DEF Inner, Starts
<1>3. IsFiniteSet(1..Len(l))
    BY <1>1, FS_Interval
<1>4. IsFiniteSet(Starts(l)) /\ IsFiniteSet(Inner(l))
    <2>1. Starts(l) \in SUBSET (1..Len(l)) /\ Inner(l) \in SUBSET (1..Len(l))
        BY DEF Inner, Starts
    <2> QED BY <1>3, <2>1, FS_Subset
<1>5. ASSUME NEW i \in 2..Len(l)
      PROVE  Gaps(l)[i] = Gap(l[i - 1].at, l[i].at) /\ Gaps(l)[i] \in Nat
    <2>1. l[i - 1] \in Hit /\ l[i] \in Hit
        BY <1>1
    <2>2. Gap(l[i - 1].at, l[i].at) \in Nat
        BY <2>1, HitsAreStamped, GapType
    <2> QED BY <2>2 DEF Gaps
<1> QED BY <1>2, <1>4, <1>5 DEF Adds

LEMMA TotalsReadStamps ==
    ASSUME NEW l \in Seq(Hit), Distinct(l), Stamped(l)
    PROVE  SessionTotals(HitsOf(l)) = TotalsOf(l)
<1> DEFINE s == ByCreatedAt(HitsOf(l))
           n == Len(l)
           gap(i) == Gap(s[i - 1].at, s[i].at)
           starts == {i \in DOMAIN s : i = 1 \/ gap(i) > SessionTimeout}
           rest == DOMAIN s \ starts
           Gathers(g) == g = [u \in SUBSET rest |->
                                IF u = {} THEN 0
                                ELSE gap(CHOOSE x \in u : TRUE) + g[u \ {CHOOSE x \in u : TRUE}]]
<1>1. SessionTotals(HitsOf(l)) =
        [visits |-> Cardinality(starts),
         bounces |-> Cardinality({i \in starts : i = Len(s) \/ i + 1 \in starts}),
         pageviews |-> Len(s),
         duration |-> (CHOOSE g : Gathers(g))[rest]]
    BY DEF SessionTotals, MapThenSumSet, MapThenFoldSet
<1>2. n \in Nat /\ Cardinality(HitsOf(l)) = n
    BY BeforeIsOrder
<1>3. DOMAIN s = 1..n /\ Len(s) = n
    <2> DEFINE at(i) == CHOOSE r \in HitsOf(l) :
                            Cardinality({q \in HitsOf(l) : Before(q, r)}) = i - 1
    <2>0. s = [i \in 1..n |-> at(i)]
        BY <1>2, Zenon DEF ByCreatedAt
    <2> HIDE DEF s, at
    <2>1. s = [i \in 1..n |-> s[i]]
        BY <2>0
    <2>2. DOMAIN s = 1..n
        BY <2>1
    <2>3. s \in Seq({s[i] : i \in 1..n})
        BY <1>2, <2>1
    <2> QED BY <1>2, <2>2, <2>3
<1>4. \A i \in 1..n : s[i].at = l[i].at
    BY PlacesHaveStamps
<1> HIDE DEF s
<1>5. \A i \in 2..n : gap(i) = Gap(l[i - 1].at, l[i].at)
    <2> TAKE i \in 2..n
    <2>1. i \in 1..n /\ i - 1 \in 1..n
        BY <1>2
    <2> QED BY <1>4, <2>1
<1> HIDE DEF gap
<1>6. starts = Starts(l)
    <2>1. \A i \in 1..n : i = 1 \/ i \in 2..n
        BY <1>2
    <2> QED BY <1>3, <1>5, <2>1 DEF Starts
<1>7. rest = Inner(l)
    BY <1>3, <1>6 DEF Inner
<1>8. \A x \in Inner(l) : gap(x) = Gaps(l)[x]
    BY <1>5, GapsAreNumbers
<1> HIDE DEF starts, rest
<1>9. ASSUME NEW g PROVE Gathers(g) <=> Sums(Gaps(l), Inner(l), g)
    <2>1. \A u \in SUBSET Inner(l) : u # {} => gap(Chosen(u)) = Gaps(l)[Chosen(u)]
        BY <1>8, ChosenIsIn
    <2>2. [u \in SUBSET Inner(l) |->
              IF u = {} THEN 0 ELSE gap(Chosen(u)) + g[u \ {Chosen(u)}]]
          = [u \in SUBSET Inner(l) |->
              IF u = {} THEN 0 ELSE Gaps(l)[Chosen(u)] + g[u \ {Chosen(u)}]]
        BY <2>1
    <2> QED BY <1>7, <2>2, Zenon DEF Sums, Chosen
<1>10. Sums(Gaps(l), Inner(l), CHOOSE g : Gathers(g))
    <2>1. PICK g : Sums(Gaps(l), Inner(l), g)
        BY GapsAreNumbers, SumsExist
    <2>2. Gathers(g)
        BY <1>9, <2>1
    <2> HIDE DEF Gathers
    <2>3. Gathers(CHOOSE h : Gathers(h))
        BY <2>2, Zenon
    <2> QED BY <1>9, <2>3
<1> HIDE DEF Gathers
<1>11. (CHOOSE g : Gathers(g))[Inner(l)] = SumFunctionOnSet(Gaps(l), Inner(l))
    BY <1>10, GapsAreNumbers, SumIsAny
<1> QED BY <1>1, <1>3, <1>6, <1>7, <1>11, Zenon DEF TotalsOf

\* A hit that follows opens a session or lengthens the last one.
LEMMA TotalsGrow ==
    ASSUME NEW l \in Seq(Hit), NEW h \in Hit
    PROVE  LET m == Append(l, h)
               n == Len(l)
               gap == Gap(l[n].at, h.at)
               opens == n = 0 \/ gap > SessionTimeout
           IN  /\ opens => /\ Starts(m) = Starts(l) \cup {n + 1}
                           /\ SumFunctionOnSet(Gaps(m), Inner(m))
                                = SumFunctionOnSet(Gaps(l), Inner(l))
               /\ ~opens => /\ Starts(m) = Starts(l)
                            /\ SumFunctionOnSet(Gaps(m), Inner(m))
                                 = SumFunctionOnSet(Gaps(l), Inner(l)) + gap
<1> DEFINE m == Append(l, h)
           n == Len(l)
           gap == Gap(l[n].at, h.at)
           opens == n = 0 \/ gap > SessionTimeout
<1>1. /\ n \in Nat /\ Len(m) = n + 1 /\ m[n + 1] = h /\ m \in Seq(Hit)
      /\ \A i \in 1..n : m[i] = l[i]
      /\ (n + 1) - 1 = n
      /\ \A i \in 1..n + 1 : i \in 1..n \/ i = n + 1
      /\ \A i \in 1..n : i \in 1..n + 1 /\ i # n + 1
      /\ n + 1 \in 1..n + 1
    OBVIOUS
<1> HIDE DEF m
<1>2. \A i \in 2..n : Gap(m[i - 1].at, m[i].at) = Gap(l[i - 1].at, l[i].at)
    <2> TAKE i \in 2..n
    <2>1. i \in 1..n /\ i - 1 \in 1..n
        BY <1>1
    <2> QED BY <1>1, <2>1
<1>3. n # 0 => Gap(m[(n + 1) - 1].at, m[n + 1].at) = gap
    <2> HAVE n # 0
    <2>1. n \in 1..n
        BY <1>1
    <2> QED BY <1>1, <2>1
<1> HIDE DEF gap
<1>4. \A i \in 1..n : i \in Starts(m) <=> i \in Starts(l)
    <2> TAKE i \in 1..n
    <2>1. i = 1 \/ i \in 2..n
        BY <1>1
    <2> QED BY <1>1, <1>2, <2>1 DEF Starts
<1>5. n + 1 \in Starts(m) <=> opens
    <2>1. n + 1 = 1 <=> n = 0
        BY <1>1
    <2> QED BY <1>1, <1>3, <2>1 DEF Starts
<1> HIDE DEF opens
<1>6. /\ opens => Starts(m) = Starts(l) \cup {n + 1}
      /\ ~opens => Starts(m) = Starts(l)
    <2>1. Starts(m) \subseteq 1..n + 1 /\ Starts(l) \subseteq 1..n
        BY <1>1 DEF Starts
    <2> QED BY <1>1, <1>4, <1>5, <2>1
<1>7. /\ opens => Inner(m) = Inner(l)
      /\ ~opens => Inner(m) = Inner(l) \cup {n + 1}
      /\ n + 1 \notin Inner(l)
    <2>1. Inner(m) = 1..n + 1 \ Starts(m) /\ Inner(l) = 1..n \ Starts(l)
        BY <1>1 DEF Inner
    <2> QED BY <1>1, <1>4, <1>5, <2>1
<1>8. SumFunctionOnSet(Gaps(l), Inner(l)) = SumFunctionOnSet(Gaps(m), Inner(l))
    <2>1. \A i \in Inner(l) : Gaps(l)[i] = Gaps(m)[i]
        <3> TAKE i \in Inner(l)
        <3>1. i \in 2..n
            BY GapsAreNumbers
        <3>2. i \in 2..Len(m)
            BY <1>1, <3>1
        <3>3. Gaps(l)[i] = Gap(l[i - 1].at, l[i].at)
            BY <3>1, GapsAreNumbers
        <3>4. Gaps(m)[i] = Gap(m[i - 1].at, m[i].at)
            BY <1>1, <3>2, GapsAreNumbers
        <3> QED BY <1>2, <3>1, <3>3, <3>4
    <2> QED BY <2>1, GapsAreNumbers, SumOfSame
<1>9. CASE opens
    <2>1. SumFunctionOnSet(Gaps(m), Inner(m)) = SumFunctionOnSet(Gaps(m), Inner(l))
        BY <1>7, <1>9, Zenon
    <2> QED BY <1>6, <1>8, <1>9, <2>1 DEF opens, gap, m
<1>10. CASE ~opens
    <2>1. n + 1 \in 2..Len(m) /\ n # 0
        BY <1>1, <1>10 DEF opens
    <2>2. Gaps(m)[n + 1] = gap /\ IsFiniteSet(Inner(l)) /\ IsFiniteSet(Inner(m))
        BY <1>1, <1>3, <2>1, GapsAreNumbers
    <2> DEFINE T == Inner(l)
    <2>3. T \cup {n + 1} = Inner(m) /\ n + 1 \notin T
        BY <1>7, <1>10
    <2>4. Adds(Gaps(m), T \cup {n + 1})
        BY <1>1, <2>3, GapsAreNumbers, Zenon
    <2> HIDE DEF T
    <2>5. SumFunctionOnSet(Gaps(m), T \cup {n + 1}) = SumFunctionOnSet(Gaps(m), T) + Gaps(m)[n + 1]
        BY <2>2, <2>3, <2>4, SumAdds DEF T
    <2>6. SumFunctionOnSet(Gaps(m), Inner(m)) = SumFunctionOnSet(Gaps(m), T) + gap
        BY <2>2, <2>3, <2>5, Zenon
    <2> QED BY <1>6, <1>8, <1>10, <2>6 DEF opens, gap, m, T
<1> QED BY <1>9, <1>10

\* Requests are numbered as they are stamped, and a fold runs once.
IdsInv ==
    /\ Distinct(log)
    /\ \A i \in 1..Len(log) : log[i].id <= issued
    /\ \A h \in pending : h.id <= issued /\ \A i \in 1..Len(log) : log[i].id # h.id
    /\ \A h, g \in pending : h.id = g.id => h = g

LEMMA IdsStayDistinct == TypeOK /\ IdsInv /\ [Next]_vars => IdsInv'
<1> SUFFICES ASSUME TypeOK, IdsInv, [Next]_vars PROVE IdsInv'
    OBVIOUS
<1>1. /\ issued \in Nat /\ log \in Seq(Hit) /\ Len(log) \in Nat
      /\ \A h \in pending : h \in Hit /\ h.id \in Nat
      /\ \A i \in 1..Len(log) : log[i].id \in Nat
    BY HitsAreStamped, VisitFoldAssumption DEF TypeOK
<1>2. CASE log' = log /\ pending' = pending /\ issued' = issued
    BY <1>2 DEF IdsInv, Distinct
<1>3. ASSUME NEW secs \in EngagedSeconds \cup {0}, Stamp(secs) PROVE IdsInv'
    <2> DEFINE new == [id |-> issued + 1, at |-> now, secs |-> secs]
    <2>1. log' = log /\ issued' = issued + 1 /\ pending' = pending \cup {new}
        BY <1>3 DEF Stamp
    <2>2. new.id = issued + 1
        OBVIOUS
    <2> HIDE DEF new
    <2> QED BY <1>1, <2>1, <2>2 DEF IdsInv, Distinct
<1>4. ASSUME NEW h \in pending, FoldVisit(h) \/ FoldEngagement(h) PROVE IdsInv'
    <2>1. log' = Append(log, h) /\ issued' = issued /\ pending' = pending \ {h}
        BY <1>4 DEF FoldVisit, FoldEngagement
    <2>2. /\ Len(log') = Len(log) + 1 /\ log'[Len(log) + 1] = h
          /\ \A i \in 1..Len(log) : log'[i] = log[i]
          /\ \A i \in 1..Len(log) + 1 : i \in 1..Len(log) \/ i = Len(log) + 1
        BY <1>1, <2>1
    <2>3. Distinct(log')
        BY <1>1, <2>2 DEF IdsInv, Distinct
    <2>4. \A i \in 1..Len(log') : log'[i].id <= issued'
        BY <1>1, <2>1, <2>2 DEF IdsInv
    <2>5. \A g \in pending' : g.id <= issued' /\ \A i \in 1..Len(log') : log'[i].id # g.id
        BY <1>1, <2>1, <2>2 DEF IdsInv
    <2> QED BY <2>1, <2>3, <2>4, <2>5 DEF IdsInv, Distinct
<1>5. ASSUME NEW h \in pending, FoldFails(h) PROVE IdsInv'
    BY <1>1, <1>5 DEF FoldFails, IdsInv, Distinct
<1> QED BY <1>2, <1>3, <1>4, <1>5 DEF Next, Tick, vars

\* The induction.  The closed visits of the row are the sessions that another
\* one follows, and its open visit is the last.
LastStart(l, k) == k \in Starts(l) /\ \A j \in Starts(l) : j <= k
ReadAs(r, l) ==
    /\ Len(l) > 0 /\ r.last_seen = l[Len(l)].at
    /\ r.engaged = 0 /\ r.total_pv = Len(l)
    /\ r.visits = Cardinality(Starts(l))
    /\ r.bounces = Cardinality({i \in Starts(l) : i + 1 \in Starts(l)})
    /\ \E k \in Starts(l) : LastStart(l, k) /\ r.cur_pv = Len(l) - k + 1
    /\ r.total_dur + r.cur_dur = SumFunctionOnSet(Gaps(l), Inner(l))
SessionInv ==
    InOrder /\ NoBeacons =>
        IF row = NoRow THEN Len(log) = 0 ELSE ReadAs(row, log)

\* Which sessions another one follows, when a hit is added.
LEMMA FollowedGrow ==
    ASSUME NEW l \in Seq(Hit), NEW h \in Hit,
           LET n == Len(l) IN n = 0 \/ Gap(l[n].at, h.at) > SessionTimeout
    PROVE  LET m == Append(l, h)
               n == Len(l)
               F == {i \in Starts(l) : i + 1 \in Starts(l)}
               G == {i \in Starts(m) : i + 1 \in Starts(m)}
           IN  /\ Cardinality(G) = Cardinality(F) + (IF n \in Starts(l) THEN 1 ELSE 0)
               /\ Cardinality(F) \in Nat
               /\ Cardinality(Starts(m)) = Cardinality(Starts(l)) + 1
               /\ Cardinality(Starts(l)) \in Nat
               /\ LastStart(m, n + 1)
<1> DEFINE m == Append(l, h)
           n == Len(l)
           F == {i \in Starts(l) : i + 1 \in Starts(l)}
           G == {i \in Starts(m) : i + 1 \in Starts(m)}
<1>1. n \in Nat /\ \A i \in Starts(l) : i \in 1..n
    BY DEF Starts
<1>2. Starts(m) = Starts(l) \cup {n + 1}
    BY TotalsGrow
<1>3. IsFiniteSet(Starts(l)) /\ n + 1 \notin Starts(l)
    BY <1>1, GapsAreNumbers
<1> HIDE DEF m
<1>4. G = F \cup (IF n \in Starts(l) THEN {n} ELSE {}) /\ n \notin F
    BY <1>1, <1>2, <1>3
<1>5. IsFiniteSet(F) /\ Cardinality(F) \in Nat
    <2>1. F \in SUBSET Starts(l)
        OBVIOUS
    <2> QED BY <1>3, <2>1, FS_Subset, FS_CardinalityType
<1> HIDE DEF F, G
<1>6. Cardinality(G) = Cardinality(F) + (IF n \in Starts(l) THEN 1 ELSE 0)
    <2>1. CASE n \in Starts(l)
        <3>1. G = F \cup {n}
            BY <1>4, <2>1
        <3>2. Cardinality(F \cup {n}) = Cardinality(F) + 1
            BY <1>4, <1>5, FS_AddElement
        <3> QED BY <2>1, <3>1, <3>2
    <2>2. CASE n \notin Starts(l)
        <3>1. G = F
            BY <1>4, <2>2
        <3> QED BY <1>5, <2>2, <3>1
    <2> QED BY <2>1, <2>2
<1>7. Cardinality(Starts(m)) = Cardinality(Starts(l)) + 1 /\ Cardinality(Starts(l)) \in Nat
    BY <1>2, <1>3, FS_AddElement, FS_CardinalityType
<1>8. LastStart(m, n + 1)
    BY <1>1, <1>2 DEF LastStart
<1> QED BY <1>5, <1>6, <1>7, <1>8 DEF m, F, G

\* A pageview folded last in stamp order, when nothing but pageviews was.
LEMMA PageviewKeepsSessions ==
    ASSUME TypeOK, NEW l \in Seq(Hit), NEW h \in Hit, NEW r \in Row \cup {NoRow},
           IF r = NoRow THEN Len(l) = 0 ELSE ReadAs(r, l) /\ RowSound(r)
    PROVE  ReadAs(FoldedVisit(r, h.at), Append(l, h))
<1> DEFINE m == Append(l, h)
           n == Len(l)
           f == FoldedVisit(r, h.at)
           F(k) == {i \in Starts(k) : i + 1 \in Starts(k)}
           sum(k) == SumFunctionOnSet(Gaps(k), Inner(k))
<1>1. n \in Nat /\ Len(m) = n + 1 /\ m[n + 1] = h /\ h.at \in Nat
    BY HitsAreStamped
<1>2. sum(l) \in Int
    BY GapsAreNumbers, SumType
<1>3. CASE r = NoRow
    <2>1. n = 0 /\ f = FirstVisit(h.at)
        BY <1>3 DEF FoldedVisit
    <2>2. Starts(l) = {}
        BY <2>1 DEF Starts
    <2>3. Starts(m) = {1} /\ sum(m) = sum(l)
        <3>1. Starts(m) = Starts(l) \cup {n + 1} /\ sum(m) = sum(l)
            BY <2>1, TotalsGrow
        <3>2. Starts(l) \cup {n + 1} = {1}
            BY <2>1, <2>2
        <3> QED BY <3>1, <3>2, Zenon
    <2>4. F(m) = {}
        BY <2>3
    <2>5. Inner(l) = {} /\ sum(l) = 0
        <3>1. Inner(l) = {}
            BY <2>1 DEF Inner
        <3> QED BY <3>1, SumOfNothing
    <2>6. Cardinality(Starts(m)) = 1 /\ Cardinality(F(m)) = 0
        BY <2>3, <2>4, FS_Singleton, FS_EmptySet
    <2>7. LastStart(m, 1)
        BY <2>3 DEF LastStart
    <2>8. Len(m) = 1 /\ m[1] = h /\ 1 \in Starts(m)
        BY <1>1, <2>1, <2>3
    <2>9. /\ f.last_seen = h.at /\ f.engaged = 0 /\ f.total_pv = 1 /\ f.visits = 1
          /\ f.bounces = 0 /\ f.cur_pv = 1 /\ f.total_dur = 0 /\ f.cur_dur = 0
        BY <2>1 DEF FirstVisit
    <2> HIDE DEF m, f, sum, F
    <2>10. /\ Len(m) > 0 /\ f.last_seen = m[Len(m)].at /\ f.total_pv = Len(m)
           /\ f.cur_pv = Len(m) - 1 + 1 /\ f.total_dur + f.cur_dur = sum(m)
        BY <2>3, <2>5, <2>8, <2>9
    <2> QED BY <2>6, <2>7, <2>8, <2>9, <2>10 DEF ReadAs, F, f, m, sum
<1>4. CASE r # NoRow
    <2>1. /\ r \in Row /\ ReadAs(r, l) /\ RowSound(r)
          /\ n > 0 /\ r.last_seen = l[n].at /\ r.engaged = 0 /\ r.total_pv = n
          /\ r.visits = Cardinality(Starts(l)) /\ r.bounces = Cardinality(F(l))
          /\ r.total_dur + r.cur_dur = sum(l)
        BY <1>4 DEF ReadAs
    <2>2. PICK k \in Starts(l) : LastStart(l, k) /\ r.cur_pv = n - k + 1
        BY <2>1 DEF ReadAs
    <2>3. k \in 1..n /\ (n \in Starts(l) <=> r.cur_pv = 1)
        <3>1. k \in 1..n /\ \A j \in Starts(l) : j <= k /\ j \in 1..n
            BY <2>2 DEF Starts, LastStart
        <3> QED BY <1>1, <2>2, <3>1
    <2> DEFINE gap == Gap(l[n].at, h.at)
    <2>4. gap \in Nat /\ SessionTimeout \in Nat
        <3>1. l[n] \in Hit
            BY <1>1, <2>1
        <3> QED BY <3>1, HitsAreStamped, GapType, VisitFoldAssumption
    <2>5. /\ r.visits \in Nat /\ r.bounces \in Nat /\ r.cur_pv \in Nat /\ r.cur_dur \in Nat
          /\ r.total_dur \in Nat
        BY <2>1 DEF Row
    <2>6. CASE gap > SessionTimeout
        <3>1. f = NextVisit(r, h.at)
            BY <1>4, <2>1, <2>6 DEF FoldedVisit, StartsVisit
        <3>2. Bounced(r) <=> n \in Starts(l)
            <4>1. r.cur_pv <= 1 <=> r.cur_pv = 1
                BY <2>1, <2>5 DEF RowSound
            <4>2. r.cur_pv = 1 => r.cur_dur + r.engaged = 0
                BY <2>1 DEF RowSound
            <4>3. threshold = 0 \/ 0 < threshold
                BY VisitFoldAssumption DEF TypeOK
            <4> QED BY <2>3, <4>1, <4>2, <4>3 DEF Bounced
        <3>3. Count(Bounced(r)) = (IF n \in Starts(l) THEN 1 ELSE 0)
            BY <3>2 DEF Count
        <3>4. /\ Cardinality(F(m)) = Cardinality(F(l)) + (IF n \in Starts(l) THEN 1 ELSE 0)
              /\ Cardinality(Starts(m)) = Cardinality(Starts(l)) + 1
              /\ LastStart(m, n + 1)
            BY <2>6, FollowedGrow
        <3>5. sum(m) = sum(l)
            BY <2>6, TotalsGrow
        <3>6. n + 1 \in Starts(m)
            BY <3>4 DEF LastStart
        <3>7. /\ f.last_seen = h.at /\ f.engaged = 0 /\ f.total_pv = r.total_pv + 1
              /\ f.visits = r.visits + 1 /\ f.bounces = r.bounces + Count(Bounced(r))
              /\ f.cur_pv = 1 /\ f.cur_dur = 0
              /\ f.total_dur = r.total_dur + r.cur_dur + r.engaged
            BY <3>1 DEF NextVisit
        <3> HIDE DEF m, f, sum, F
        <3>8. /\ Len(m) > 0 /\ f.last_seen = m[Len(m)].at /\ f.total_pv = Len(m)
              /\ f.cur_pv = Len(m) - (n + 1) + 1 /\ f.total_dur + f.cur_dur = sum(m)
            BY <1>1, <1>2, <2>1, <2>5, <3>5, <3>7
        <3>9. f.visits = Cardinality(Starts(m)) /\ f.bounces = Cardinality(F(m))
            BY <2>1, <3>3, <3>4, <3>7
        <3> QED BY <3>4, <3>6, <3>7, <3>8, <3>9 DEF ReadAs, F, f, m, sum
    <2>7. CASE ~(gap > SessionTimeout)
        <3>1. f = ContinueVisit(r, h.at)
            BY <1>4, <2>1, <2>7 DEF FoldedVisit, StartsVisit
        <3>2. Starts(m) = Starts(l) /\ sum(m) = sum(l) + gap
            <4>1. ~(n = 0 \/ gap > SessionTimeout)
                BY <1>1, <2>1, <2>7
            <4> QED BY <4>1, TotalsGrow
        <3>3. F(m) = F(l) /\ LastStart(m, k)
            BY <2>2, <3>2 DEF LastStart
        <3>4. /\ f.last_seen = h.at /\ f.engaged = 0 /\ f.total_pv = r.total_pv + 1
              /\ f.visits = r.visits /\ f.bounces = r.bounces
              /\ f.cur_pv = r.cur_pv + 1 /\ f.cur_dur = r.cur_dur + gap
              /\ f.total_dur = r.total_dur
            BY <2>1, <3>1 DEF ContinueVisit
        <3> HIDE DEF m, f, sum, F, gap
        <3>5. /\ Len(m) > 0 /\ f.last_seen = m[Len(m)].at /\ f.total_pv = Len(m)
              /\ f.cur_pv = Len(m) - k + 1 /\ f.total_dur + f.cur_dur = sum(m)
            <4>0. n \in Nat /\ k \in 1..n /\ r.cur_pv = n - k + 1
                BY <1>1, <2>2, <2>3
            <4> HIDE DEF n
            <4>1. n + 1 > 0 /\ r.cur_pv + 1 = (n + 1) - k + 1
                BY <4>0
            <4>2. r.total_dur + (r.cur_dur + gap) = sum(m)
                BY <1>2, <2>1, <2>4, <2>5, <3>2
            <4> QED BY <1>1, <2>1, <3>4, <4>1, <4>2
        <3>6. f.visits = Cardinality(Starts(m)) /\ f.bounces = Cardinality(F(m)) /\ k \in Starts(m)
            BY <2>1, <2>2, <3>2, <3>3, <3>4
        <3> QED BY <3>3, <3>4, <3>5, <3>6 DEF ReadAs, F, f, m, sum
    <2> QED BY <2>6, <2>7
<1> QED BY <1>3, <1>4

LEMMA SessionsStay == TypeOK /\ RowInv /\ SessionInv /\ [Next]_vars => SessionInv'
<1> SUFFICES ASSUME TypeOK, RowInv, SessionInv, [Next]_vars, InOrder', NoBeacons'
             PROVE  IF row' = NoRow THEN Len(log') = 0 ELSE ReadAs(row', log')
    BY DEF SessionInv
<1>1. /\ log \in Seq(Hit) /\ row \in Row \cup {NoRow} /\ Len(log) \in Nat
      /\ \A h \in pending : h \in Hit
    BY DEF TypeOK
<1>2. CASE log' = log /\ row' = row
    BY <1>2 DEF SessionInv, InOrder, NoBeacons
<1>3. ASSUME NEW h \in pending, log' = Append(log, h)
      PROVE  InOrder /\ NoBeacons /\ IsPageview(h)
    <2>1. h \in Hit
        BY <1>1
    <2>2. InOrder
        BY <1>1, <1>3, <2>1, StampedGrows DEF InOrder
    <2>3. /\ \A i \in DOMAIN log : i \in DOMAIN log' /\ log'[i] = log[i]
          /\ Len(log) + 1 \in DOMAIN log' /\ log'[Len(log) + 1] = h
        BY <1>1, <1>3, <2>1
    <2>4. \A i \in DOMAIN log' : IsPageview(log'[i])
        BY DEF NoBeacons, IsPageview
    <2> QED BY <2>2, <2>3, <2>4 DEF NoBeacons
<1>4. ASSUME NEW h \in pending, FoldVisit(h)
      PROVE  IF row' = NoRow THEN Len(log') = 0 ELSE ReadAs(row', log')
    <2>1. log' = Append(log, h) /\ row' = FoldedVisit(row, h.at) /\ h \in Hit
        BY <1>1, <1>4 DEF FoldVisit
    <2>2. InOrder /\ NoBeacons
        BY <1>3, <2>1
    <2>3. IF row = NoRow THEN Len(log) = 0 ELSE ReadAs(row, log) /\ RowSound(row)
        BY <2>2 DEF SessionInv, RowInv
    <2>4. ReadAs(row', log')
        BY <1>1, <2>1, <2>3, PageviewKeepsSessions
    <2>5. row' # NoRow
        <3>1. FoldedVisit(row, h.at) \in Row
            BY <1>1, <2>1, HitsAreStamped, FoldedVisitType
        <3>2. \A r \in Row : r # NoRow
            BY DEF Row, NoRow
        <3> QED BY <2>1, <3>1, <3>2
    <2> QED BY <2>4, <2>5
<1>5. ASSUME NEW h \in pending, FoldEngagement(h) PROVE FALSE
    BY <1>3, <1>5 DEF FoldEngagement
<1> QED BY <1>2, <1>4, <1>5 DEF Next, Tick, Stamp, FoldFails, vars

\* Two ways to count the bounces: the sessions that another one follows, and
\* the last one when it is a single hit.
LEMMA BouncesCount ==
    ASSUME NEW l \in Seq(Hit)
    PROVE  LET n == Len(l)
               F == {i \in Starts(l) : i + 1 \in Starts(l)}
               G == {i \in Starts(l) : i = n \/ i + 1 \in Starts(l)}
           IN  /\ Cardinality(G) = Cardinality(F) + Count(n \in Starts(l))
               /\ Cardinality(F) \in Nat
<1> DEFINE n == Len(l)
           F == {i \in Starts(l) : i + 1 \in Starts(l)}
           G == {i \in Starts(l) : i = n \/ i + 1 \in Starts(l)}
<1>1. n \in Nat /\ \A i \in Starts(l) : i \in 1..n
    BY DEF Starts
<1>2. G = F \cup (IF n \in Starts(l) THEN {n} ELSE {}) /\ n \notin F
    BY <1>1
<1>3. IsFiniteSet(F) /\ Cardinality(F) \in Nat
    <2>1. F \in SUBSET Starts(l)
        OBVIOUS
    <2> QED BY <2>1, GapsAreNumbers, FS_Subset, FS_CardinalityType
<1> SUFFICES Cardinality(G) = Cardinality(F) + Count(n \in Starts(l))
    BY <1>3
<1> HIDE DEF F, G
<1>4. CASE n \in Starts(l)
    <2>1. G = F \cup {n}
        BY <1>2, <1>4
    <2>2. Cardinality(F \cup {n}) = Cardinality(F) + 1
        BY <1>2, <1>3, FS_AddElement
    <2> QED BY <1>3, <1>4, <2>1, <2>2 DEF Count
<1>5. CASE n \notin Starts(l)
    <2>1. G = F
        BY <1>2, <1>5
    <2> QED BY <1>3, <1>5, <2>1 DEF Count
<1> QED BY <1>4, <1>5

LEMMA RowIsReadAsSessions ==
    ASSUME TypeOK, RowInv, IdsInv, SessionInv, InOrder => Stamped(log)
    PROVE  AgreesWithSessioniser
<1> SUFFICES ASSUME InOrder, NoBeacons, row # NoRow
             PROVE  LiveTotals(row) = SessionTotals(Pageviews)
    BY DEF AgreesWithSessioniser
<1>1. /\ log \in Seq(Hit) /\ row \in Row /\ ReadAs(row, log) /\ RowSound(row)
      /\ threshold \in Nat
    BY VisitFoldAssumption DEF TypeOK, SessionInv, RowInv
<1>2. Pageviews = HitsOf(log)
    BY DEF Pageviews, HitsOf, NoBeacons
<1>3. SessionTotals(Pageviews) = TotalsOf(log)
    BY <1>1, <1>2, TotalsReadStamps DEF IdsInv
<1> DEFINE n == Len(log)
           F == {i \in Starts(log) : i + 1 \in Starts(log)}
           G == {i \in Starts(log) : i = n \/ i + 1 \in Starts(log)}
<1>4. n \in Starts(log) <=> row.cur_pv = 1
    <2>1. PICK k \in Starts(log) : LastStart(log, k) /\ row.cur_pv = n - k + 1
        BY <1>1 DEF ReadAs
    <2>2. n \in Nat /\ k \in 1..n /\ \A j \in Starts(log) : j <= k /\ j \in 1..n
        BY <1>1, <2>1 DEF Starts, LastStart
    <2> HIDE DEF n
    <2> QED BY <2>1, <2>2
<1>5. OpenBounce(row) <=> n \in Starts(log)
    <2>1. row.cur_pv \in Nat /\ row.cur_pv >= 1 /\ row.engaged = 0
        BY <1>1 DEF RowSound, ReadAs, Row
    <2> HIDE DEF n
    <2> QED BY <1>1, <1>4, <2>1 DEF OpenBounce
<1>6. Cardinality(G) = Cardinality(F) + Count(n \in Starts(log))
    BY <1>1, BouncesCount
<1>7. /\ row.visits = Cardinality(Starts(log)) /\ row.bounces = Cardinality(F)
      /\ row.total_pv = n /\ row.engaged = 0
      /\ row.total_dur + row.cur_dur = SumFunctionOnSet(Gaps(log), Inner(log))
      /\ row.total_dur \in Nat /\ row.cur_dur \in Nat
    BY <1>1 DEF ReadAs, Row
<1>8. Count(OpenBounce(row)) = Count(n \in Starts(log))
    BY <1>5 DEF Count
<1> HIDE DEF F, G, n
<1>9. /\ LiveTotals(row).visits = Cardinality(Starts(log))
      /\ LiveTotals(row).bounces = Cardinality(G)
      /\ LiveTotals(row).pageviews = n
      /\ LiveTotals(row).duration = SumFunctionOnSet(Gaps(log), Inner(log))
    BY <1>6, <1>7, <1>8 DEF LiveTotals
<1>10. TotalsOf(log) = [visits |-> Cardinality(Starts(log)), bounces |-> Cardinality(G),
                        pageviews |-> n, duration |-> SumFunctionOnSet(Gaps(log), Inner(log))]
    BY Zenon DEF TotalsOf, G, n
<1>11. LiveTotals(row) = [visits |-> LiveTotals(row).visits, bounces |-> LiveTotals(row).bounces,
                          pageviews |-> LiveTotals(row).pageviews,
                          duration |-> LiveTotals(row).duration]
    BY DEF LiveTotals
<1> QED BY <1>3, <1>9, <1>10, <1>11

\* Without beacons, and whatever the constants, the requests' stamps and the
\* deployment's threshold, a row folded in stamp order reads exactly as the
\* read-time sessioniser reads the same pageviews: fold_visit and
\* _session_sql count visits, bounces, pageviews and on-site time alike.
THEOREM RowsReadAsSessions == Spec => []AgreesWithSessioniser
<1>1. Init => IdsInv /\ SessionInv
    BY DEF Init, IdsInv, Distinct, SessionInv
<1>2. ActivityInv => (InOrder => Stamped(log))
    BY DEF ActivityInv
<1>3. TypeOK /\ RowInv /\ IdsInv /\ SessionInv /\ ActivityInv => AgreesWithSessioniser
    BY <1>2, RowIsReadAsSessions
<1> QED BY <1>1, <1>3, IdsStayDistinct, SessionsStay, VisitFoldTyped, RowIsSound,
           ActivityHolds, PTL DEF Spec

=============================================================================
