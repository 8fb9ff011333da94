---------------------------- MODULE PlatformProofs ----------------------------
(***************************************************************************)
(* What the platform around the visitor counts guarantees for every value  *)
(* of the constants: the backfill of imported events beside live traffic,  *)
(* the import jobs of an installation, the gate of the ingest endpoint and *)
(* the browser tracker.  The machines share no state; each has a section   *)
(* with the step lemmas of its inductive invariant and its theorems.       *)
(***************************************************************************)
EXTENDS VisitorBackfill, ImportJobs, IngestGate, TrackerTab,
        SequenceTheorems, WellFoundedInduction, TLAPS

\* Every set of numbers that is not empty has a least one.
LEMMA LeastNumber ==
  ASSUME NEW S \in SUBSET Nat, S # {}
  PROVE  \E x \in S : \A y \in S : x <= y
  <1>1. PICK x \in S : \A y \in S : ~(<<y, x>> \in OpToRel(<, Nat))
    BY NatLessThanWellFounded, WFMin, Zenon
  <1>2. \A y \in S : ~(y < x)
    BY <1>1 DEF OpToRel
  <1> QED BY <1>2

-----------------------------------------------------------------------------
(***************************************************************************)
(* The backfill of imported events (VisitorBackfill).                      *)
(*                                                                         *)
(* A digest is taken up only when its first day is not accounted for.  A   *)
(* folded pageview makes its own day accounted for; so when its digest is  *)
(* taken up all the same, the digest has an earlier pageview, and that one *)
(* had no visit state when the accounted days were worked out: the digest  *)
(* is doubtful.  Meanwhile nothing erases what has been read, because      *)
(* retention needs the lock that the backfill holds.                       *)
(***************************************************************************)

\* A pageview is live or imported, never both.
LEMMA LiveOrImported ==
  /\ Ids \subseteq Nat
  /\ \A i \in ImportedIds : i \notin Hits
  /\ \A k \in LiveKey : \A x : k # [session |-> x] /\ k # NoKey
  /\ \A x : [session |-> x] # NoKey
  <1>1. Ids \subseteq Nat /\ \A i \in ImportedIds : i \notin Hits
    BY VisitorBackfillAssumption DEF Ids, ImportedIds, Hits
  <1>2. \A k \in LiveKey : DOMAIN k = {"visitor", "period"}
    BY DEF LiveKey
  <1>3. \A x : DOMAIN [session |-> x] = {"session"}
    OBVIOUS
  <1>4. DOMAIN NoKey = {"absent"}
    BY DEF NoKey
  <1>5. \A k \in LiveKey : \A x : k # [session |-> x] /\ k # NoKey
    BY <1>2, <1>3, <1>4
  <1>6. \A x : [session |-> x] # NoKey
    BY <1>3, <1>4
  <1> QED BY <1>1, <1>5, <1>6

\* The state of the backfill machine begins well-typed and stays so.
LEMMA BackfillInit == InitBackfill => TypeOK /\ BackfillInv
  <1> SUFFICES ASSUME InitBackfill PROVE TypeOK /\ BackfillInv
    OBVIOUS
  <1>1. TypeOK
    BY VisitorBackfillAssumption DEF InitBackfill, TypeOK, Days
  <1>2. BackfillInv
    BY DEF InitBackfill, BackfillInv, EventInv, PageviewInv, BackfillTxInv,
           DoubtInv, LockFree, Ids
  <1> QED BY <1>1, <1>2

\* FirstDay is what its name says: the day of the first of a digest's rows.
LEMMA FirstDayIsFirst ==
  ASSUME TypeOK, NEW k, \E e \in WithDigest : e.key = k
  PROVE  /\ FirstDay(k) \in Days
         /\ \E e \in WithDigest : e.key = k /\ e.day = FirstDay(k)
  <1> DEFINE S == {e.day : e \in {f \in WithDigest : f.key = k}}
  <1>1. \A e \in WithDigest : e.day \in Days
    BY DEF TypeOK, WithDigest, Event
  <1>2. Days \subseteq Nat
    BY VisitorBackfillAssumption DEF Days
  <1>3. S \in SUBSET Nat /\ S # {}
    BY <1>1, <1>2
  <1>4. PICK d \in S : \A c \in S : d <= c
    BY <1>3, LeastNumber
  <1>5. \E d1 \in Days :
           /\ \E e \in WithDigest : e.key = k /\ e.day = d1
           /\ \A e \in WithDigest : e.key = k => d1 <= e.day
    BY <1>1, <1>4
  <1> QED BY <1>5, Zenon DEF FirstDay

\* Every step of the backfill machine keeps the types.
LEMMA BackfillTypes ==
  TypeOK /\ [NextBackfill]_backfillVars => TypeOK'
  <1> SUFFICES ASSUME TypeOK, [NextBackfill]_backfillVars PROVE TypeOK'
    OBVIOUS
  <1> USE VisitorBackfillAssumption
  <1>0. Hits \subseteq Ids /\ \A r \in Source : r.id \in Ids
    BY DEF Ids, ImportedIds
  <1>1. CASE NextDay
    BY <1>1 DEF NextDay, TypeOK, Days
  <1>2. ASSUME NEW v \in Visitors, StorePageview(v) PROVE TypeOK'
    <2> DEFINE k == [visitor |-> v, period |-> Period(today)]
               p == [id |-> hits + 1, day |-> today, key |-> k]
    <2>1. k \in LiveKey /\ k \in Keys
      BY DEF LiveKey, Keys, Periods, TypeOK
    <2>2. hits + 1 \in Hits /\ hits + 1 \in 0..MaxHits /\ hits + 1 \in Ids
      BY <1>2, <1>0 DEF StorePageview, Hits, TypeOK
    <2>3. p \in Pageview /\ \A stored \in {k, NoKey} : [p EXCEPT !.key = stored] \in Event
      BY <2>1, <2>2 DEF Pageview, Event, TypeOK
    <2>4. unfolded' \subseteq Pageview /\ events' \subseteq Event
      <3>1. unfolded' = unfolded \cup {p}
        BY <1>2 DEF StorePageview
      <3>2. \E stored \in {k, NoKey} : events' = events \cup {[p EXCEPT !.key = stored]}
        BY <1>2 DEF StorePageview
      <3> QED BY <3>1, <3>2, <2>3 DEF TypeOK
    <2>5. copies' \in [Ids -> Nat] /\ hits' \in 0..MaxHits
      BY <1>2, <2>2 DEF StorePageview, TypeOK
    <2> QED BY <1>2, <2>4, <2>5 DEF StorePageview, TypeOK
  <1>3. ASSUME NEW p \in unfolded, Fold(p) \/ FoldFails(p) PROVE TypeOK'
    BY <1>3 DEF Fold, FoldFails, TypeOK
  <1>4. ASSUME NEW m \in Periods, Rollup(m) PROVE TypeOK'
    <2>1. rolledUp' \in [Ids -> Nat]
      BY <1>4 DEF Rollup, TypeOK
    <2>2. dailyDays' \subseteq Days /\ state' \subseteq Pageview
      BY <1>4 DEF Rollup, TypeOK, Pageview
    <2> QED BY <1>4, <2>1, <2>2 DEF Rollup, TypeOK
  <1>5. CASE ExpireDigests
    <2>1. \A e \in events : [e EXCEPT !.key = NoKey] \in Event
      BY DEF TypeOK, Event
    <2>2. events' \subseteq Event
      BY <1>5, <2>1 DEF ExpireDigests, TypeOK, Expired
    <2> QED BY <1>5, <2>2 DEF ExpireDigests, TypeOK
  <1>6. ASSUME NEW since \in Days, NEW replace \in BOOLEAN, StartImport(since, replace)
        PROVE  TypeOK'
    <2>1. events' \subseteq events
      BY <1>6 DEF StartImport
    <2>2. imports' \in 0..MaxImports /\ import' \in [since : Days]
      BY <1>6 DEF StartImport, TypeOK
    <2> QED BY <1>6, <2>1, <2>2 DEF StartImport, TypeOK
  <1>7. CASE CopyEvents
    <2>1. \A r \in Source : [id |-> r.id, day |-> r.day, key |-> [session |-> r.session]] \in Event
      BY <1>0 DEF Event, Keys, ImportedKey
    <2>2. events' \subseteq Event
      BY <1>7, <2>1 DEF CopyEvents, TypeOK, Rows
    <2>3. copies' \in [Ids -> Nat]
      BY <1>7 DEF CopyEvents, TypeOK
    <2> QED BY <1>7, <2>2, <2>3 DEF CopyEvents, TypeOK
  <1>8. CASE ImportFails
    BY <1>8 DEF ImportFails, TypeOK
  <1>9. CASE BeginBackfill
    <2>1. {p.day : p \in state} \cup dailyDays \subseteq Days /\ {v.id : v \in visits} \subseteq Ids
      BY DEF TypeOK, Pageview
    <2>2. tx' \in Tx
      BY <1>9, <2>1 DEF BeginBackfill, Tx
    <2> QED BY <1>9, <2>2 DEF BeginBackfill, TypeOK
  <1>10. CASE ScanDigests
    <2> DEFINE keys == {k \in {e.key : e \in WithDigest} : FirstDay(k) \notin tx.accounted}
               counted == {e \in WithDigest : e.key \in keys}
    <2>1. tx \in Tx
      BY <1>10 DEF ScanDigests, LockFree, TypeOK
    <2>2. counted \subseteq Pageview
      BY DEF WithDigest, TypeOK, Event, Pageview
    <2>3. \A k \in keys : FirstDay(k) \in Days
      BY FirstDayIsFirst
    <2>4. tx' = NoTx \/ tx' = [tx EXCEPT !.counted = counted,
                                         !.days = {FirstDay(k) : k \in keys}, !.scanned = TRUE]
      BY <1>10 DEF ScanDigests
    <2>5. tx' = NoTx \/ tx' \in Tx
      <3>1. {FirstDay(k) : k \in keys} \in SUBSET Days /\ counted \in SUBSET Pageview
        BY <2>2, <2>3
      <3>2. \A ds \in SUBSET Days, cs \in SUBSET Pageview :
               [tx EXCEPT !.counted = cs, !.days = ds, !.scanned = TRUE] \in Tx
        BY <2>1 DEF Tx
      <3> HIDE DEF keys, counted
      <3> QED BY <3>1, <3>2, <2>4, ZenonT(40)
    <2>6. doubtful' \subseteq Keys
      <3>1. doubtful' = doubtful \cup {e.key : e \in {c \in counted : c.id \in Hits \ tx.folded}}
        BY <1>10 DEF ScanDigests
      <3>2. \A c \in counted : c.key \in Keys
        BY <2>2 DEF Pageview
      <3> QED BY <3>1, <3>2 DEF TypeOK
    <2> QED BY <1>10, <2>5, <2>6 DEF ScanDigests, TypeOK
  <1>11. CASE FinishBackfill
    <2>1. tx \in Tx
      BY <1>11 DEF FinishBackfill, LockFree, TypeOK
    <2>2. backfilled' \in [Ids -> Nat] /\ dailyDays' \subseteq Days
      BY <1>11, <2>1 DEF FinishBackfill, TypeOK, Tx
    <2>3. \A e \in events : [e EXCEPT !.key = NoKey] \in Event
      BY DEF TypeOK, Event
    <2>4. events' \subseteq Event
      BY <1>11, <2>3 DEF FinishBackfill, TypeOK
    <2> QED BY <1>11, <2>2, <2>4 DEF FinishBackfill, TypeOK
  <1>12. CASE BackfillFails
    BY <1>12 DEF BackfillFails, TypeOK
  <1>13. CASE UNCHANGED backfillVars
    BY <1>13 DEF backfillVars, TypeOK
  <1> QED BY <1>1, <1>2, <1>3, <1>4, <1>5, <1>6, <1>7, <1>8, <1>9, <1>10,
             <1>11, <1>12, <1>13 DEF NextBackfill

\* Erasing a digest, by retention or by the backfill, changes nothing else of a
\* row.
ErasesOnly ==
  \A x \in events' : \E e \in events :
      x.id = e.id /\ x.day = e.day /\ x.key \in {e.key, NoKey}

\* Both erasures are of that kind, and leave ids unique.
LEMMA ErasureErasesOnly ==
  ASSUME TypeOK, EventInv, ExpireDigests \/ FinishBackfill
  PROVE  ErasesOnly /\ \A x, y \in events' : x.id = y.id => x = y
  <1>1. \A e \in events : e = [id |-> e.id, day |-> e.day, key |-> e.key]
    BY DEF TypeOK, Event
  <1>2. \A e \in events : [e EXCEPT !.key = NoKey] = [id |-> e.id, day |-> e.day, key |-> NoKey]
    BY <1>1
  <1>3. \A e, f \in events : e.id = f.id => e = f
    BY DEF EventInv
  <1>4. CASE ExpireDigests
    <2>1. PICK B \in SUBSET events :
             events' = (events \ B) \cup {[e EXCEPT !.key = NoKey] : e \in B}
      BY <1>4 DEF ExpireDigests, Expired
    <2>2. \A x \in events' :
             \/ x \in events \ B
             \/ \E e \in B : x = [id |-> e.id, day |-> e.day, key |-> NoKey]
      BY <2>1, <1>2
    <2> QED BY <2>2, <1>3 DEF ErasesOnly
  <1>5. CASE FinishBackfill
    <2> DEFINE taken(e) == \E c \in tx.counted : c.key = e.key
    <2>1. events' = {IF taken(e) THEN [e EXCEPT !.key = NoKey] ELSE e : e \in events}
      BY <1>5 DEF FinishBackfill
    <2> HIDE DEF taken
    <2>3. ASSUME NEW x \in events'
          PROVE  \E e \in events : x = IF taken(e) THEN [e EXCEPT !.key = NoKey] ELSE e
      BY <2>1, Zenon
    <2>2. \A x \in events' : \E e \in events :
             \/ ~taken(e) /\ x = e
             \/ taken(e) /\ x = [id |-> e.id, day |-> e.day, key |-> NoKey]
      <3> TAKE x \in events'
      <3>1. PICK e \in events : x = IF taken(e) THEN [e EXCEPT !.key = NoKey] ELSE e
        BY <2>3, Zenon
      <3>2. [e EXCEPT !.key = NoKey] = [id |-> e.id, day |-> e.day, key |-> NoKey]
        BY <1>2, Zenon
      <3> QED BY <3>1, <3>2, Zenon
    <2> QED BY <2>2, <1>3 DEF ErasesOnly
  <1> QED BY <1>4, <1>5

\* EventInv is kept: a new pageview has a new number, an import inserts only
\* rows that are not there, erasure keeps the rest of a row.
LEMMA EventStep ==
  TypeOK /\ EventInv /\ [NextBackfill]_backfillVars => EventInv'
  <1> SUFFICES ASSUME TypeOK, EventInv, [NextBackfill]_backfillVars PROVE EventInv'
    OBVIOUS
  <1>0. hits \in Nat /\ \A e \in events : e.id \in Ids
    BY VisitorBackfillAssumption DEF TypeOK, Event
  <1>1. CASE events' \subseteq events /\ hits' = hits
    BY <1>1 DEF EventInv
  <1>2. ASSUME NEW v \in Visitors, StorePageview(v) PROVE EventInv'
    <2> DEFINE k == [visitor |-> v, period |-> Period(today)]
    <2>0. PICK stored \in {k, NoKey} :
             events' = events \cup {[id |-> hits + 1, day |-> today, key |-> stored]}
      BY <1>2 DEF StorePageview
    <2> DEFINE x == [id |-> hits + 1, day |-> today, key |-> stored]
    <2>1. events' = events \cup {x} /\ x.id = hits + 1 /\ x.key \in {k, NoKey}
      BY <2>0
    <2> HIDE DEF x
    <2>2. k \in LiveKey
      BY DEF LiveKey, Periods, TypeOK
    <2>3. hits + 1 \in Hits /\ hits' = hits + 1
      BY <1>2, <1>0, VisitorBackfillAssumption DEF StorePageview, Hits
    <2>4. \A e \in events : e.id # hits + 1
      BY <2>3, <1>0 DEF EventInv
    <2>5. \A r \in Source : r.id # hits + 1
      BY <2>3, LiveOrImported DEF ImportedIds
    <2>6. \A e, f \in events' : e.id = f.id => e = f
      BY <2>1, <2>4 DEF EventInv
    <2>7. ASSUME NEW e \in events' PROVE
             /\ e.id \in Hits => e.id <= hits' /\ e.key \in LiveKey \cup {NoKey}
             /\ \A r \in Source : r.id = e.id => e.key \in {[session |-> r.session], NoKey}
      <3>1. CASE e = x
        BY <3>1, <2>1, <2>2, <2>3, <2>5, <1>0
      <3>2. CASE e \in events
        <4>1. e.id \in Hits => e.id <= hits + 1 /\ e.key \in LiveKey \cup {NoKey}
          BY <3>2, <1>0 DEF EventInv, Hits
        <4> QED BY <3>2, <4>1, <2>3 DEF EventInv
      <3> QED BY <2>1, <3>1, <3>2
    <2> QED BY <2>6, <2>7 DEF EventInv
  <1>3. CASE CopyEvents
    <2> DEFINE new == {r \in Rows(import.since) : \A e \in events : e.id # r.id}
               row(r) == [id |-> r.id, day |-> r.day, key |-> [session |-> r.session]]
    <2>1. events' = events \cup {row(r) : r \in new} /\ hits' = hits
      BY <1>3 DEF CopyEvents
    <2>2. \A r \in new : r \in Source /\ r.id \notin Hits /\ \A e \in events : e.id # r.id
      BY LiveOrImported DEF Rows, ImportedIds
    <2>3. \A r, s \in Source : r.id = s.id => r = s
      BY VisitorBackfillAssumption
    <2>4. \A x \in events' : x \in events \/ \E r \in new : x = row(r)
      BY <2>1
    <2>5. \A r : row(r).id = r.id /\ row(r).key = [session |-> r.session]
      OBVIOUS
    <2> HIDE DEF new, row
    <2>6. \A e, f \in events' : e.id = f.id => e = f
      BY <2>2, <2>3, <2>4, <2>5 DEF EventInv
    <2>7. \A e \in events' :
             /\ e.id \in Hits => e.id <= hits' /\ e.key \in LiveKey \cup {NoKey}
             /\ \A r \in Source : r.id = e.id => e.key \in {[session |-> r.session], NoKey}
      <3> SUFFICES ASSUME NEW e \in events'
                   PROVE  /\ e.id \in Hits => e.id <= hits' /\ e.key \in LiveKey \cup {NoKey}
                          /\ \A r \in Source : r.id = e.id => e.key \in {[session |-> r.session], NoKey}
        OBVIOUS
      <3>1. CASE e \in events
        BY <3>1, <2>1 DEF EventInv
      <3>2. ASSUME NEW r \in new, e = row(r)
            PROVE  /\ e.id \notin Hits
                   /\ \A s \in Source : s.id = e.id => e.key = [session |-> s.session]
        BY <3>2, <2>2, <2>3, <2>5
      <3> QED BY <3>1, <3>2, <2>4
    <2> QED BY <2>6, <2>7 DEF EventInv
  <1>4. CASE ExpireDigests \/ FinishBackfill
    <2>1. ErasesOnly /\ \A x, y \in events' : x.id = y.id => x = y
      BY <1>4, ErasureErasesOnly
    <2>2. hits' = hits
      BY <1>4 DEF ExpireDigests, FinishBackfill
    <2> QED BY <2>1, <2>2 DEF EventInv, ErasesOnly
  <1>5. ASSUME NEW since \in Days, NEW replace \in BOOLEAN, StartImport(since, replace)
        PROVE  EventInv'
    BY <1>5, <1>1 DEF StartImport
  <1>6. ASSUME NEW p \in unfolded, Fold(p) \/ FoldFails(p) PROVE EventInv'
    BY <1>6, <1>1 DEF Fold, FoldFails
  <1>7. ASSUME NEW m \in Periods, Rollup(m) PROVE EventInv'
    BY <1>7, <1>1 DEF Rollup
  <1>8. CASE NextDay \/ ImportFails \/ BeginBackfill \/ ScanDigests \/ BackfillFails
             \/ UNCHANGED backfillVars
    BY <1>8, <1>1 DEF NextDay, ImportFails, BeginBackfill, ScanDigests, BackfillFails,
                      backfillVars
  <1> QED BY <1>2, <1>3, <1>4, <1>5, <1>6, <1>7, <1>8 DEF NextBackfill

\* PageviewInv is kept: what becomes of a pageview's row never touches its day,
\* and a folded one leaves the visit state only with a rollup, which leaves a
\* row for its day.
LEMMA PageviewStep ==
  TypeOK /\ EventInv /\ PageviewInv /\ [NextBackfill]_backfillVars => PageviewInv'
  <1> SUFFICES ASSUME TypeOK, EventInv, PageviewInv, [NextBackfill]_backfillVars
               PROVE  PageviewInv'
    OBVIOUS
  <1> DEFINE live == unfolded \cup visits
  <1>a. hits \in Nat /\ \A e \in events : e.id \in Ids
    BY VisitorBackfillAssumption DEF TypeOK, Event
  <1>b. \A p \in live : p.id \in Ids
    BY DEF TypeOK, Pageview
  <1>0. hits \in Nat /\ (\A e \in events : e.id \in Ids) /\ \A p \in live : p.id \in Nat
    BY <1>a, <1>b, LiveOrImported
  <1>1. CASE /\ ErasesOnly /\ hits' = hits /\ unfolded' = unfolded /\ visits' = visits
             /\ state' = state /\ dailyDays \subseteq dailyDays'
    <2>1. ASSUME NEW p \in unfolded \cup visits, NEW x \in events', x.id = p.id
          PROVE  x.day = p.day /\ x.key \in {p.key, NoKey}
      BY <2>1, <1>1 DEF PageviewInv, ErasesOnly
    <2> QED BY <1>1, <2>1 DEF PageviewInv
  <1>3. ASSUME NEW v \in Visitors, StorePageview(v) PROVE PageviewInv'
    <2> DEFINE k == [visitor |-> v, period |-> Period(today)]
    <2>1. PICK stored \in {k, NoKey} :
             /\ unfolded' = unfolded \cup {[id |-> hits + 1, day |-> today, key |-> k]}
             /\ events' = events \cup {[id |-> hits + 1, day |-> today, key |-> stored]}
      BY <1>3 DEF StorePageview
    <2>2. hits + 1 \in Hits /\ hits' = hits + 1
      BY <1>3, <1>0, VisitorBackfillAssumption DEF StorePageview, Hits
    <2>3. (\A e \in events : e.id # hits + 1) /\ (\A q \in live : q.id # hits + 1)
      BY <2>2, <1>0 DEF EventInv, PageviewInv
    <2>4. visits' = visits /\ state' = state /\ dailyDays' = dailyDays
      BY <1>3 DEF StorePageview
    <2> DEFINE p == [id |-> hits + 1, day |-> today, key |-> k]
               x == [id |-> hits + 1, day |-> today, key |-> stored]
    <2>5. /\ p.id = hits + 1 /\ p.day = today /\ p.key = k
          /\ x.id = hits + 1 /\ x.day = today /\ x.key \in {k, NoKey}
      BY <2>1
    <2>6. unfolded' = unfolded \cup {p} /\ events' = events \cup {x}
      BY <2>1
    <2> HIDE DEF p, x
    <2>7. p \notin live
      BY <2>3, <2>5
    <2>8. \A q, r \in unfolded' \cup visits' : q.id = r.id => q = r
      BY <2>3, <2>4, <2>5, <2>6 DEF PageviewInv
    <2>9. ASSUME NEW q \in unfolded' \cup visits'
          PROVE  /\ q.id \in Hits /\ q.id <= hits'
                 /\ \A e \in events' : e.id = q.id => e.day = q.day /\ e.key \in {q.key, NoKey}
      <3>1. CASE q = p
        BY <3>1, <2>2, <2>3, <2>5, <2>6, <1>0
      <3>2. CASE q \in live
        <4>1. q.id \in Hits /\ q.id <= hits + 1 /\ q.id # hits + 1
          BY <3>2, <2>3, <1>0 DEF PageviewInv
        <4> QED BY <3>2, <4>1, <2>2, <2>5, <2>6 DEF PageviewInv
      <3> QED BY <2>4, <2>6, <3>1, <3>2
    <2> QED BY <2>4, <2>6, <2>7, <2>8, <2>9 DEF PageviewInv
  <1>4. ASSUME NEW p \in unfolded, Fold(p) PROVE PageviewInv'
    <2>1. /\ unfolded' = unfolded \ {p} /\ visits' = visits \cup {p} /\ state' = state \cup {p}
          /\ events' = events /\ hits' = hits /\ dailyDays' = dailyDays
      BY <1>4 DEF Fold
    <2> QED BY <2>1 DEF PageviewInv
  <1>5. ASSUME NEW p \in unfolded, FoldFails(p) PROVE PageviewInv'
    BY <1>5 DEF FoldFails, PageviewInv
  <1>6. ASSUME NEW m \in Periods, Rollup(m) PROVE PageviewInv'
    <2>1. PICK unit \in SUBSET state :
             /\ state' = state \ unit /\ dailyDays' = dailyDays \cup {p.day : p \in unit}
             /\ events' = events /\ hits' = hits /\ unfolded' = unfolded /\ visits' = visits
      BY <1>6 DEF Rollup
    <2> QED BY <2>1 DEF PageviewInv
  <1>7. CASE CopyEvents
    <2>1. \A x \in events' : x \in events \/ x.id \notin Hits
      BY <1>7, LiveOrImported DEF CopyEvents, Rows, ImportedIds
    <2>2. /\ hits' = hits /\ unfolded' = unfolded /\ visits' = visits
          /\ state' = state /\ dailyDays' = dailyDays
      BY <1>7 DEF CopyEvents
    <2> QED BY <2>1, <2>2 DEF PageviewInv
  <1>8. CASE ExpireDigests \/ FinishBackfill
    <2>1. ErasesOnly
      BY <1>8, ErasureErasesOnly
    <2>2. /\ hits' = hits /\ unfolded' = unfolded /\ visits' = visits
          /\ state' = state /\ dailyDays \subseteq dailyDays'
      BY <1>8 DEF ExpireDigests, FinishBackfill
    <2> QED BY <2>1, <2>2, <1>1
  <1>9. ASSUME NEW since \in Days, NEW replace \in BOOLEAN, StartImport(since, replace)
        PROVE  PageviewInv'
    <2>1. events' \subseteq events
      BY <1>9 DEF StartImport
    <2> QED BY <1>9, <2>1, <1>1 DEF StartImport, ErasesOnly
  <1>10. CASE NextDay \/ ImportFails \/ BeginBackfill \/ ScanDigests \/ BackfillFails
              \/ UNCHANGED backfillVars
    BY <1>10, <1>1 DEF NextDay, ImportFails, BeginBackfill, ScanDigests, BackfillFails,
                       backfillVars, ErasesOnly
  <1> QED BY <1>3, <1>4, <1>5, <1>6, <1>7, <1>8, <1>9, <1>10 DEF NextBackfill

\* What a scan takes up (ScanDigests).
TakenDigests ==
  {e \in WithDigest :
     e.key \in {k \in {f.key : f \in WithDigest} : FirstDay(k) \notin tx.accounted}}

\* The heart of the argument: a live digest that is taken up although one of
\* its pageviews is folded has another that was not when the accounted days were
\* worked out, and so becomes doubtful.
LEMMA TakenTooEarly ==
  ASSUME TypeOK, EventInv, PageviewInv, BackfillTxInv, ScanDigests,
         NEW c \in TakenDigests, NEW p \in unfolded \cup visits, c.id = p.id
  PROVE  p.key \in doubtful'
  <1>1. /\ ~LockFree
        /\ doubtful' = doubtful \cup {e.key : e \in {d \in TakenDigests : d.id \in Hits \ tx.folded}}
    BY DEF ScanDigests, TakenDigests
  <1>2. c \in events /\ c.key # NoKey /\ FirstDay(c.key) \notin tx.accounted
    BY DEF TakenDigests, WithDigest
  <1>3. c.key = p.key /\ c.day = p.day /\ c.id \in Hits
    BY <1>2 DEF PageviewInv
  <1>4. CASE c.id \notin tx.folded
    BY <1>1, <1>3, <1>4
  <1>5. CASE c.id \in tx.folded
    <2>1. PICK v \in visits : v.id = c.id
      BY <1>1, <1>5 DEF BackfillTxInv
    <2>2. PICK e \in WithDigest : e.key = c.key /\ e.day = FirstDay(c.key)
      BY FirstDayIsFirst DEF TakenDigests
    <2>3. e \in TakenDigests
      BY <2>2 DEF TakenDigests
    <2>4. e \in events /\ e.id \in Ids /\ c.key \in LiveKey
      BY <2>2, <1>2, <1>3 DEF WithDigest, EventInv, TypeOK, Event
    <2>5. e.id \in Hits
      <3>1. SUFFICES ASSUME e.id \notin Hits PROVE FALSE
        OBVIOUS
      <3>2. PICK r \in Source : r.id = e.id
        BY <3>1, <2>4 DEF Ids, ImportedIds
      <3>3. e.key \in {[session |-> r.session], NoKey}
        BY <3>2, <2>4 DEF EventInv
      <3> QED BY <3>3, <2>2, <2>4, LiveOrImported
    <2>6. e.id \notin tx.folded
      <3>1. SUFFICES ASSUME e.id \in tx.folded PROVE FALSE
        OBVIOUS
      <3>2. PICK w \in visits : w.id = e.id
        BY <3>1, <1>1 DEF BackfillTxInv
      <3>3. w.day \in tx.accounted
        BY <3>1, <3>2, <1>1 DEF BackfillTxInv
      <3>4. e.day = w.day
        BY <3>2, <2>4 DEF PageviewInv
      <3> QED BY <3>3, <3>4, <2>2, <1>2
    <2> QED BY <1>1, <2>2, <2>3, <2>5, <2>6, <1>3
  <1> QED BY <1>4, <1>5

\* BackfillTxInv is kept: what the transaction relies on changes only under the
\* lock, or by rows that are new.
LEMMA BackfillTxStep ==
  TypeOK /\ BackfillInv /\ [NextBackfill]_backfillVars => BackfillTxInv'
  <1> SUFFICES ASSUME TypeOK, BackfillInv, [NextBackfill]_backfillVars
               PROVE  BackfillTxInv'
    OBVIOUS
  <1>0. EventInv /\ PageviewInv /\ BackfillTxInv /\ hits \in Nat
    BY VisitorBackfillAssumption DEF BackfillInv, TypeOK
  <1>1. CASE /\ tx' = tx /\ hits' = hits /\ visits' = visits /\ doubtful' = doubtful
             /\ unfolded' = unfolded /\ events' \subseteq events
    BY <1>0, <1>1 DEF BackfillTxInv, LockFree
  <1>2. ASSUME LockFree' PROVE BackfillTxInv'
    BY <1>2 DEF BackfillTxInv
  <1>3. ASSUME NEW v \in Visitors, StorePageview(v) PROVE BackfillTxInv'
    <2> DEFINE k == [visitor |-> v, period |-> Period(today)]
               p == [id |-> hits + 1, day |-> today, key |-> k]
    <2>1. /\ unfolded' = unfolded \cup {p}
          /\ \E stored \in {k, NoKey} :
                events' = events \cup {[id |-> hits + 1, day |-> today, key |-> stored]}
      BY <1>3 DEF StorePageview
    <2>2. hits + 1 \in Hits /\ hits' = hits + 1
      BY <1>3, <1>0, VisitorBackfillAssumption DEF StorePageview, Hits
    <2>3. tx' = tx /\ visits' = visits /\ doubtful' = doubtful
      BY <1>3 DEF StorePageview
    <2>4. CASE LockFree
      BY <2>3, <2>4, <1>2 DEF LockFree
    <2>5. CASE ~LockFree
      <3>1. \A c \in tx.counted : c.id # hits + 1
        BY <2>2, <2>5, <1>0 DEF BackfillTxInv
      <3>2. \A c \in tx.counted : \A e \in events' : e.id = c.id => e \in events
        BY <3>1, <2>1
      <3>3. p.id = hits + 1
        OBVIOUS
      <3> HIDE DEF p
      <3>4. \A c \in tx.counted : \A q \in unfolded' \cup visits' :
               c.id = q.id => q \in unfolded \cup visits
        BY <3>1, <3>3, <2>1, <2>3
      <3>5. \A c \in tx.counted : c.id \in Hits => c.id <= hits'
        BY <1>0, <2>2, <2>5 DEF BackfillTxInv, Hits
      <3>6. \A c \in tx.counted :
              /\ c.key # NoKey
              /\ \A r \in Source : r.id = c.id => c.key = [session |-> r.session]
              /\ \A e \in events' : e.id = c.id => e.key = c.key
              /\ \A q \in unfolded' \cup visits' : c.id = q.id => q.key \in doubtful'
        BY <1>0, <2>5, <3>2, <3>4, <2>3 DEF BackfillTxInv
      <3>7. /\ tx.folded \subseteq {w.id : w \in visits'}
            /\ \A w \in visits' : w.id \in tx.folded => w.day \in tx.accounted
        BY <1>0, <2>3, <2>5 DEF BackfillTxInv
      <3> QED BY <2>3, <3>5, <3>6, <3>7 DEF BackfillTxInv, LockFree
    <2> QED BY <2>4, <2>5
  <1>4. ASSUME NEW p \in unfolded, Fold(p) PROVE BackfillTxInv'
    <2>1. /\ unfolded' = unfolded \ {p} /\ visits' = visits \cup {p}
          /\ events' = events /\ hits' = hits /\ tx' = tx /\ doubtful' = doubtful
      BY <1>4 DEF Fold
    <2>2. \A w \in visits : w.id # p.id
      BY <1>0 DEF PageviewInv
    <2>3. ~LockFree => p.id \notin tx.folded
      BY <2>2, <1>0 DEF BackfillTxInv
    <2>4. unfolded' \cup visits' = unfolded \cup visits
      BY <2>1
    <2> QED BY <1>0, <2>1, <2>3, <2>4 DEF BackfillTxInv, LockFree
  <1>5. ASSUME NEW p \in unfolded, FoldFails(p) PROVE BackfillTxInv'
    <2>1. /\ unfolded' \subseteq unfolded /\ visits' = visits
          /\ events' = events /\ hits' = hits /\ tx' = tx /\ doubtful' = doubtful
      BY <1>5 DEF FoldFails
    <2> QED BY <1>0, <2>1 DEF BackfillTxInv, LockFree
  <1>6. CASE (\E m \in Periods : Rollup(m)) \/ ExpireDigests \/ FinishBackfill \/ BackfillFails
    <2>1. LockFree'
      BY <1>6 DEF Rollup, ExpireDigests, FinishBackfill, BackfillFails, LockFree
    <2> QED BY <2>1, <1>2
  <1>7. ASSUME NEW since \in Days, NEW replace \in BOOLEAN, StartImport(since, replace)
        PROVE  BackfillTxInv'
    BY <1>7, <1>1 DEF StartImport
  <1>8. CASE CopyEvents
    <2>1. \A x \in events' : x \in events \/
             \E r \in Source : x.id = r.id /\ x.key = [session |-> r.session]
      BY <1>8 DEF CopyEvents, Rows
    <2>2. /\ unfolded' = unfolded /\ visits' = visits /\ hits' = hits /\ tx' = tx
          /\ doubtful' = doubtful
      BY <1>8 DEF CopyEvents
    <2>3. ASSUME ~LockFree PROVE
             \A c \in tx.counted : \A x \in events' : x.id = c.id => x.key = c.key
      <3>1. \A c \in tx.counted :
              /\ \A r \in Source : r.id = c.id => c.key = [session |-> r.session]
              /\ \A e \in events : e.id = c.id => e.key = c.key
        BY <1>0, <2>3 DEF BackfillTxInv
      <3> QED BY <3>1, <2>1, ZenonT(40)
    <2> QED BY <1>0, <2>2, <2>3 DEF BackfillTxInv, LockFree
  <1>9. CASE BeginBackfill
    <2>1. /\ tx'.folded = {v.id : v \in visits} /\ tx'.counted = {}
          /\ tx'.accounted = {p.day : p \in state} \cup dailyDays
          /\ visits' = visits
      BY <1>9 DEF BeginBackfill
    <2> QED BY <1>0, <2>1 DEF BackfillTxInv, PageviewInv
  <1>10. CASE ScanDigests
    <2>1. CASE tx' = NoTx
      BY <2>1, <1>2 DEF LockFree
    <2>2. CASE tx' # NoTx
      <3>1. tx \in Tx /\ ~LockFree
        BY <1>10 DEF ScanDigests, TypeOK, LockFree
      <3>2. \E ds : tx' = [tx EXCEPT !.counted = TakenDigests, !.days = ds, !.scanned = TRUE]
        BY <1>10, <2>2 DEF ScanDigests, TakenDigests
      <3>3. tx'.counted = TakenDigests /\ tx'.folded = tx.folded /\ tx'.accounted = tx.accounted
        BY <3>1, <3>2 DEF Tx
      <3>4. events' = events /\ unfolded' = unfolded /\ visits' = visits /\ hits' = hits
        BY <1>10 DEF ScanDigests
      <3>5. TakenDigests \subseteq events /\ \A c \in TakenDigests : c.key # NoKey
        BY DEF TakenDigests, WithDigest
      <3>6. \A c \in TakenDigests : \A p \in unfolded \cup visits : c.id = p.id => p.key \in doubtful'
        BY <1>0, <1>10, TakenTooEarly
      <3>7. \A c \in TakenDigests :
              /\ c.id \in Hits => c.id <= hits
              /\ \A r \in Source : r.id = c.id => c.key = [session |-> r.session]
              /\ \A e \in events : e.id = c.id => e.key = c.key
        BY <1>0, <3>5 DEF EventInv
      <3> QED BY <1>0, <3>1, <3>3, <3>4, <3>5, <3>6, <3>7 DEF BackfillTxInv
    <2> QED BY <2>1, <2>2
  <1>11. CASE NextDay \/ ImportFails \/ UNCHANGED backfillVars
    BY <1>11, <1>1 DEF NextDay, ImportFails, backfillVars
  <1> QED BY <1>3, <1>4, <1>5, <1>6, <1>7, <1>8, <1>9, <1>10, <1>11 DEF NextBackfill

\* DoubtInv is kept: only a backfill that finishes counts anything, and it
\* counts what its transaction holds.
LEMMA DoubtStep ==
  TypeOK /\ BackfillInv /\ [NextBackfill]_backfillVars => DoubtInv'
  <1> SUFFICES ASSUME TypeOK, BackfillInv, [NextBackfill]_backfillVars
               PROVE  DoubtInv'
    OBVIOUS
  <1>0. PageviewInv /\ BackfillTxInv /\ DoubtInv /\ hits \in Nat /\ Hits \subseteq Nat
    BY VisitorBackfillAssumption DEF BackfillInv, TypeOK, Hits
  <1>1. CASE /\ backfilled' = backfilled /\ hits' = hits /\ doubtful \subseteq doubtful'
             /\ unfolded' \cup visits' \subseteq unfolded \cup visits
    BY <1>0, <1>1 DEF DoubtInv
  <1>2. ASSUME NEW v \in Visitors, StorePageview(v) PROVE DoubtInv'
    <2>1. PICK p :
             /\ unfolded' = unfolded \cup {p} /\ p.id = hits + 1
             /\ hits' = hits + 1 /\ hits + 1 \in Hits
      <3>1. unfolded' = unfolded \cup
              {[id |-> hits + 1, day |-> today, key |-> [visitor |-> v, period |-> Period(today)]]}
        BY <1>2 DEF StorePageview
      <3>2. hits' = hits + 1 /\ hits + 1 \in Hits
        BY <1>2, <1>0, VisitorBackfillAssumption DEF StorePageview, Hits
      <3> QED BY <3>1, <3>2
    <2>2. backfilled' = backfilled /\ visits' = visits /\ doubtful' = doubtful
      BY <1>2 DEF StorePageview
    <2>3. backfilled[p.id] = 0
      BY <2>1, <1>0 DEF DoubtInv
    <2>4. \A i \in Hits : i > hits' => i > hits
      BY <2>1, <1>0
    <2> QED BY <1>0, <2>1, <2>2, <2>3, <2>4 DEF DoubtInv
  <1>3. CASE FinishBackfill
    <2>1. ~LockFree /\ hits' = hits /\ unfolded' = unfolded /\ visits' = visits
            /\ doubtful' = doubtful
      BY <1>3 DEF FinishBackfill
    <2>2. \A i \in Ids : (\A e \in tx.counted : e.id # i) => backfilled'[i] = backfilled[i]
      BY <1>3 DEF FinishBackfill, TypeOK
    <2>3. \A i \in Hits : i > hits => backfilled'[i] = 0
      <3>0. \A e \in tx.counted : e.id \in Hits => e.id <= hits
        BY <1>0, <2>1 DEF BackfillTxInv
      <3>1. \A i \in Hits : i > hits => \A e \in tx.counted : e.id # i
        BY <1>0, <3>0
      <3> QED BY <3>1, <2>2, <1>0 DEF DoubtInv, Ids
    <2>4. ASSUME NEW p \in unfolded \cup visits, backfilled'[p.id] > 0
          PROVE  p.key \in doubtful
      <3>1. p.id \in Ids
        BY <1>0 DEF PageviewInv, Ids
      <3>2. CASE \A e \in tx.counted : e.id # p.id
        BY <3>1, <3>2, <2>2, <2>4, <1>0 DEF DoubtInv
      <3>3. CASE \E e \in tx.counted : e.id = p.id
        BY <3>3, <2>1, <1>0 DEF BackfillTxInv
      <3> QED BY <3>2, <3>3
    <2> QED BY <2>1, <2>3, <2>4 DEF DoubtInv
  <1>4. ASSUME NEW p \in unfolded, Fold(p) \/ FoldFails(p) PROVE DoubtInv'
    BY <1>4, <1>1 DEF Fold, FoldFails
  <1>5. ASSUME NEW m \in Periods, Rollup(m) PROVE DoubtInv'
    BY <1>5, <1>1 DEF Rollup
  <1>6. ASSUME NEW since \in Days, NEW replace \in BOOLEAN, StartImport(since, replace)
        PROVE  DoubtInv'
    BY <1>6, <1>1 DEF StartImport
  <1>7. CASE ScanDigests
    <2>1. doubtful \subseteq doubtful'
      BY <1>7 DEF ScanDigests
    <2> QED BY <1>7, <2>1, <1>1 DEF ScanDigests
  <1>8. CASE NextDay \/ ExpireDigests \/ CopyEvents \/ ImportFails \/ BeginBackfill
             \/ BackfillFails \/ UNCHANGED backfillVars
    BY <1>8, <1>1 DEF NextDay, ExpireDigests, CopyEvents, ImportFails, BeginBackfill,
                      BackfillFails, backfillVars
  <1> QED BY <1>2, <1>3, <1>4, <1>5, <1>6, <1>7, <1>8 DEF NextBackfill

\* The inductive invariant of the backfill: with any number of visitors, Umami
\* rows, imports and months, whatever interleaves with its statements.
THEOREM BackfillHolds == BackfillSpec => [](TypeOK /\ BackfillInv)
  <1>1. InitBackfill => TypeOK /\ BackfillInv
    BY BackfillInit
  <1>2. (TypeOK /\ BackfillInv) /\ [NextBackfill]_backfillVars => (TypeOK /\ BackfillInv)'
    BY BackfillTypes, EventStep, PageviewStep, BackfillTxStep, DoubtStep DEF BackfillInv
  <1> QED BY <1>1, <1>2, PTL DEF BackfillSpec

\* A folded pageview is counted by a backfill as well only when its digest was
\* taken up too early.
THEOREM FoldedPageviewsAreCountedByOneSide == BackfillSpec => []CountedByOneSide
  <1>1. TypeOK /\ BackfillInv => CountedByOneSide
    BY DEF BackfillInv, DoubtInv, CountedByOneSide
  <1> QED BY <1>1, BackfillHolds, PTL

\* Retention never erases the inputs of a backfill under way.
THEOREM BackfillInputsSurvive == BackfillSpec => []InputsSurvive
  <1>1. TypeOK /\ BackfillInv => InputsSurvive
    BY DEF BackfillInv, BackfillTxInv, InputsSurvive
  <1> QED BY <1>1, BackfillHolds, PTL

-----------------------------------------------------------------------------
(***************************************************************************)
(* The import jobs (ImportJobs).                                           *)
(*                                                                         *)
(* What a job has read is stored, in its open transaction, or still to be  *)
(* copied; a transaction that ends any other way than with its commit      *)
(* stops the job.  Rows leave only with --replace, which a job does before *)
(* it reads anything and which ends what the others could claim.           *)
(***************************************************************************)

\* CopiesInv for one job.
Copied(job, here) ==
  /\ job.phase \in {"begin", "connect", "range", "delete"} => job.took = {}
  /\ job.intact =>
        \A r \in job.took \ job.skipped :
            LET row == Imported(job, r)
            IN  \/ row \in here
                \/ job.phase = "copy" /\ (r \in job.left \/ row \in job.wrote)

\* Where a job puts a row depends on its target alone.
LEMMA SameTargetSameRow ==
  ASSUME NEW job, NEW new, new.target = job.target, NEW r
  PROVE  Imported(new, r) = Imported(job, r)
  BY DEF Imported

\* A step of one job that deletes no row keeps the invariant when the job's own
\* part of it is kept.
LEMMA OneJob ==
  ASSUME JobsTyped, CopiesInv, NEW j \in Jobs, NEW new,
         jobs' = [jobs EXCEPT ![j] = new], rows \subseteq rows',
         \/ new.phase \in {"none", "failed", "killed"}
         \/ new.phase \in Phases /\ Whole(new) /\ Copied(new, rows')
  PROVE  JobsTyped' /\ CopiesInv'
  <1>1. jobs'[j] = new /\ \A k \in Jobs : k # j => jobs'[k] = jobs[k]
    BY DEF JobsTyped
  <1>2. jobs' = [k \in Jobs |-> jobs'[k]]
    BY DEF JobsTyped
  <1>3. \A k \in Jobs : \/ jobs'[k].phase \in {"none", "failed", "killed"}
                        \/ jobs'[k].phase \in Phases /\ Whole(jobs'[k])
    BY <1>1 DEF JobsTyped
  <1>4. JobsTyped'
    BY <1>2, <1>3 DEF JobsTyped, Whole, Phases, JobFields
  <1>6. ASSUME NEW k \in Jobs, jobs'[k].phase \in Phases PROVE Copied(jobs'[k], rows')
    <2>1. CASE k = j
      BY <2>1, <1>1, <1>6 DEF Phases
    <2>2. CASE k # j
      <3>1. Copied(jobs[k], rows)
        BY <2>2, <1>1, <1>6 DEF CopiesInv, Copied
      <3> QED BY <3>1, <2>2, <1>1 DEF Copied
    <2> QED BY <2>1, <2>2
  <1>7. CopiesInv'
    BY <1>6 DEF CopiesInv, Copied, Phases, Imported, ImportedRole
  <1> QED BY <1>4, <1>7

\* The invariant holds when the first job starts.
LEMMA ImportsInit == InitImports => JobsTyped /\ CopiesInv
  BY DEF InitImports, NoJob, JobsTyped, CopiesInv, Phases

\* A new job has all its fields and has read nothing.
LEMMA NewJobIsWhole ==
  ASSUME NEW phase, NEW status, NEW target, NEW since, NEW replace, NEW full
  PROVE  LET job == NewJob(phase, status, target, since, replace, full)
         IN  job.phase = phase /\ job.took = {} /\ Whole(job)
  BY DEF NewJob, Whole, JobFields

\* Starting a job, which has read nothing.
LEMMA StartKeepsImports ==
  ASSUME JobsTyped, CopiesInv, NEW j \in Jobs,
         StartJob(j) \/ StartDataCommand(j) \/ StartFullCommand(j)
  PROVE  JobsTyped' /\ CopiesInv'
  <1>1. PICK new :
          /\ jobs' = [jobs EXCEPT ![j] = new]
          /\ new.phase \in {"begin", "connect"} /\ new.took = {} /\ Whole(new)
    <2>1. CASE StartJob(j)
      <3>1. PICK target, since, replace :
               jobs' = [jobs EXCEPT ![j] = NewJob("begin", "pending", target, since, replace, FALSE)]
        BY <2>1 DEF StartJob
      <3> QED BY <3>1, NewJobIsWhole
    <2>2. CASE StartDataCommand(j)
      <3>1. PICK target, since, replace :
               jobs' = [jobs EXCEPT ![j] = NewJob("connect", "command", target, since, replace, FALSE)]
        BY <2>2 DEF StartDataCommand
      <3> QED BY <3>1, NewJobIsWhole
    <2>3. CASE StartFullCommand(j)
      <3>1. PICK since, tables :
               jobs' = [jobs EXCEPT ![j] =
                 [NewJob("connect", "command", Foreign, since, FALSE, TRUE) EXCEPT !.tables = tables]]
        BY <2>3 DEF StartFullCommand
      <3> DEFINE first == NewJob("connect", "command", Foreign, since, FALSE, TRUE)
      <3>2. first.phase = "connect" /\ first.took = {} /\ Whole(first)
        BY NewJobIsWhole
      <3> HIDE DEF first
      <3>3. LET full == [first EXCEPT !.tables = tables]
            IN  full.phase = "connect" /\ full.took = {} /\ Whole(full)
        BY <3>2 DEF Whole, JobFields
      <3> QED BY <3>1, <3>3 DEF first
    <2> QED BY <2>1, <2>2, <2>3
  <1>2. rows' = rows
    BY DEF StartJob, StartDataCommand, StartFullCommand
  <1>3. new.phase \in Phases /\ Copied(new, rows')
    BY <1>1 DEF Copied, Phases
  <1> QED BY <1>1, <1>2, <1>3, OneJob

\* A job before its first table, between tables or at its end.
LEMMA ControlKeepsImports ==
  ASSUME JobsTyped, CopiesInv, NEW j \in Jobs,
         \/ MarkRunning(j) \/ Connect(j) \/ ReadRange(j) \/ CountTable(j)
         \/ FlushLast(j) \/ Succeed(j)
  PROVE  JobsTyped' /\ CopiesInv'
  <1> DEFINE job == jobs[j]
             new == jobs'[j]
  <1>0. rows' = rows
    BY DEF MarkRunning, Connect, ReadRange, CountTable, FlushLast, Succeed
  <1>1. job.phase \in Phases \ {"copy", "delete"} /\ Whole(job) /\ Copied(job, rows)
    <2>1. job.phase \in Phases \ {"copy", "delete"}
      BY DEF MarkRunning, Connect, ReadRange, CountTable, FlushLast, Succeed, Phases
    <2> QED BY <2>1 DEF JobsTyped, CopiesInv, Copied, Phases
  <1>2. /\ jobs' = [jobs EXCEPT ![j] = new] /\ Whole(new)
        /\ new.took = job.took /\ new.intact = job.intact
        /\ new.skipped = job.skipped /\ new.target = job.target
        /\ \/ new.phase \in {"table", "open", "succeed", "ended"}
           \/ job.phase \in {"begin", "connect", "range"} /\ new.phase \in {"connect", "range", "delete"}
    <2>1. CASE MarkRunning(j)
      <3>1. jobs' = [jobs EXCEPT ![j] = [job EXCEPT !.phase = "connect", !.status = "running"]]
        BY <2>1 DEF MarkRunning, JobsTyped
      <3> QED BY <3>1, <2>1, <1>1 DEF MarkRunning, JobsTyped, Whole, JobFields
    <2>2. CASE Connect(j)
      <3>1. PICK p \in {"range", "table"} : jobs' = [jobs EXCEPT ![j] = [job EXCEPT !.phase = p]]
        BY <2>2 DEF Connect, JobsTyped
      <3> QED BY <3>1, <2>2, <1>1 DEF Connect, JobsTyped, Whole, JobFields
    <2>3. CASE ReadRange(j)
      <3>1. PICK g : \E p \in {"table", "delete"} :
               jobs' = [jobs EXCEPT ![j] = [job EXCEPT !.range = g, !.phase = p]]
        BY <2>3 DEF ReadRange, JobsTyped
      <3> QED BY <3>1, <2>3, <1>1 DEF ReadRange, JobsTyped, Whole, JobFields
    <2>4. CASE CountTable(j)
      <3> DEFINE n == Cardinality(Selected(j, TableOf(j)))
                 next == IF n = 0 THEN [job EXCEPT !.tables = Tail(job.tables)]
                         ELSE [job EXCEPT !.total = job.total + n, !.phase = "open"]
      <3>0. job.phase = "table"
        BY <2>4 DEF CountTable
      <3>1. jobs' = [jobs EXCEPT ![j] = next]
        BY <2>4 DEF CountTable
      <3>2. /\ Whole(next) /\ next.took = job.took /\ next.intact = job.intact
            /\ next.skipped = job.skipped /\ next.target = job.target
        BY <1>1 DEF Whole, JobFields
      <3>3. next.phase \in {job.phase, "open"}
        BY <1>1 DEF Whole, JobFields
      <3> HIDE DEF next
      <3>4. new = next
        BY <3>1 DEF JobsTyped
      <3> QED BY <3>0, <3>1, <3>2, <3>3, <3>4
    <2>5. CASE FlushLast(j)
      <3>1. PICK n : jobs' = [jobs EXCEPT ![j] = [job EXCEPT !.reported = n, !.phase = "succeed"]]
        BY <2>5 DEF FlushLast
      <3> DEFINE next == [job EXCEPT !.reported = n, !.phase = "succeed"]
      <3>2. /\ Whole(next) /\ next.took = job.took /\ next.intact = job.intact
            /\ next.skipped = job.skipped /\ next.target = job.target
            /\ next.phase = "succeed"
        <4>1. Whole(job)
          BY <1>1
        <4> QED BY <4>1 DEF Whole, JobFields
      <3> HIDE DEF next
      <3>3. new = next
        BY <3>1 DEF JobsTyped, next
      <3> QED BY <3>1, <3>2, <3>3 DEF next
    <2>6. CASE Succeed(j)
      <3> DEFINE s == IF Tracked(j) THEN "success" ELSE job.status
                 n == IF Tracked(j) THEN job.total ELSE 0
      <3>1. jobs' = [jobs EXCEPT ![j] =
                       [job EXCEPT !.status = s, !.reported = n, !.phase = "ended"]]
        BY <2>6 DEF Succeed
      <3> HIDE DEF s, n
      <3> DEFINE next == [job EXCEPT !.status = s, !.reported = n, !.phase = "ended"]
      <3>2. /\ Whole(next) /\ next.took = job.took /\ next.intact = job.intact
            /\ next.skipped = job.skipped /\ next.target = job.target
            /\ next.phase = "ended"
        <4>1. Whole(job)
          BY <1>1
        <4> QED BY <4>1 DEF Whole, JobFields
      <3> HIDE DEF next
      <3>3. new = next
        BY <3>1 DEF JobsTyped, next
      <3> QED BY <3>1, <3>2, <3>3 DEF next
    <2> QED BY <2>1, <2>2, <2>3, <2>4, <2>5, <2>6
  <1>3. new.phase \in Phases /\ Copied(new, rows')
    <2>1. new.phase \in Phases
      BY <1>2 DEF Phases
    <2>2. new.phase \in {"begin", "connect", "range", "delete"} => new.took = {}
      BY <1>1, <1>2 DEF Copied
    <2>3. job.phase # "copy"
      BY <1>1
    <2>4. \A r : Imported(new, r) = Imported(job, r)
      BY <1>2, SameTargetSameRow
    <2> HIDE DEF new
    <2> QED BY <2>1, <2>2, <2>3, <2>4, <1>0, <1>1, <1>2 DEF Copied
  <1> HIDE DEF new
  <1> QED BY <1>0, <1>2, <1>3, OneJob

\* A job copies a table: it reads the source, inserts row by row, commits.
LEMMA CopyKeepsImports ==
  ASSUME JobsTyped, CopiesInv, NEW j \in Jobs,
         OpenTable(j) \/ CopyRow(j) \/ CommitTable(j)
  PROVE  JobsTyped' /\ CopiesInv'
  <1> DEFINE job == jobs[j]
  <1>1. job.phase \in {"open", "copy"} /\ job.phase \in Phases /\ Whole(job) /\ Copied(job, rows)
    <2>1. job.phase \in {"open", "copy"}
      BY DEF OpenTable, CopyRow, CommitTable
    <2>2. job.phase \in Phases
      BY <2>1 DEF Phases
    <2> QED BY <2>1, <2>2 DEF JobsTyped, CopiesInv, Copied, Phases
  <1>3. CASE OpenTable(j)
    <2> DEFINE read == Selected(j, TableOf(j))
               next == [job EXCEPT !.left = read, !.wrote = {}, !.took = job.took \cup read,
                                   !.phase = "copy"]
    <2>1. jobs' = [jobs EXCEPT ![j] = next] /\ rows' = rows /\ job.phase = "open"
      BY <1>3 DEF OpenTable
    <2> HIDE DEF read
    <2>2. /\ Whole(next) /\ next.phase = "copy" /\ next.took = job.took \cup read
          /\ next.left = read /\ next.intact = job.intact
          /\ next.skipped = job.skipped /\ next.target = job.target
      BY <1>1 DEF Whole, JobFields
    <2> HIDE DEF next
    <2>3. \A r : Imported(next, r) = Imported(job, r)
      BY <2>2, SameTargetSameRow
    <2>4. next.phase \in Phases /\ Copied(next, rows')
      BY <2>1, <2>2, <2>3, <1>1 DEF Copied, Phases
    <2> QED BY <2>1, <2>2, <2>4, OneJob
  <1>4. CASE CopyRow(j)
    <2>1. PICK r \in job.left : jobs' = [jobs EXCEPT ![j] = Insert(job, r)]
      BY <1>4 DEF CopyRow
    <2> DEFINE some == [job EXCEPT
                 !.left = job.left \ {r}, !.wrote = job.wrote \cup Added(job, r),
                 !.skipped = job.skipped \cup KeptOut(job, r)]
               next == Insert(job, r)
    <2>0. next = Progress(some)
      BY DEF Insert
    <2>2. /\ Whole(some) /\ some.phase = job.phase /\ some.took = job.took
          /\ some.left = job.left \ {r} /\ some.wrote = job.wrote \cup Added(job, r)
          /\ some.skipped = job.skipped \cup KeptOut(job, r)
          /\ some.intact = job.intact /\ some.target = job.target
      BY <1>1 DEF Whole, JobFields
    <2> HIDE DEF some, next
    <2>3. /\ Whole(next) /\ next.phase = some.phase /\ next.took = some.took
          /\ next.left = some.left /\ next.wrote = some.wrote /\ next.intact = some.intact
          /\ next.skipped = some.skipped /\ next.target = some.target
      BY <2>0, <2>2 DEF Whole, JobFields, Progress
    <2>4. jobs' = [jobs EXCEPT ![j] = next] /\ rows' = rows /\ job.phase = "copy"
      BY <1>4, <2>1 DEF CopyRow, next
    <2>5. r \in next.skipped \/ Imported(job, r) \in rows \/ Imported(job, r) \in next.wrote
      <3>1. Imported(job, r) \in rows \/ r \in KeptOut(job, r) \/ Imported(job, r) \in Added(job, r)
        BY DEF KeptOut, Added
      <3> QED BY <3>1, <2>2, <2>3
    <2>6. \A q : Imported(next, q) = Imported(job, q)
      BY <2>2, <2>3, SameTargetSameRow
    <2>7. next.phase \in Phases /\ Copied(next, rows')
      BY <1>1, <2>2, <2>3, <2>4, <2>5, <2>6 DEF Copied, Phases
    <2> QED BY <2>3, <2>4, <2>7, OneJob
  <1>5. CASE CommitTable(j)
    <2> DEFINE reported == IF Tracked(j) THEN job.flushed ELSE 0
               next == [job EXCEPT !.wrote = {}, !.reported = reported,
                                   !.tables = Tail(job.tables), !.phase = "table"]
    <2>1. jobs' = [jobs EXCEPT ![j] = next]
      <3> HIDE DEF reported
      <3>1. jobs' = [jobs EXCEPT ![j].wrote = {}, ![j].reported = reported,
                                 ![j].tables = Tail(job.tables), ![j].phase = "table"]
        BY <1>5 DEF CommitTable, reported
      <3> QED BY <3>1
    <2>2. rows' = rows \cup job.wrote /\ job.left = {}
      BY <1>5 DEF CommitTable
    <2> HIDE DEF reported
    <2>3. /\ Whole(next) /\ next.phase = "table" /\ next.took = job.took
          /\ next.intact = job.intact
          /\ next.skipped = job.skipped /\ next.target = job.target
      BY <1>1 DEF Whole, JobFields
    <2> HIDE DEF next
    <2>4. \A r : Imported(next, r) = Imported(job, r)
      BY <2>3, SameTargetSameRow
    <2>5. next.phase \in Phases /\ Copied(next, rows')
      BY <1>1, <2>2, <2>3, <2>4 DEF Copied, Phases
    <2> QED BY <2>1, <2>2, <2>3, <2>5, OneJob
  <1> QED BY <1>3, <1>4, <1>5

\* A job that raises or whose worker dies claims nothing any more.
LEMMA StopKeepsImports ==
  ASSUME JobsTyped, CopiesInv, NEW j \in Jobs, Fail(j) \/ KillWorker(j)
  PROVE  JobsTyped' /\ CopiesInv'
  <1>1. PICK new : /\ jobs' = [jobs EXCEPT ![j] = new] /\ new.phase \in {"failed", "killed"}
                   /\ rows' = rows
    <2>1. CASE Fail(j)
      <3>1. jobs' = [jobs EXCEPT ![j] = Stop(j, "failed", "error")] /\ rows' = rows
        BY <2>1 DEF Fail
      <3>2. Stop(j, "failed", "error").phase = "failed"
        BY DEF Stop
      <3> QED BY <3>1, <3>2
    <2>2. CASE KillWorker(j)
      <3>1. jobs' = [jobs EXCEPT ![j] = Stop(j, "killed", jobs[j].status)] /\ rows' = rows
        BY <2>2 DEF KillWorker
      <3>2. Stop(j, "killed", jobs[j].status).phase = "killed"
        BY DEF Stop
      <3> QED BY <3>1, <3>2
    <2> QED BY <2>1, <2>2
  <1> QED BY <1>1, OneJob

\* --replace deletes rows: the job that does has read nothing yet, and no other
\* may claim that its rows are here.
LEMMA DeleteKeepsImports ==
  ASSUME JobsTyped, CopiesInv, NEW j \in Jobs, DeleteCovered(j)
  PROVE  JobsTyped' /\ CopiesInv'
  <1>1. jobs' = [k \in Jobs |->
                  IF k = j THEN [jobs[k] EXCEPT !.phase = "table", !.lost = Covered(j)]
                  ELSE IF (Running(k) \/ jobs[k].phase = "ended") /\ jobs[k].target = jobs[j].target
                       THEN [jobs[k] EXCEPT !.intact = FALSE]
                  ELSE jobs[k]]
        /\ jobs[j].phase = "delete"
    BY DEF DeleteCovered
  <1>2. ASSUME NEW k \in Jobs
        PROVE  \/ jobs'[k].phase \in {"none", "failed", "killed"}
               \/ jobs'[k].phase \in Phases /\ Whole(jobs'[k]) /\ Copied(jobs'[k], rows')
    <2>1. CASE k = j
      <3>1. jobs'[k] = [jobs[k] EXCEPT !.phase = "table", !.lost = Covered(j)]
        BY <1>1, <2>1
      <3>2. Whole(jobs[k]) /\ jobs[k].took = {}
        BY <1>1, <2>1 DEF JobsTyped, CopiesInv, Phases
      <3>3. jobs'[k].phase = "table" /\ jobs'[k].took = {} /\ Whole(jobs'[k])
        BY <3>1, <3>2 DEF Whole, JobFields
      <3> QED BY <3>3 DEF Copied, Phases
    <2>2. CASE k # j /\ jobs[k].phase \in {"none", "failed", "killed"}
      BY <1>1, <2>2 DEF Running
    <2>3. CASE k # j /\ jobs[k].phase \notin {"none", "failed", "killed"}
      <3>1. jobs[k].phase \in Phases /\ Whole(jobs[k]) /\ Copied(jobs[k], rows)
        BY <2>3 DEF JobsTyped, CopiesInv, Copied
      <3>2. CASE jobs[k].target = jobs[j].target
        <4>1. jobs'[k] = [jobs[k] EXCEPT !.intact = FALSE]
          BY <1>1, <2>3, <3>2 DEF Running
        <4>2. /\ jobs'[k].phase = jobs[k].phase /\ jobs'[k].took = jobs[k].took
              /\ jobs'[k].intact = FALSE /\ Whole(jobs'[k])
          BY <4>1, <3>1 DEF Whole, JobFields
        <4> QED BY <3>1, <4>2 DEF Copied
      <3>3. CASE jobs[k].target # jobs[j].target
        <4>1. jobs'[k] = jobs[k]
          BY <1>1, <2>3, <3>3
        <4>2. \A r : Imported(jobs[k], r) \notin Covered(j)
          BY <3>3 DEF Imported, Covered
        <4>3. rows' = rows \ Covered(j)
          BY DEF DeleteCovered
        <4> QED BY <3>1, <4>1, <4>2, <4>3 DEF Copied
      <3> QED BY <3>2, <3>3
    <2> QED BY <2>1, <2>2, <2>3
  <1>3. jobs' = [k \in Jobs |-> jobs'[k]]
    BY <1>1
  <1>4. JobsTyped'
    BY <1>2, <1>3 DEF JobsTyped, Whole, Phases, JobFields
  <1>5. CopiesInv'
    BY <1>2 DEF CopiesInv, Copied, Phases, Imported, ImportedRole
  <1> QED BY <1>4, <1>5

\* The inductive invariant of the imports: any number of jobs that interleave
\* statement by statement, fail and die, over any Umami database.
THEOREM ImportsHold == ImportsSpec => [](JobsTyped /\ CopiesInv)
  <1>1. InitImports => JobsTyped /\ CopiesInv
    BY ImportsInit
  <1>2. (JobsTyped /\ CopiesInv) /\ [NextImports]_importVars => (JobsTyped /\ CopiesInv)'
    <2> SUFFICES ASSUME JobsTyped, CopiesInv, [NextImports]_importVars
                 PROVE  JobsTyped' /\ CopiesInv'
      OBVIOUS
    <2>1. CASE rows \subseteq rows' /\ jobs' = jobs
      <3>2. JobsTyped'
        BY <2>1 DEF JobsTyped, Whole, Phases, JobFields
      <3>3. \A j \in Jobs : jobs[j].phase \in Phases => Copied(jobs[j], rows')
        BY <2>1 DEF CopiesInv, Copied
      <3>4. CopiesInv'
        BY <2>1, <3>3 DEF CopiesInv, Copied, Phases, Imported, ImportedRole
      <3> QED BY <3>2, <3>4
    <2>2. CASE StoreLive
      BY <2>1, <2>2 DEF StoreLive
    <2>3. CASE SourceGrows \/ TimePasses \/ UNCHANGED importVars
      BY <2>1, <2>3 DEF SourceGrows, TimePasses, importVars
    <2> QED BY <2>2, <2>3, StartKeepsImports, ControlKeepsImports, CopyKeepsImports,
               StopKeepsImports, DeleteKeepsImports DEF NextImports
  <1> QED BY <1>1, <1>2, PTL DEF ImportsSpec

\* A job that says success has put every row it read here.
THEOREM SuccessfulImportsAreComplete == ImportsSpec => []SuccessMeansComplete
  <1>1. JobsTyped /\ CopiesInv => SuccessMeansComplete
    <2>1. "ended" \in Phases /\ "ended" # "copy"
      BY DEF Phases
    <2> QED BY <2>1 DEF CopiesInv, SuccessMeansComplete
  <1> QED BY <1>1, ImportsHold, PTL

-----------------------------------------------------------------------------
(***************************************************************************)
(* The gate of the ingest endpoint (IngestGate).                           *)
(*                                                                         *)
(* The list of a process is true since the instant it is stamped with,     *)
(* also between the two assignments that replace it: whoever refreshes it  *)
(* holds the lock, has read the clock before the query, and found the old  *)
(* stamp older than that.                                                  *)
(***************************************************************************)

\* ListInv for a request q of a process p.
RequestOk(q, p) ==
  /\ q.now <= clock
  /\ q.phase \in {"query", "publish", "stamp"} => q.now >= p.at + Ttl
  /\ q.phase = "publish" => TrueSince(q.fetched, q.now)
  /\ q.phase = "stamp" => TrueSince(p.cache, q.now)
  /\ q.phase = "member" => ~(q.now >= p.at + Ttl)
  /\ q.phase = "rate" => lastOn[q.site] + Ttl > q.now
  /\ q.phase = "unheard" => lastOff[q.site] + Ttl > q.now

\* ListInv, request by request.
LEMMA ListInvByRequest ==
  ListInv <=>
    /\ \A w \in Workers :
          /\ TrueSince(worker[w].cache, worker[w].at)
          /\ \A t \in Threads :
                worker[w].lock = t <=> thread[t] # Waiting /\ thread[t].worker = w /\ Refreshing(t)
    /\ \A t \in Threads : thread[t] # Waiting => RequestOk(thread[t], worker[thread[t].worker])
  BY DEF ListInv, RequestOk, Refreshing, Stale, Own, In

\* One thread t of the process w takes the step that leaves its request as q
\* and its process as p.
Moves(t, w, q, p) ==
  /\ thread[t] = Waiting \/ thread[t].worker = w
  /\ thread' = [thread EXCEPT ![t] = q]
  /\ worker' = [worker EXCEPT ![w] = p]
  /\ UNCHANGED <<clock, sites, lastOn, lastOff>>
  /\ ProcessTyped(p) /\ TrueSince(p.cache, p.at)
  /\ \/ q = Waiting
     \/ RequestTyped(q) /\ q.worker = w /\ RequestOk(q, p)
  /\ \/ p.cache = worker[w].cache /\ p.at = worker[w].at
     \/ worker[w].lock = t /\ p.at >= worker[w].at
  /\ \A u \in Threads : p.lock = u <=>
        IF u = t THEN q # Waiting /\ q.phase \in {"query", "publish", "stamp"}
        ELSE worker[w].lock = u

\* One thread t moves, to q, and leaves its process w as p.
LEMMA OneThread ==
  ASSUME GateTyped, SitesInv, ListInv,
         NEW t \in Threads, NEW w \in Workers, NEW q, NEW p, Moves(t, w, q, p)
  PROVE  GateTyped' /\ SitesInv' /\ ListInv'
  <1> USE DEF Moves
  <1>0. /\ thread = [u \in Threads |-> thread[u]] /\ worker = [v \in Workers |-> worker[v]]
        /\ \A v \in Workers : ProcessTyped(worker[v])
        /\ \A u \in Threads : thread[u] = Waiting \/ RequestTyped(thread[u])
        /\ Ttl \in Nat \ {0} /\ clock \in Nat
    BY IngestGateAssumption DEF GateTyped
  <1>1. /\ thread'[t] = q /\ \A u \in Threads : u # t => thread'[u] = thread[u]
        /\ worker'[w] = p /\ \A v \in Workers : v # w => worker'[v] = worker[v]
    BY <1>0
  <1>2. SitesInv'
    BY DEF SitesInv
  <1>3. GateTyped'
    <2>1. /\ thread' = [u \in Threads |-> thread'[u]] /\ worker' = [v \in Workers |-> worker'[v]]
      BY <1>0
    <2>2. \A v \in Workers : ProcessTyped(worker'[v])
      BY <1>0, <1>1
    <2>3. \A u \in Threads : thread'[u] = Waiting \/ RequestTyped(thread'[u])
      BY <1>0, <1>1
    <2> QED BY SMTT(20), <2>1, <2>2, <2>3 DEF GateTyped, ProcessTyped, RequestTyped
  <1>4. \A v \in Workers : TrueSince(worker'[v].cache, worker'[v].at)
    BY <1>1, ListInvByRequest
  <1>5. ASSUME NEW v \in Workers, NEW u \in Threads
        PROVE  worker'[v].lock = u <=>
                 /\ thread'[u] # Waiting /\ thread'[u].worker = v
                 /\ thread'[u].phase \in {"query", "publish", "stamp"}
    <2>1. worker[v].lock = u <=>
             /\ thread[u] # Waiting /\ thread[u].worker = v
             /\ thread[u].phase \in {"query", "publish", "stamp"}
      BY DEF ListInv, Refreshing
    <2>2. CASE v = w /\ u = t
      BY <2>2, <1>1
    <2>3. CASE v = w /\ u # t
      BY <2>1, <2>3, <1>1
    <2>4. CASE v # w /\ u = t
      BY <2>1, <2>4, <1>1
    <2>5. CASE v # w /\ u # t
      BY <2>1, <2>5, <1>1
    <2> QED BY <2>2, <2>3, <2>4, <2>5
  <1>6. ASSUME NEW u \in Threads, thread'[u] # Waiting
        PROVE  RequestOk(thread'[u], worker'[thread'[u].worker])
    <2>1. CASE u = t
      BY <2>1, <1>1, <1>6
    <2>2. CASE u # t
      <3>1. thread'[u] = thread[u] /\ RequestTyped(thread[u]) /\ RequestOk(thread[u], worker[thread[u].worker])
        BY <2>2, <1>0, <1>1, <1>6, ListInvByRequest
      <3>2. CASE thread[u].worker # w
        BY <3>1, <3>2, <1>1 DEF RequestTyped
      <3>3. CASE thread[u].worker = w /\ p.cache = worker[w].cache /\ p.at = worker[w].at
        BY <3>1, <3>3, <1>1 DEF RequestOk
      <3>4. CASE thread[u].worker = w /\ worker[w].lock = t /\ p.at >= worker[w].at
        <4>1. thread[u].phase \notin {"query", "publish", "stamp"}
          BY <3>1, <3>4, <2>2, <1>6 DEF ListInv, Refreshing
        <4>2. p.at \in Nat /\ worker[w].at \in Nat /\ thread[u].now \in Nat
          BY <1>0, <3>1 DEF ProcessTyped, RequestTyped
        <4>3. thread[u].phase = "member" => ~(thread[u].now >= p.at + Ttl)
          BY <3>1, <3>4, <4>2, <1>0 DEF RequestOk
        <4> QED BY <3>1, <3>4, <4>1, <4>3, <1>1 DEF RequestOk
      <3> QED BY <3>2, <3>3, <3>4
    <2> QED BY <2>1, <2>2
  <1>8. ListInv'
    BY <1>4, <1>5, <1>6, SMTT(30) DEF ListInv, RequestOk, Refreshing, Stale, Own, In, TrueSince
  <1> QED BY <1>2, <1>3, <1>8

\* A list of the sites active now is true since any instant before.
LEMMA ActiveSitesAreTrue ==
  ASSUME GateTyped, SitesInv, NEW x \in Nat, x <= clock
  PROVE  TrueSince(ActiveSites, x)
  <1>1. \A s \in GateSites : lastOn[s] \in Nat /\ lastOff[s] \in Nat
    BY DEF GateTyped
  <1> QED BY <1>1 DEF TrueSince, ActiveSites, SitesInv

\* The gate's invariant holds when the host has booted.
LEMMA GateInit == InitGate => GateTyped /\ SitesInv /\ ListInv
  <1> SUFFICES ASSUME InitGate PROVE GateTyped /\ SitesInv /\ ListInv
    OBVIOUS
  <1>1. /\ clock = 0 /\ sites \in [GateSites -> {"absent", "active"}]
        /\ lastOn = [s \in GateSites |-> 0] /\ lastOff = [s \in GateSites |-> 0]
        /\ worker = [w \in Workers |-> FreshProcess] /\ thread = [t \in Threads |-> Waiting]
    BY DEF InitGate
  <1>2. /\ ProcessTyped(FreshProcess) /\ FreshProcess.cache = {} /\ FreshProcess.at = 0
        /\ FreshProcess.lock = FreeLock
    BY DEF FreshProcess, ProcessTyped
  <1>3. GateTyped
    BY <1>1, <1>2 DEF GateTyped
  <1>4. SitesInv
    BY <1>1 DEF SitesInv
  <1>5. ListInv
    BY <1>1, <1>2, IngestGateAssumption DEF ListInv, TrueSince
  <1> QED BY <1>3, <1>4, <1>5

\* A request in progress is what the types say, and is of a process.
LEMMA RequestFacts ==
  ASSUME GateTyped, ListInv, NEW t \in Threads, thread[t].phase # "waiting"
  PROVE  /\ thread[t] # Waiting /\ RequestTyped(thread[t]) /\ thread[t].worker \in Workers
         /\ ProcessTyped(Own(t)) /\ TrueSince(Own(t).cache, Own(t).at)
         /\ RequestOk(thread[t], Own(t))
         /\ \A u \in Threads : Own(t).lock = u <=>
               /\ thread[u] # Waiting /\ thread[u].worker = thread[t].worker
               /\ thread[u].phase \in {"query", "publish", "stamp"}
         /\ worker = [worker EXCEPT ![thread[t].worker] = Own(t)]
         /\ Ttl \in Nat \ {0} /\ clock \in Nat
         /\ thread[t].now \in Nat /\ Own(t).at \in Nat
  <1>1. thread[t] # Waiting /\ RequestTyped(thread[t])
    BY DEF GateTyped, Waiting
  <1>2. thread[t].worker \in Workers /\ thread[t].now \in Nat
    BY <1>1 DEF RequestTyped
  <1>3. ProcessTyped(Own(t)) /\ worker = [worker EXCEPT ![thread[t].worker] = Own(t)]
    BY <1>2 DEF GateTyped, Own
  <1>4. /\ TrueSince(Own(t).cache, Own(t).at) /\ RequestOk(thread[t], Own(t))
        /\ \A u \in Threads : Own(t).lock = u <=>
               /\ thread[u] # Waiting /\ thread[u].worker = thread[t].worker
               /\ thread[u].phase \in {"query", "publish", "stamp"}
    BY <1>1, <1>2, ListInvByRequest DEF Own, Refreshing
  <1>5. clock \in Nat /\ Own(t).at \in Nat
    BY <1>3 DEF ProcessTyped, GateTyped
  <1> QED BY <1>1, <1>2, <1>3, <1>4, <1>5, IngestGateAssumption

\* A step of a request that leaves its process alone and is not about the list.
LEMMA RequestStep ==
  ASSUME GateTyped, SitesInv, ListInv, NEW t \in Threads,
         \/ Receive(t) \/ LookAtCache(t) \/ QuerySites(t) \/ CheckMember(t)
         \/ ReadRateClock(t) \/ Respond(t)
  PROVE  GateTyped' /\ SitesInv' /\ ListInv'
  <1>0. /\ UNCHANGED <<clock, sites, lastOn, lastOff, worker>>
        /\ thread = [u \in Threads |-> thread[u]] /\ worker = [v \in Workers |-> worker[v]]
    BY DEF Receive, LookAtCache, QuerySites, CheckMember, ReadRateClock, Respond, GateTyped
  <1>1. CASE Receive(t)
    <2>1. PICK w \in Workers, s \in Heard, c \in Callers[setup] :
             thread' = [thread EXCEPT ![t] = [phase |-> "site", worker |-> w, now |-> clock,
                          site |-> s, source |-> c.source, address |-> c.address, fetched |-> {}]]
      BY <1>1 DEF Receive
    <2> DEFINE q == [phase |-> "site", worker |-> w, now |-> clock, site |-> s,
                     source |-> c.source, address |-> c.address, fetched |-> {}]
    <2>2. s \in GateSites
      <3>1. PICK h \in Wire : s = h.site /\ ~Answered(h)
        BY DEF Heard
      <3>2. h.site \in GateSites \cup {"none", "malformed"}
        BY DEF Wire
      <3> QED BY <3>1, <3>2 DEF Answered
    <2>3. RequestTyped(q) /\ q.worker = w /\ q.phase = "site" /\ q.now = clock
      BY <2>2 DEF RequestTyped, GateTyped
    <2>4. thread' = [thread EXCEPT ![t] = q] /\ thread[t] = Waiting
      BY <1>1, <2>1 DEF Receive
    <2> HIDE DEF q
    <2>5. RequestOk(q, worker[w])
      BY <2>3 DEF RequestOk, GateTyped
    <2>6. ProcessTyped(worker[w]) /\ TrueSince(worker[w].cache, worker[w].at)
      BY DEF GateTyped, ListInv
    <2>7. worker' = [worker EXCEPT ![w] = worker[w]]
      BY <1>0
    <2>8. \A u \in Threads : worker[w].lock = u <=>
            IF u = t THEN q # Waiting /\ q.phase \in {"query", "publish", "stamp"}
            ELSE worker[w].lock = u
      BY <2>3, <2>4 DEF ListInv
    <2>9. Moves(t, w, q, worker[w])
      BY <1>0, <2>3, <2>4, <2>5, <2>6, <2>7, <2>8 DEF Moves
    <2> QED BY <2>9, <1>0, OneThread
  <1>2. CASE ~Receive(t)
    <2> DEFINE old == thread[t]
               w == old.worker
               q == thread'[t]
    <2>1. /\ thread' = [thread EXCEPT ![t] = q]
          /\ old.phase \in {"site", "query", "member", "rate", "refused", "unheard", "store"}
      BY <1>0, <1>2 DEF LookAtCache, QuerySites, CheckMember, ReadRateClock, Respond, Step, In
    <2>2. /\ old # Waiting /\ RequestTyped(old) /\ w \in Workers /\ ProcessTyped(Own(t))
          /\ TrueSince(Own(t).cache, Own(t).at) /\ RequestOk(old, Own(t))
          /\ \A u \in Threads : Own(t).lock = u <=>
                /\ thread[u] # Waiting /\ thread[u].worker = w
                /\ thread[u].phase \in {"query", "publish", "stamp"}
          /\ worker = [worker EXCEPT ![w] = Own(t)]
          /\ Ttl \in Nat \ {0} /\ clock \in Nat /\ old.now \in Nat /\ Own(t).at \in Nat
      BY <2>1, RequestFacts
    <2>3. \/ q = Waiting /\ old.phase # "query"
          \/ /\ RequestTyped(q) /\ q.worker = w /\ RequestOk(q, Own(t))
             /\ q.phase \in {"query", "publish", "stamp"} <=> old.phase \in {"query", "publish", "stamp"}
      <3>1. CASE LookAtCache(t)
        <4>1. PICK ph \in {"lock", "member"} :
                 q = [old EXCEPT !.phase = ph] /\ (ph = "member" => ~Stale(t)) /\ old.phase = "site"
          BY <3>1, <1>0 DEF LookAtCache, Step, In
        <4>2. RequestTyped(q) /\ q.worker = w /\ q.phase = ph /\ q.now = old.now
          BY <4>1, <2>2 DEF RequestTyped
        <4> QED BY <4>1, <4>2, <2>2 DEF RequestOk, Stale
      <3>2. CASE QuerySites(t)
        <4>1. q = [old EXCEPT !.fetched = ActiveSites, !.phase = "publish"] /\ old.phase = "query"
          BY <3>2, <1>0 DEF QuerySites, In
        <4>2. /\ RequestTyped(q) /\ q.worker = w /\ q.phase = "publish" /\ q.now = old.now
              /\ q.fetched = ActiveSites
          BY <4>1, <2>2, ZenonT(40) DEF RequestTyped
        <4>3. TrueSince(q.fetched, q.now)
          BY <4>2, <2>2, ActiveSitesAreTrue DEF RequestOk
        <4> QED BY <4>1, <4>2, <4>3, <2>2 DEF RequestOk
      <3>3. CASE CheckMember(t)
        <4>1. PICK ph \in {"rate", "unheard"} :
                 q = [old EXCEPT !.phase = ph] /\ (ph = "rate" <=> old.site \in Own(t).cache)
                 /\ old.phase = "member"
          BY <3>3, <1>0 DEF CheckMember, Step, In
        <4>2. /\ RequestTyped(q) /\ q.worker = w /\ q.phase = ph /\ q.now = old.now
              /\ q.site = old.site /\ old.site \in GateSites
          BY <4>1, <2>2 DEF RequestTyped
        <4>3. lastOn[old.site] \in Nat /\ lastOff[old.site] \in Nat
          BY <4>2 DEF GateTyped
        <4>4. ~(old.now >= Own(t).at + Ttl)
          BY <4>1, <2>2 DEF RequestOk
        <4>5. /\ ph = "rate" => lastOn[old.site] >= Own(t).at
              /\ ph = "unheard" => lastOff[old.site] >= Own(t).at
          BY <4>1, <4>2, <2>2 DEF TrueSince
        <4> QED BY <4>1, <4>2, <4>3, <4>4, <4>5, <2>2 DEF RequestOk
      <3>4. CASE ReadRateClock(t)
        <4>1. q = [old EXCEPT !.phase = "count", !.now = clock] /\ old.phase = "rate"
          BY <3>4, <1>0 DEF ReadRateClock, In
        <4>2. RequestTyped(q) /\ q.worker = w /\ q.phase = "count" /\ q.now = clock
          BY <4>1, <2>2, ZenonT(40) DEF RequestTyped
        <4> QED BY <4>1, <4>2, <2>2 DEF RequestOk
      <3>5. CASE Respond(t)
        BY <3>5, <1>0 DEF Respond
      <3> QED BY <3>1, <3>2, <3>3, <3>4, <3>5, <1>2
    <2> HIDE DEF q
    <2>4. \A u \in Threads : Own(t).lock = u <=>
            IF u = t THEN q # Waiting /\ q.phase \in {"query", "publish", "stamp"}
            ELSE worker[w].lock = u
      <3>1. Waiting.phase = "waiting"
        BY DEF Waiting
      <3>2. Own(t).lock = t <=> q # Waiting /\ q.phase \in {"query", "publish", "stamp"}
        BY <2>1, <2>2, <2>3, <3>1
      <3> QED BY <3>2 DEF Own
    <2>5. Own(t).cache = worker[w].cache /\ Own(t).at = worker[w].at
      BY DEF Own
    <2>6. /\ w \in Workers /\ thread[t].worker = w
          /\ worker' = [worker EXCEPT ![w] = Own(t)]
          /\ UNCHANGED <<clock, sites, lastOn, lastOff>>
          /\ ProcessTyped(Own(t)) /\ TrueSince(Own(t).cache, Own(t).at)
      BY <1>0, <2>2
    <2> HIDE DEF w, old
    <2>7. Moves(t, w, q, Own(t))
      BY <2>1, <2>3, <2>4, <2>5, <2>6 DEF Moves
    <2> QED BY <2>6, <2>7, OneThread
  <1> QED BY <1>1, <1>2

\* A step of a request that writes to its process: the lock, the list, its
\* stamp or the table of windows.
LEMMA ProcessStep ==
  ASSUME GateTyped, SitesInv, ListInv, NEW t \in Threads,
         \/ TakeSiteLock(t) \/ QueryFails(t) \/ PublishList(t) \/ StampList(t) \/ CountHit(t)
  PROVE  GateTyped' /\ SitesInv' /\ ListInv'
  <1> DEFINE old == thread[t]
             own == Own(t)
             w == old.worker
  <1>0. /\ UNCHANGED <<clock, sites, lastOn, lastOff>>
        /\ old.phase \in {"lock", "query", "publish", "stamp", "count"}
        /\ thread = [u \in Threads |-> thread[u]] /\ worker = [v \in Workers |-> worker[v]]
    BY DEF TakeSiteLock, QueryFails, PublishList, StampList, CountHit, In, GateTyped
  <1>1. /\ old # Waiting /\ RequestTyped(old) /\ w \in Workers /\ ProcessTyped(own)
        /\ TrueSince(own.cache, own.at) /\ RequestOk(old, own)
        /\ \A u \in Threads : own.lock = u <=>
              /\ thread[u] # Waiting /\ thread[u].worker = w
              /\ thread[u].phase \in {"query", "publish", "stamp"}
        /\ worker = [worker EXCEPT ![w] = own]
        /\ Ttl \in Nat \ {0} /\ clock \in Nat /\ old.now \in Nat /\ own.at \in Nat
    BY <1>0, RequestFacts
  <1>2. own = worker[w] /\ FreeLock \notin Threads /\ Waiting.phase = "waiting"
    BY IngestGateAssumption DEF Own, Waiting
  <1>3. \A ph : LET q == [old EXCEPT !.phase = ph]
                IN  /\ RequestTyped(q) /\ q.worker = w /\ q.phase = ph /\ q.now = old.now
                    /\ q.fetched = old.fetched
    BY <1>1 DEF RequestTyped
  <1>4. \A l \in Threads \cup {FreeLock} :
           LET p == [own EXCEPT !.lock = l]
           IN  ProcessTyped(p) /\ p.cache = own.cache /\ p.at = own.at /\ p.lock = l
    BY <1>1 DEF ProcessTyped
  <1>10. /\ w \in Workers /\ (thread[t] = Waiting \/ thread[t].worker = w)
         /\ UNCHANGED <<clock, sites, lastOn, lastOff>>
         /\ ProcessTyped(own) /\ TrueSince(own.cache, own.at)
    BY <1>0, <1>1
  <1>5. CASE TakeSiteLock(t)
    <2>1. own.lock = FreeLock /\ old.phase = "lock"
      BY <1>5 DEF TakeSiteLock, In
    <2>2. CASE Stale(t)
      <3> DEFINE q == [old EXCEPT !.phase = "query"]
                 p == [own EXCEPT !.lock = t]
      <3>1. thread' = [thread EXCEPT ![t] = q] /\ worker' = [worker EXCEPT ![w] = p]
        BY <1>5, <2>2, <1>0 DEF TakeSiteLock, SetOwn, Step
      <3>2. /\ RequestTyped(q) /\ q.worker = w /\ q.phase = "query" /\ q.now = old.now
            /\ ProcessTyped(p) /\ p.cache = own.cache /\ p.at = own.at /\ p.lock = t
        BY <1>3, <1>4
      <3> HIDE DEF q, p
      <3>3. RequestOk(q, p)
        BY <3>2, <1>1, <2>2 DEF RequestOk, Stale
      <3>4. \A u \in Threads : p.lock = u <=>
               IF u = t THEN q # Waiting /\ q.phase \in {"query", "publish", "stamp"}
               ELSE worker[w].lock = u
        BY <3>2, <2>1, <1>2
      <3>5. p.cache = worker[w].cache /\ p.at = worker[w].at /\ TrueSince(p.cache, p.at)
        BY <3>2, <1>1, <1>2
      <3> HIDE DEF w, own, old
      <3>6. Moves(t, w, q, p)
        BY <1>10, <3>1, <3>2, <3>3, <3>4, <3>5 DEF Moves
      <3> QED BY <3>6, <1>10, OneThread
    <2>3. CASE ~Stale(t)
      <3> DEFINE q == [old EXCEPT !.phase = "member"]
      <3>1. thread' = [thread EXCEPT ![t] = q] /\ worker' = [worker EXCEPT ![w] = own]
        BY <1>5, <2>3, <1>0, <1>1 DEF TakeSiteLock, Step
      <3>2. RequestTyped(q) /\ q.worker = w /\ q.phase = "member" /\ q.now = old.now
        BY <1>3
      <3> HIDE DEF q
      <3>3. RequestOk(q, own)
        BY <3>2, <1>1, <2>3 DEF RequestOk, Stale
      <3>4. \A u \in Threads : own.lock = u <=>
               IF u = t THEN q # Waiting /\ q.phase \in {"query", "publish", "stamp"}
               ELSE worker[w].lock = u
        BY <3>2, <2>1, <1>2
      <3>5. own.cache = worker[w].cache /\ own.at = worker[w].at
        BY <1>2
      <3> HIDE DEF w, own, old
      <3>6. Moves(t, w, q, own)
        BY <1>10, <3>1, <3>2, <3>3, <3>4, <3>5 DEF Moves
      <3> QED BY <3>6, <1>10, OneThread
    <2> QED BY <2>2, <2>3
  <1>6. CASE QueryFails(t)
    <2> DEFINE p == [own EXCEPT !.lock = FreeLock]
    <2>1. /\ thread' = [thread EXCEPT ![t] = Waiting] /\ worker' = [worker EXCEPT ![w] = p]
          /\ old.phase = "query"
      BY <1>6 DEF QueryFails, SetOwn, In
    <2>2. ProcessTyped(p) /\ p.cache = own.cache /\ p.at = own.at /\ p.lock = FreeLock
      BY <1>4
    <2> HIDE DEF p
    <2>3. own.lock = t
      BY <1>0, <1>1, <2>1
    <2>4. \A u \in Threads : p.lock = u <=>
             IF u = t THEN Waiting # Waiting /\ Waiting.phase \in {"query", "publish", "stamp"}
             ELSE worker[w].lock = u
      BY <2>2, <2>3, <1>2
    <2>5. p.cache = worker[w].cache /\ p.at = worker[w].at /\ TrueSince(p.cache, p.at)
      BY <2>2, <1>1, <1>2
    <2> HIDE DEF w, own, old
    <2>6. Moves(t, w, Waiting, p)
      BY <1>10, <2>1, <2>2, <2>4, <2>5 DEF Moves
    <2> QED BY <2>6, <1>10, OneThread
  <1>7. CASE PublishList(t)
    <2> DEFINE q == [old EXCEPT !.phase = "stamp"]
               p == [own EXCEPT !.cache = old.fetched]
    <2>1. /\ thread' = [thread EXCEPT ![t] = q] /\ worker' = [worker EXCEPT ![w] = p]
          /\ old.phase = "publish"
      BY <1>7, <1>0 DEF PublishList, SetOwn, Step, In
    <2>2. /\ RequestTyped(q) /\ q.worker = w /\ q.phase = "stamp" /\ q.now = old.now
          /\ ProcessTyped(p) /\ p.cache = old.fetched /\ p.at = own.at /\ p.lock = own.lock
      BY <1>1, <1>3 DEF ProcessTyped
    <2> HIDE DEF q, p
    <2>3. own.lock = t /\ TrueSince(old.fetched, old.now) /\ old.now >= own.at + Ttl
      BY <1>0, <1>1, <2>1 DEF RequestOk
    <2>4. TrueSince(p.cache, p.at) /\ RequestOk(q, p)
      <3>1. TrueSince(p.cache, own.at)
        <4>1. \A s \in GateSites : lastOn[s] \in Nat /\ lastOff[s] \in Nat
          BY DEF GateTyped
        <4> QED BY <4>1, <2>2, <2>3, <1>1 DEF TrueSince
      <3> QED BY <3>1, <2>2, <2>3, <1>1 DEF RequestOk
    <2>5. \A u \in Threads : p.lock = u <=>
             IF u = t THEN q # Waiting /\ q.phase \in {"query", "publish", "stamp"}
             ELSE worker[w].lock = u
      BY <2>2, <2>3, <1>2
    <2>6. worker[w].lock = t /\ p.at >= worker[w].at
      BY <2>2, <2>3, <1>1, <1>2
    <2> HIDE DEF w, own, old
    <2>7. Moves(t, w, q, p)
      BY <1>10, <2>1, <2>2, <2>4, <2>5, <2>6 DEF Moves
    <2> QED BY <2>7, <1>10, OneThread
  <1>8. CASE StampList(t)
    <2> DEFINE q == [old EXCEPT !.phase = "member", !.fetched = {}]
               p == [own EXCEPT !.at = old.now, !.lock = FreeLock]
    <2>1. /\ thread' = [thread EXCEPT ![t] = q] /\ worker' = [worker EXCEPT ![w] = p]
          /\ old.phase = "stamp"
      BY <1>8, <1>0 DEF StampList, SetOwn, In
    <2>2. /\ RequestTyped(q) /\ q.worker = w /\ q.phase = "member" /\ q.now = old.now
          /\ ProcessTyped(p) /\ p.cache = own.cache /\ p.at = old.now /\ p.lock = FreeLock
      BY <1>1, ZenonT(40) DEF ProcessTyped, RequestTyped
    <2> HIDE DEF q, p
    <2>3. own.lock = t /\ TrueSince(own.cache, old.now) /\ old.now >= own.at + Ttl
      BY <1>0, <1>1, <2>1 DEF RequestOk
    <2>4. TrueSince(p.cache, p.at) /\ RequestOk(q, p)
      BY <2>2, <2>3, <1>1 DEF RequestOk
    <2>5. \A u \in Threads : p.lock = u <=>
             IF u = t THEN q # Waiting /\ q.phase \in {"query", "publish", "stamp"}
             ELSE worker[w].lock = u
      BY <2>2, <2>3, <1>2
    <2>6. worker[w].lock = t /\ p.at >= worker[w].at
      BY <2>2, <2>3, <1>1, <1>2
    <2> HIDE DEF w, own, old
    <2>7. Moves(t, w, q, p)
      BY <1>10, <2>1, <2>2, <2>4, <2>5, <2>6 DEF Moves
    <2> QED BY <2>7, <1>10, OneThread
  <1>9. CASE CountHit(t)
    <2>1. PICK ph \in {"store", "refused"} : thread' = [thread EXCEPT ![t] = [old EXCEPT !.phase = ph]]
      <3>1. Step(t, "store") \/ Step(t, "refused")
        BY <1>9 DEF CountHit
      <3> QED BY <3>1 DEF Step
    <2>2. \/ worker' = worker
          \/ \E rate : worker' = [worker EXCEPT ![w] = [own EXCEPT !.rate = rate]]
      BY <1>9 DEF CountHit, SetOwn
    <2>3. PICK p : /\ worker' = [worker EXCEPT ![w] = p]
                   /\ ProcessTyped(p) /\ p.cache = own.cache /\ p.at = own.at /\ p.lock = own.lock
      <3>1. CASE worker' = worker
        BY <3>1, <1>1
      <3>2. ASSUME NEW rate, worker' = [worker EXCEPT ![w] = [own EXCEPT !.rate = rate]]
            PROVE  \E p : /\ worker' = [worker EXCEPT ![w] = p] /\ ProcessTyped(p)
                          /\ p.cache = own.cache /\ p.at = own.at /\ p.lock = own.lock
        <4> DEFINE p == [own EXCEPT !.rate = rate]
        <4>1. ProcessTyped(p) /\ p.cache = own.cache /\ p.at = own.at /\ p.lock = own.lock
          BY <1>1 DEF ProcessTyped
        <4>2. worker' = [worker EXCEPT ![w] = p]
          BY <3>2
        <4> HIDE DEF p
        <4> QED BY <4>1, <4>2
      <3> QED BY <3>1, <3>2, <2>2
    <2> DEFINE q == [old EXCEPT !.phase = ph]
    <2>4. RequestTyped(q) /\ q.worker = w /\ q.phase = ph /\ q.now = old.now
      BY <1>3
    <2>5. thread' = [thread EXCEPT ![t] = q] /\ old.phase = "count"
      BY <2>1, <1>9 DEF CountHit, In
    <2> HIDE DEF q
    <2>6. RequestOk(q, p)
      BY <2>4, <1>1 DEF RequestOk
    <2>7. \A u \in Threads : p.lock = u <=>
             IF u = t THEN q # Waiting /\ q.phase \in {"query", "publish", "stamp"}
             ELSE worker[w].lock = u
      BY <2>3, <2>4, <2>5, <1>0, <1>1, <1>2
    <2>8. p.cache = worker[w].cache /\ p.at = worker[w].at /\ TrueSince(p.cache, p.at)
      BY <2>3, <1>1, <1>2
    <2> HIDE DEF w, own, old
    <2>9. Moves(t, w, q, p)
      BY <1>10, <2>3, <2>4, <2>5, <2>6, <2>7, <2>8 DEF Moves
    <2> QED BY <2>9, <1>10, OneThread
  <1> QED BY <1>5, <1>6, <1>7, <1>8, <1>9

\* Sites that come and go and time that passes only make the lists' past longer.
LEMMA AroundStep ==
  ASSUME GateTyped, SitesInv, ListInv,
         Tick \/ \E s \in GateSites : CreateWebsite(s) \/ SoftDeleteWebsite(s)
  PROVE  GateTyped' /\ SitesInv' /\ ListInv'
  <1>0. /\ clock \in Nat /\ Ttl \in Nat \ {0} /\ UNCHANGED <<worker, thread>>
        /\ lastOn \in [GateSites -> Nat] /\ lastOff \in [GateSites -> Nat]
        /\ sites = [s \in GateSites |-> sites[s]]
    BY IngestGateAssumption DEF GateTyped, Tick, CreateWebsite, SoftDeleteWebsite, SetSite
  <1>1. /\ clock' \in Nat /\ clock' >= clock
        /\ lastOn' \in [GateSites -> Nat] /\ lastOff' \in [GateSites -> Nat]
        /\ sites' = [s \in GateSites |-> sites'[s]]
        /\ \A s \in GateSites : lastOn'[s] >= lastOn[s] /\ lastOff'[s] >= lastOff[s]
        /\ SitesInv'
    <2>1. CASE Tick
      <3>1. \A s \in GateSites : lastOn[s] <= clock /\ lastOff[s] <= clock
        BY DEF SitesInv
      <3> QED BY <2>1, <1>0, <3>1 DEF Tick, SitesInv
    <2>2. ASSUME NEW s \in GateSites, NEW to \in {"active", "deleted"}, SetSite(s, to)
          PROVE  /\ clock' = clock
                 /\ lastOn' \in [GateSites -> Nat] /\ lastOff' \in [GateSites -> Nat]
                 /\ sites' = [r \in GateSites |-> sites'[r]]
                 /\ \A r \in GateSites : lastOn'[r] >= lastOn[r] /\ lastOff'[r] >= lastOff[r]
                 /\ SitesInv'
      <3>1. \A r \in GateSites : lastOn[r] <= clock /\ lastOff[r] <= clock
        BY DEF SitesInv
      <3>2. CASE to = "active"
        <4>1. /\ lastOn' = [lastOn EXCEPT ![s] = clock] /\ lastOff' = lastOff /\ clock' = clock
              /\ sites' = [sites EXCEPT ![s] = "active"]
          BY <2>2, <3>2 DEF SetSite
        <4> QED BY <4>1, <3>1, <1>0 DEF SitesInv
      <3>3. CASE to = "deleted"
        <4>1. /\ lastOff' = [lastOff EXCEPT ![s] = clock] /\ lastOn' = lastOn /\ clock' = clock
              /\ sites' = [sites EXCEPT ![s] = "deleted"]
          BY <2>2, <3>3 DEF SetSite
        <4> QED BY <4>1, <3>1, <1>0 DEF SitesInv
      <3> QED BY <3>2, <3>3
    <2> QED BY <2>1, <2>2, <1>0 DEF CreateWebsite, SoftDeleteWebsite
  <1>2. GateTyped'
    BY <1>0, <1>1 DEF GateTyped, ProcessTyped, RequestTyped
  <1>3. ASSUME NEW list, NEW x \in Nat, TrueSince(list, x)
        PROVE  \A s \in GateSites : IF s \in list THEN lastOn'[s] >= x ELSE lastOff'[s] >= x
    <2>1. \A s \in GateSites : lastOn[s] \in Nat /\ lastOff[s] \in Nat
                                 /\ lastOn'[s] \in Nat /\ lastOff'[s] \in Nat
      BY <1>0, <1>1
    <2> QED BY <1>1, <1>3, <2>1 DEF TrueSince
  <1>4. ASSUME NEW w \in Workers
        PROVE  TrueSince(worker[w].cache, worker[w].at)'
    <2>1. TrueSince(worker[w].cache, worker[w].at) /\ worker[w].at \in Nat
      BY DEF ListInv, GateTyped, ProcessTyped
    <2> QED BY <2>1, <1>0, <1>3 DEF TrueSince
  <1>5. ASSUME NEW t \in Threads, thread[t] # Waiting
        PROVE  RequestOk(thread[t], worker[thread[t].worker])'
    <2> DEFINE q == thread[t]
               p == worker[q.worker]
    <2>1. RequestOk(q, p) /\ RequestTyped(q) /\ q.now \in Nat
      BY <1>5, ListInvByRequest DEF GateTyped, RequestTyped
    <2>2. q.now <= clock'
      BY <1>0, <1>1, <2>1 DEF RequestOk
    <2>3. /\ q.phase = "rate" => lastOn'[q.site] + Ttl > q.now
          /\ q.phase = "unheard" => lastOff'[q.site] + Ttl > q.now
      <3>1. q.site \in GateSites
        BY <2>1 DEF RequestTyped
      <3>2. /\ lastOn[q.site] \in Nat /\ lastOff[q.site] \in Nat
            /\ lastOn'[q.site] \in Nat /\ lastOff'[q.site] \in Nat
            /\ lastOn'[q.site] >= lastOn[q.site] /\ lastOff'[q.site] >= lastOff[q.site]
        BY <3>1, <1>0, <1>1
      <3> HIDE DEF q
      <3> QED BY <3>2, <2>1, <1>0 DEF RequestOk
    <2>4. /\ q.phase = "publish" =>
               \A s \in GateSites : IF s \in q.fetched THEN lastOn'[s] >= q.now ELSE lastOff'[s] >= q.now
          /\ q.phase = "stamp" =>
               \A s \in GateSites : IF s \in p.cache THEN lastOn'[s] >= q.now ELSE lastOff'[s] >= q.now
      BY <2>1, <1>3 DEF RequestOk
    <2> QED BY <1>0, <2>1, <2>2, <2>3, <2>4 DEF RequestOk, TrueSince
  <1>6. ListInv'
    <2>1. \A w \in Workers : \A t \in Threads :
             worker'[w].lock = t <=> /\ thread'[t] # Waiting /\ thread'[t].worker = w
                                     /\ thread'[t].phase \in {"query", "publish", "stamp"}
      BY <1>0 DEF ListInv, Refreshing
    <2> QED BY <1>0, <1>4, <1>5, <2>1 DEF ListInv, RequestOk, Refreshing, Stale, Own, In, TrueSince
  <1> QED BY <1>1, <1>2, <1>6

\* A worker that restarts has no list, and nobody who waits for one.
LEMMA RestartStep ==
  ASSUME GateTyped, SitesInv, ListInv, NEW w \in Workers, RestartWorker(w)
  PROVE  GateTyped' /\ SitesInv' /\ ListInv'
  <1>0. /\ UNCHANGED <<clock, sites, lastOn, lastOff>>
        /\ worker' = [worker EXCEPT ![w] = FreshProcess]
        /\ thread' = [t \in Threads |->
              IF thread[t] # Waiting /\ thread[t].worker = w THEN Waiting ELSE thread[t]]
    BY DEF RestartWorker
  <1>1. /\ ProcessTyped(FreshProcess) /\ FreshProcess.cache = {} /\ FreshProcess.at = 0
        /\ FreshProcess.lock = FreeLock /\ FreeLock \notin Threads
    BY IngestGateAssumption DEF FreshProcess, ProcessTyped
  <1>2. SitesInv'
    BY <1>0 DEF SitesInv
  <1>3. /\ worker' = [v \in Workers |-> worker'[v]] /\ worker'[w] = FreshProcess
        /\ \A v \in Workers : v # w => worker'[v] = worker[v]
        /\ \A t \in Threads : thread'[t] \in {Waiting, thread[t]}
        /\ \A t \in Threads : thread'[t] # Waiting => thread'[t] = thread[t] /\ thread[t].worker # w
        /\ \A t \in Threads : thread[t] # Waiting /\ thread[t].worker # w => thread'[t] = thread[t]
    BY <1>0 DEF GateTyped
  <1>4. GateTyped'
    <2>1. \A v \in Workers : ProcessTyped(worker'[v])
      BY <1>1, <1>3 DEF GateTyped
    <2>2. \A t \in Threads : thread'[t] = Waiting \/ RequestTyped(thread'[t])
      BY <1>3 DEF GateTyped
    <2>3. thread' = [t \in Threads |-> thread'[t]]
      BY <1>0
    <2> QED BY <1>0, <1>3, <2>1, <2>2, <2>3 DEF GateTyped, ProcessTyped, RequestTyped
  <1>5. \A v \in Workers : TrueSince(worker'[v].cache, worker'[v].at)
    <2>1. TrueSince({}, 0)
      BY DEF TrueSince, GateTyped
    <2>2. \A v \in Workers : TrueSince(worker[v].cache, worker[v].at)
      BY DEF ListInv
    <2> QED BY <2>1, <2>2, <1>1, <1>3
  <1>6. \A v \in Workers : \A t \in Threads :
           worker'[v].lock = t <=> /\ thread'[t] # Waiting /\ thread'[t].worker = v
                                   /\ thread'[t].phase \in {"query", "publish", "stamp"}
    BY <1>1, <1>3 DEF ListInv, Refreshing
  <1>7. \A t \in Threads : thread'[t] # Waiting =>
           RequestOk(thread'[t], worker'[thread'[t].worker])
    <2> SUFFICES ASSUME NEW t \in Threads, thread'[t] # Waiting
                 PROVE  RequestOk(thread'[t], worker'[thread'[t].worker])
      OBVIOUS
    <2>1. thread'[t] = thread[t] /\ thread[t] # Waiting /\ thread[t].worker \in Workers \ {w}
      BY <1>3 DEF GateTyped, RequestTyped
    <2> QED BY <2>1, <1>3, ListInvByRequest
  <1>8. ListInv'
    BY <1>0, <1>5, <1>6, <1>7 DEF ListInv, RequestOk, Refreshing, Stale, Own, In, TrueSince
  <1> QED BY <1>2, <1>4, <1>8

\* The inductive invariant of the gate: any number of processes and threads,
\* whatever the sites do meanwhile.
THEOREM GateHolds == GateSpec => [](GateTyped /\ SitesInv /\ ListInv)
  <1> DEFINE Inv == GateTyped /\ SitesInv /\ ListInv
  <1>1. InitGate => Inv
    BY GateInit
  <1>2. Inv /\ [NextGate]_gateVars => Inv'
    <2> SUFFICES ASSUME GateTyped, SitesInv, ListInv, [NextGate]_gateVars
                 PROVE  GateTyped' /\ SitesInv' /\ ListInv'
      OBVIOUS
    <2>1. CASE UNCHANGED gateVars
      BY <2>1 DEF gateVars, GateTyped, SitesInv, ListInv, ProcessTyped, RequestTyped, TrueSince,
                  Refreshing, Stale, Own, In
    <2>2. CASE NextHit
      BY <2>2, RequestStep, ProcessStep DEF NextHit
    <2> QED BY <2>1, <2>2, AroundStep, RestartStep DEF NextGate
  <1> QED BY <1>1, <1>2, PTL DEF GateSpec

\* A hit is let through or dropped on a list that was true less than Ttl before.
THEOREM HitsAreJudgedOnAFreshList == GateSpec => []SiteCacheIsFresh
  <1>1. GateTyped /\ SitesInv /\ ListInv => SiteCacheIsFresh
    <2>1. Waiting.phase \notin {"rate", "unheard"}
      BY DEF Waiting
    <2> QED BY <2>1 DEF ListInv, In, SiteCacheIsFresh
  <1> QED BY <1>1, GateHolds, PTL

-----------------------------------------------------------------------------
-----------------------------------------------------------------------------
(* The gate: a flood.                                                          *)

\* An entry appended to a header, and others after it.
LEMMA InTheMiddle ==
  ASSUME NEW S, NEW f \in Seq(S), NEW x \in S, NEW g \in Seq(S)
  PROVE  /\ Len(f \o <<x>> \o g) = Len(f) + 1 + Len(g)
         /\ (f \o <<x>> \o g)[Len(f) + 1] = x
  <1>1. <<x>> \in Seq(S) /\ Len(<<x>>) = 1 /\ <<x>>[1] = x /\ Len(f) \in Nat /\ Len(g) \in Nat
    OBVIOUS
  <1>2. /\ f \o <<x>> \in Seq(S) /\ Len(f \o <<x>>) = Len(f) + 1
        /\ \A i \in 1..(Len(f) + 1) :
              (f \o <<x>>)[i] = IF i <= Len(f) THEN f[i] ELSE <<x>>[i - Len(f)]
    BY <1>1, ConcatProperties
  <1>3. (f \o <<x>>)[Len(f) + 1] = x
    BY <1>1, <1>2
  <1> DEFINE front == f \o <<x>>
  <1>4. front \in Seq(S) /\ Len(front) = Len(f) + 1 /\ front[Len(f) + 1] = x
    BY <1>2, <1>3
  <1> HIDE DEF front
  <1>5. /\ Len(front \o g) = Len(front) + Len(g)
        /\ \A i \in 1..(Len(front) + Len(g)) :
              (front \o g)[i] = IF i <= Len(front) THEN front[i] ELSE g[i - Len(front)]
    BY <1>4, ConcatProperties
  <1>6. Len(front) + 0 \in 1..(Len(front) + Len(g)) /\ Len(front) \in Nat
    BY <1>1, <1>4
  <1>7. Len(front \o g) = Len(f) + 1 + Len(g) /\ (front \o g)[Len(f) + 1] = x
    BY <1>1, <1>4, <1>5, <1>6
  <1> QED BY <1>7 DEF front

\* A request on a host that knows its proxies is taken for its client's.
LEMMA ClientIsKnown ==
  ASSUME setup \in Setups, NEW c \in Callers[setup]
  PROVE  c.source \in Addresses /\ (Hardened => c.address = c.source)
  <1>1. PICK a \in Addresses, port \in BOOLEAN, named \in BOOLEAN, sent \in Sent :
           c = [source |-> a,
                address |-> ClientIp(setup, Arriving(setup, [ip |-> a, port |-> port], sent, named))]
    BY DEF Callers
  <1>5. c.source = a
    BY <1>1
  <1> SUFFICES ASSUME Hardened PROVE c.address = a
    BY <1>5
  <1> DEFINE d == setup
             caller == [ip |-> a, port |-> port]
             r == Arriving(d, caller, sent, named)
             n == Len(sent.forwarded)
  <1>2. /\ d.trust \in BOOLEAN /\ d.custom \in BOOLEAN /\ d.hops \in Nat /\ (d.hops > 0 => d.trust)
        /\ d.count \in {0, d.hops} /\ (d.trust => d.count > 0)
        /\ sent.forwarded \in Seq(Entries) /\ a # NoAddress
    BY IngestGateAssumption DEF Hardened
  <1>3. CASE ~d.trust
    <2>1. d.hops = 0
      BY <1>2, <1>3
    <2>2. r.peer.ip = a
      BY <2>1 DEF Arriving
    <2>3. ClientIp(d, r) = First(<<a>>)
      BY <1>3, <2>2 DEF ClientIp, StripPort
    <2>4. First(<<a>>) = a
      BY <1>2 DEF First, Present
    <2> QED BY <1>1, <2>3, <2>4
  <1>4. CASE d.trust
    <2>1. d.count = d.hops /\ d.hops > 0 /\ d.hops \in Nat
      BY <1>2, <1>4
    <2> DEFINE proxies == [i \in 1..(d.hops - 1) |-> Entry(Proxy)]
               all == sent.forwarded \o <<caller>> \o proxies
    <2>2. r.forwarded = all /\ r.custom \in {caller, Entry(NoAddress)}
      BY SMTT(20), <2>1 DEF Arriving
    <2>3. Len(all) = n + d.hops /\ all[n + 1] = caller
      <3>1. sent.forwarded \in Seq(Entries) /\ n \in Nat
        BY <1>2
      <3>2. proxies \in Seq(Entries) /\ Len(proxies) = d.hops - 1
        <4>1. d.hops - 1 \in Nat /\ proxies \in [1..(d.hops - 1) -> Entries]
          BY <2>1 DEF Entry, Entries
        <4> HIDE DEF proxies
        <4>2. proxies \in Seq(Entries)
          BY <4>1, SeqDef
        <4> QED BY <4>1, <4>2
      <3>3. caller \in Entries
        BY DEF Entries
      <3> HIDE DEF caller, proxies
      <3>4. Len(all) = n + 1 + (d.hops - 1) /\ all[n + 1] = caller
        BY SMTT(20), <3>1, <3>2, <3>3, InTheMiddle
      <3> QED BY <3>1, <3>4, <2>1
    <2>4. n \in Nat
      BY <1>2
    <2> HIDE DEF all
    <2>5. FromTheRight(d, r) = a
      <3>1. Len(all) + 1 - d.count = n + 1 /\ ~(Len(all) < d.count)
        BY <2>1, <2>3, <2>4
      <3> QED BY <2>2, <2>3, <3>1 DEF FromTheRight, StripPort
    <2>6. CustomHeaderIp(d, r) \in {a, NoAddress}
      BY <2>2 DEF CustomHeaderIp, StripPort, Entry
    <2> DEFINE x == CustomHeaderIp(d, r)
               z == StripPort(r.peer)
    <2>7. x \in {a, NoAddress} /\ ClientIp(d, r) = First(<<x, a, z>>)
      <3> HIDE DEF d, r
      <3>1. ClientIp(d, r) = First(<<CustomHeaderIp(d, r), FromTheRight(d, r), StripPort(r.peer)>>)
        BY <1>4, <2>1 DEF ClientIp
      <3> QED BY <3>1, <2>5, <2>6
    <2> HIDE DEF x, z
    <2>8. First(<<x, a, z>>) = a
      <3> DEFINE ips == <<x, a, z>>
                 found == {i \in DOMAIN ips : Present(ips[i])}
                 least == CHOOSE i \in found : \A j \in found : i <= j
      <3>1. 2 \in found /\ found \subseteq {1, 2, 3}
        <4>1. DOMAIN ips = {1, 2, 3} /\ ips[2] = a
          OBVIOUS
        <4> HIDE DEF ips
        <4> QED BY <4>1, <1>2 DEF Present
      <3>2. 1 \in found => x = a
        BY <2>7 DEF Present
      <3>3. \E i \in found : \A j \in found : i <= j
        BY <3>1
      <3>4. least \in found /\ least <= 2
        BY <3>1, <3>3
      <3>5. ips[least] = a
        BY <3>1, <3>2, <3>4
      <3>6. found # {}
        BY <3>1
      <3> QED BY <3>5, <3>6 DEF First
    <2> QED BY <1>1, <2>7, <2>8
  <1> QED BY <1>2, <1>3, <1>4

\* A window lasts, and a limit is a number.
LEMMA WindowAndLimit ==
  Window \in Nat \ {0} /\ Limit \in Nat
BY IngestGateAssumption

\* A window that is kept: time passes, other hits wait longer.
LEMMA WindowIsKept ==
  ASSUME NEW p \in Seq(Nat), NEW e \in Nat \X Nat, NEW b \in Nat, NEW c \in Nat,
         NEW late \in 0..Window, NEW later \in late..Window, WindowOf(e, p, b, c, late)
  PROVE  WindowOf(e, p, b, c, later)
  <1>1. \A i \in DOMAIN p : p[i] \in Nat
    OBVIOUS
  <1> QED BY SMTT(30), <1>1, WindowAndLimit DEF WindowOf, OlderThan

\* A window that has elapsed, or is dropped with the table, gives way to a full one.
LEMMA WindowEnds ==
  ASSUME NEW p \in Seq(Nat), NEW e \in Nat \X Nat, NEW b \in Nat, NEW c \in Nat,
         NEW late \in 0..Window, NEW later \in late..Window, WindowOf(e, p, b, c, late),
         NEW at \in Nat, NEW now \in Nat, c <= at, now <= at, \A i \in DOMAIN p : p[i] <= at,
         Elapsed(e[2], now) \/ later = Window
  PROVE  OlderThan(p, Len(p), at, later)
  <1>1. /\ \A i \in DOMAIN p : p[i] \in Nat
        /\ DOMAIN p = 1..Len(p) /\ Len(p) \in Nat /\ e[2] \in Nat
    OBVIOUS
  <1>2. SUFFICES ASSUME NEW i \in DOMAIN p, i <= Len(p) - Limit
                 PROVE  p[i] + Window <= at + later
    BY DEF OlderThan
  <1>3. i <= b /\ i \in Nat
    BY SMTT(30), <1>1, <1>2, WindowAndLimit DEF WindowOf
  <1>4. p[i] <= c /\ p[i] \in Nat /\ p[i] <= at
    BY <1>1, <1>3 DEF WindowOf
  <1>5. CASE late = Window
    BY <1>4, <1>5, WindowAndLimit
  <1>6. CASE later = Window
    BY <1>4, <1>6, WindowAndLimit
  <1>7. CASE late # Window /\ Elapsed(e[2], now)
    <2>1. c <= e[2] + late
      BY <1>7, WindowAndLimit DEF WindowOf
    <2> QED BY SMTT(30), <2>1, <1>1, <1>4, <1>7, WindowAndLimit DEF Elapsed
  <1> QED BY <1>5, <1>6, <1>7

\* The first hit of a window, and the next ones.
LEMMA WindowBegins ==
  ASSUME NEW p \in Seq(Nat), NEW at \in Nat, NEW now \in Nat, NEW late \in 0..Window,
         Limit # 0, \A i \in DOMAIN p : p[i] <= at, late < Window => at <= now + late,
         OlderThan(p, Len(p), at, late)
  PROVE  WindowOf(<<1, now>>, Append(p, at), Len(p), at, late)
  <1> DEFINE q == Append(p, at)
  <1>1. /\ \A i \in DOMAIN p : p[i] \in Nat /\ q[i] = p[i]
        /\ DOMAIN p = 1..Len(p) /\ Len(p) \in Nat /\ Len(q) = Len(p) + 1 /\ DOMAIN q = 1..(Len(p) + 1)
    OBVIOUS
  <1> HIDE DEF q
  <1>2. \A i \in DOMAIN q : i <= Len(p) => i \in DOMAIN p
    BY <1>1
  <1>3. Limit \in Nat \ {0}
    BY WindowAndLimit
  <1>4. OlderThan(q, Len(p), at, late)
    BY <1>1, <1>2, <1>3 DEF OlderThan
  <1>5. WindowOf(<<1, now>>, q, Len(p), at, late)
    BY <1>1, <1>2, <1>3, <1>4 DEF WindowOf
  <1> QED BY <1>5 DEF q

LEMMA WindowGoesOn ==
  ASSUME NEW p \in Seq(Nat), NEW e \in Nat \X Nat, NEW b \in 0..Len(p), NEW c \in Nat,
         NEW late \in 0..Window, NEW at \in Nat, WindowOf(e, p, b, c, late)
  PROVE  /\ WindowOf(<<e[1] + 1, e[2]>>, p, b, c, late)
         /\ e[1] + 1 <= Limit => WindowOf(<<e[1] + 1, e[2]>>, Append(p, at), b, c, late)
  <1> DEFINE q == Append(p, at)
  <1>1. /\ \A i \in DOMAIN p : p[i] \in Nat /\ q[i] = p[i]
        /\ DOMAIN p = 1..Len(p) /\ Len(p) \in Nat /\ Len(q) = Len(p) + 1 /\ DOMAIN q = 1..(Len(p) + 1)
    OBVIOUS
  <1>0. e[1] \in Nat /\ e[2] \in Nat /\ b \in Nat /\ b <= Len(p)
    OBVIOUS
  <1> HIDE DEF q
  <1>2. Limit \in Nat
    BY WindowAndLimit
  <1>3. \A i \in DOMAIN q : i <= b => i \in DOMAIN p
    BY <1>0, <1>1
  <1>4. OlderThan(q, b, c, late)
    <2>1. OlderThan(p, b, c, late)
      BY DEF WindowOf
    <2>2. \A i \in DOMAIN q : i <= b - Limit => i \in DOMAIN p
      BY <1>0, <1>1, <1>2
    <2> QED BY <2>1, <2>2, <1>1 DEF OlderThan
  <1>5. WindowOf(<<e[1] + 1, e[2]>>, p, b, c, late)
    <2>1. Len(p) <= b + (e[1] + 1)
      <3>1. Len(p) <= b + e[1]
        BY DEF WindowOf
      <3> QED BY <1>0, <1>1, <3>1
    <2>2. /\ late < Window => c <= e[2] + late
          /\ Len(p) <= b + Limit
          /\ \A i \in DOMAIN p : i <= b => p[i] <= c
          /\ OlderThan(p, b, c, late)
      BY DEF WindowOf
    <2> QED BY <2>1, <2>2 DEF WindowOf
  <1>6. e[1] + 1 <= Limit => WindowOf(<<e[1] + 1, e[2]>>, q, b, c, late)
    BY <1>0, <1>1, <1>2, <1>3, <1>4 DEF WindowOf
  <1> QED BY <1>5, <1>6 DEF q

\* A hit let through in its window keeps two limits a window apart.
LEMMA StaysSpaced ==
  ASSUME NEW p \in Seq(Nat), NEW e, NEW b \in Nat, NEW c \in Nat, NEW late \in 0..Window,
         NEW at \in Nat, c <= at, Spaced(p, late), WindowOf(e, Append(p, at), b, c, late)
  PROVE  Spaced(Append(p, at), late)
  <1> DEFINE q == Append(p, at)
  <1>1. /\ \A i \in DOMAIN p : p[i] \in Nat /\ q[i] = p[i] /\ i \in DOMAIN q
        /\ DOMAIN p = 1..Len(p) /\ Len(p) \in Nat /\ Len(q) = Len(p) + 1 /\ DOMAIN q = 1..(Len(p) + 1)
        /\ q[Len(p) + 1] = at
    OBVIOUS
  <1> HIDE DEF q
  <1>2. Len(q) <= b + Limit /\ OlderThan(q, b, c, late)
    BY DEF WindowOf, q
  <1>3. SUFFICES ASSUME NEW i \in DOMAIN q, NEW j \in DOMAIN q, j = i + 2 * Limit
                 PROVE  q[j] + late >= q[i] + Window
    BY DEF Spaced, q
  <1>4. Limit \in Nat /\ Window \in Nat /\ i \in Nat /\ j \in Nat
    BY <1>1, WindowAndLimit
  <1>5. CASE j \in DOMAIN p
    <2>1. i \in DOMAIN p
      BY <1>1, <1>3, <1>4, <1>5
    <2> QED BY <2>1, <1>1, <1>3, <1>5 DEF Spaced
  <1>6. CASE j = Len(p) + 1
    <2>1. i <= b - Limit
      BY <1>1, <1>2, <1>3, <1>4, <1>6
    <2>2. q[i] + Window <= c + late
      BY <2>1, <1>2 DEF OlderThan
    <2>3. q[i] \in Nat
      BY <1>1
    <2> QED BY <2>2, <2>3, <1>1, <1>4, <1>6
  <1> QED BY <1>1, <1>5, <1>6

\* Two limits a window apart stay so when the lag is larger.
LEMMA SpacedLater ==
  ASSUME NEW p \in Seq(Nat), NEW late \in 0..Window, NEW later \in late..Window, Spaced(p, late)
  PROVE  Spaced(p, later)
  <1>1. \A i \in DOMAIN p : p[i] \in Nat
    OBVIOUS
  <1> QED BY SMTT(30), <1>1, WindowAndLimit DEF Spaced

\* Requests that come, go and move on stay well named.
LEMMA StaysWellNamed ==
  ASSUME setup \in Setups, UNCHANGED setup, WellNamed,
         \A u \in Threads :
            \/ thread'[u] = Waiting
            \/ /\ thread[u] # Waiting /\ thread'[u].source = thread[u].source
               /\ thread'[u].address = thread[u].address
            \/ \E c \in Callers[setup] :
                  thread'[u].source = c.source /\ thread'[u].address = c.address
  PROVE  WellNamed'
  <1>1. Hardened' <=> Hardened
    BY DEF Hardened
  <1>2. SUFFICES ASSUME NEW u \in Threads, thread'[u] # Waiting
                 PROVE  /\ thread'[u].source \in Addresses
                        /\ Hardened => thread'[u].address = thread'[u].source
    BY <1>1 DEF WellNamed, Waiting
  <1>3. CASE /\ thread[u] # Waiting /\ thread'[u].source = thread[u].source
             /\ thread'[u].address = thread[u].address
    BY <1>3 DEF WellNamed
  <1>4. ASSUME NEW c \in Callers[setup], thread'[u].source = c.source, thread'[u].address = c.address
        PROVE  /\ thread'[u].source \in Addresses
               /\ Hardened => thread'[u].address = thread'[u].source
    BY <1>4, ClientIsKnown
  <1> QED BY <1>2, <1>3, <1>4

\* Time that passes, and steps that leave the tables alone.
LEMMA ClientInvLater ==
  ASSUME NEW rate, NEW a, NEW p \in Seq(Nat), NEW late \in 0..Window,
         NEW at \in Nat, NEW after \in Nat, at <= after, ClientInv(rate, a, p, late, at)
  PROVE  ClientInv(rate, a, p, late, after)
  <1>1. \A i \in DOMAIN p : p[i] \in Nat
    OBVIOUS
  <1>2. \A c \in 0..at : c \in 0..after
    OBVIOUS
  <1>3. OlderThan(p, Len(p), at, late) => OlderThan(p, Len(p), after, late)
    BY <1>1, WindowAndLimit DEF OlderThan
  <1>4. \A i \in DOMAIN p : p[i] <= after
    BY <1>1 DEF ClientInv
  <1> QED BY <1>2, <1>3, <1>4 DEF ClientInv

LEMMA FloodKept ==
  ASSUME FloodInv, UNCHANGED <<setup, passed, lag>>, WellNamed',
         clock \in Nat, clock' \in Nat, clock <= clock',
         \A w \in Workers : worker'[w].rate = worker[w].rate
  PROVE  FloodInv'
  <1>1. RateTyped' /\ (Hardened' <=> Hardened)
    BY DEF FloodInv, RateTyped, Hardened
  <1>2. FloodIsBounded'
    BY DEF FloodInv, FloodIsBounded, Hardened, Spaced
  <1>3. ASSUME Limit # 0, Hardened, NEW w \in Workers, NEW a \in Addresses
        PROVE  ClientInv(worker'[w].rate, a, passed'[w][a], lag'[w], clock')
    <2>1. ClientInv(worker[w].rate, a, passed[w][a], lag[w], clock)
      BY <1>3 DEF FloodInv
    <2>2. passed[w][a] \in Seq(Nat) /\ lag[w] \in 0..Window
      BY DEF FloodInv, RateTyped
    <2> QED BY <2>1, <2>2, ClientInvLater
  <1> QED BY <1>1, <1>2, <1>3 DEF FloodInv

\* A request up to the count, and after it.
LEMMA QuietRequestStep ==
  ASSUME GateTyped, ListInv, FloodInv, NEW t \in Threads,
         \/ Receive(t) \/ LookAtCache(t) \/ TakeSiteLock(t) \/ QuerySites(t) \/ QueryFails(t)
         \/ PublishList(t) \/ StampList(t) \/ CheckMember(t) \/ ReadRateClock(t) \/ Respond(t)
  PROVE  FloodInv'
  <1> DEFINE old == thread[t]
             own == Own(t)
  <1>0. /\ UNCHANGED <<setup, clock, passed, lag>> /\ clock \in Nat
        /\ thread = [u \in Threads |-> thread[u]] /\ worker = [v \in Workers |-> worker[v]]
    BY DEF Receive, LookAtCache, TakeSiteLock, QuerySites, QueryFails, PublishList, StampList,
           CheckMember, ReadRateClock, Respond, GateTyped
  <1>1. CASE Receive(t)
    <2>1. PICK w \in Workers, s \in Heard, c \in Callers[setup] :
             thread' = [thread EXCEPT ![t] = [phase |-> "site", worker |-> w, now |-> clock,
                          site |-> s, source |-> c.source, address |-> c.address, fetched |-> {}]]
      BY <1>1 DEF Receive
    <2>2. /\ thread'[t].source = c.source /\ thread'[t].address = c.address
          /\ \A u \in Threads \ {t} : thread'[u] = thread[u]
      BY <2>1, <1>0
    <2>3. WellNamed'
      <3>1. setup \in Setups /\ WellNamed
        BY DEF FloodInv
      <3> QED BY <2>2, <3>1, <1>0, StaysWellNamed
    <2> QED BY <1>0, <1>1, <2>3, FloodKept DEF Receive
  <1>2. CASE ~Receive(t)
    <2>0. old.phase # "waiting"
      BY <1>2 DEF LookAtCache, TakeSiteLock, QuerySites, QueryFails, PublishList, StampList,
           CheckMember, ReadRateClock, Respond, In
    <2>1. /\ old # Waiting /\ RequestTyped(old) /\ ProcessTyped(own) /\ old.worker \in Workers
          /\ own = worker[old.worker]
      BY <2>0, RequestFacts DEF Own
    <2>2. /\ \/ thread'[t] = Waiting
             \/ thread'[t].source = old.source /\ thread'[t].address = old.address
          /\ \A u \in Threads \ {t} : thread'[u] = thread[u]
      <3>1. \A ph, x : /\ [old EXCEPT !.phase = ph].source = old.source
                       /\ [old EXCEPT !.phase = ph].address = old.address
                       /\ [old EXCEPT !.fetched = x, !.phase = ph].source = old.source
                       /\ [old EXCEPT !.fetched = x, !.phase = ph].address = old.address
                       /\ [old EXCEPT !.phase = ph, !.fetched = x].source = old.source
                       /\ [old EXCEPT !.phase = ph, !.fetched = x].address = old.address
                       /\ [old EXCEPT !.phase = ph, !.now = x].source = old.source
                       /\ [old EXCEPT !.phase = ph, !.now = x].address = old.address
        BY <2>1 DEF RequestTyped
      <3> DEFINE Same(q) == q = Waiting \/ (q.source = old.source /\ q.address = old.address)
      <3>2. ASSUME LookAtCache(t) \/ TakeSiteLock(t) \/ CheckMember(t)
            PROVE  \E q : Same(q) /\ thread' = [thread EXCEPT ![t] = q]
        <4>1. PICK ph : thread' = [thread EXCEPT ![t] = [old EXCEPT !.phase = ph]]
          BY <3>2 DEF LookAtCache, TakeSiteLock, CheckMember, Step
        <4> QED BY <4>1, <3>1
      <3>3. ASSUME QuerySites(t) \/ PublishList(t)
            PROVE  \E q : Same(q) /\ thread' = [thread EXCEPT ![t] = q]
        <4>1. CASE QuerySites(t)
          <5> DEFINE q == [old EXCEPT !.fetched = ActiveSites, !.phase = "publish"]
          <5>1. Same(q) /\ thread' = [thread EXCEPT ![t] = q]
            BY <4>1, <1>0, <3>1 DEF QuerySites
          <5> HIDE DEF q
          <5> QED BY <5>1
        <4>2. CASE PublishList(t)
          BY <4>2, <3>1 DEF PublishList, Step
        <4> QED BY <3>3, <4>1, <4>2
      <3>4. ASSUME StampList(t) \/ ReadRateClock(t)
            PROVE  \E q : Same(q) /\ thread' = [thread EXCEPT ![t] = q]
        <4>1. CASE StampList(t)
          <5> DEFINE q == [old EXCEPT !.phase = "member", !.fetched = {}]
          <5>1. Same(q) /\ thread' = [thread EXCEPT ![t] = q]
            BY <4>1, <1>0, <3>1 DEF StampList
          <5> HIDE DEF q
          <5> QED BY <5>1
        <4>2. CASE ReadRateClock(t)
          <5> DEFINE q == [old EXCEPT !.phase = "count", !.now = clock]
          <5>1. Same(q) /\ thread' = [thread EXCEPT ![t] = q]
            BY <4>2, <1>0, <3>1 DEF ReadRateClock
          <5> HIDE DEF q
          <5> QED BY <5>1
        <4> QED BY <3>4, <4>1, <4>2
      <3>5. ASSUME QueryFails(t) \/ Respond(t)
            PROVE  \E q : Same(q) /\ thread' = [thread EXCEPT ![t] = q]
        <4>1. thread' = [thread EXCEPT ![t] = Waiting]
          BY <3>5 DEF QueryFails, Respond
        <4>2. Same(Waiting)
          OBVIOUS
        <4> HIDE DEF Same
        <4> QED BY <4>1, <4>2
      <3>6. PICK q : Same(q) /\ thread' = [thread EXCEPT ![t] = q]
        BY <1>2, <3>2, <3>3, <3>4, <3>5
      <3>7. thread'[t] = q /\ \A u \in Threads \ {t} : thread'[u] = thread[u]
        BY <3>6, <1>0
      <3> QED BY <3>6, <3>7
    <2>3. \A v \in Workers : worker'[v].rate = worker[v].rate
      <3>1. \A x, l : /\ [own EXCEPT !.lock = l].rate = own.rate
                      /\ [own EXCEPT !.cache = x].rate = own.rate
                      /\ [own EXCEPT !.at = x, !.lock = l].rate = own.rate
        BY <2>1 DEF ProcessTyped
      <3>2. \/ worker' = worker
            \/ \E p : worker' = [worker EXCEPT ![old.worker] = p] /\ p.rate = own.rate
        <4>1. CASE LookAtCache(t) \/ QuerySites(t) \/ CheckMember(t) \/ ReadRateClock(t) \/ Respond(t)
          BY <4>1 DEF LookAtCache, QuerySites, CheckMember, ReadRateClock, Respond
        <4>2. CASE TakeSiteLock(t) \/ QueryFails(t)
          <5>1. worker' = worker \/ \E l : SetOwn(t, [own EXCEPT !.lock = l])
            BY <4>2 DEF TakeSiteLock, QueryFails
          <5>2. ASSUME NEW l, SetOwn(t, [own EXCEPT !.lock = l])
                PROVE  \E p : worker' = [worker EXCEPT ![old.worker] = p] /\ p.rate = own.rate
            <6> DEFINE p == [own EXCEPT !.lock = l]
            <6>1. worker' = [worker EXCEPT ![old.worker] = p] /\ p.rate = own.rate
              BY <5>2, <3>1 DEF SetOwn
            <6> HIDE DEF p
            <6> QED BY <6>1
          <5> QED BY <5>1, <5>2
        <4>3. CASE PublishList(t)
          <5> DEFINE p == [own EXCEPT !.cache = old.fetched]
          <5>1. worker' = [worker EXCEPT ![old.worker] = p] /\ p.rate = own.rate
            BY <4>3, <3>1 DEF PublishList, SetOwn
          <5> HIDE DEF p
          <5> QED BY <5>1
        <4>4. CASE StampList(t)
          <5> DEFINE p == [own EXCEPT !.at = old.now, !.lock = FreeLock]
          <5>1. worker' = [worker EXCEPT ![old.worker] = p] /\ p.rate = own.rate
            BY <4>4, <3>1 DEF StampList, SetOwn
          <5> HIDE DEF p
          <5> QED BY <5>1
        <4> QED BY <1>2, <4>1, <4>2, <4>3, <4>4
      <3> QED BY <3>2, <2>1, <1>0
    <2>4. WellNamed'
      <3>1. setup \in Setups /\ WellNamed
        BY DEF FloodInv
      <3>2. \A u \in Threads :
               \/ thread'[u] = Waiting
               \/ thread[u] = Waiting /\ thread'[u] = Waiting
               \/ /\ thread[u] # Waiting /\ thread'[u].source = thread[u].source
                  /\ thread'[u].address = thread[u].address
        BY <2>1, <2>2
      <3> QED BY <3>1, <3>2, <1>0, StaysWellNamed
    <2> QED BY <1>0, <2>3, <2>4, FloodKept
  <1> QED BY <1>1, <1>2

\* What counting a hit does to the tables.
LEMMA CountedHit ==
  ASSUME GateTyped, ListInv, FloodInv, NEW t \in Threads, CountHit(t), Limit # 0,
         thread[t].address # NoAddress
  PROVE  LET w == thread[t].worker
             a == thread[t].source
             k == thread[t].address
             now == thread[t].now
             mine == Counted(worker[w].rate, k, now)
         IN  /\ w \in Workers /\ a \in Addresses /\ now \in Nat /\ now <= clock
             /\ lag'[w] \in lag[w]..Window
             /\ lag'[w] < Window => clock <= now + lag'[w]
             /\ k \in DOMAIN worker'[w].rate /\ worker'[w].rate[k] = mine
             /\ \A b : b # k =>
                   /\ b \in DOMAIN worker'[w].rate =>
                         b \in DOMAIN worker[w].rate /\ worker'[w].rate[b] = worker[w].rate[b]
                   /\ b \in DOMAIN worker[w].rate /\ b \notin DOMAIN worker'[w].rate =>
                         Elapsed(worker[w].rate[b][2], now) \/ lag'[w] = Window
             /\ passed' = IF mine[1] > Limit THEN passed
                          ELSE [passed EXCEPT ![w][a] = Append(@, clock)]
             /\ lag' = [lag EXCEPT ![w] = lag'[w]]
             /\ \A v \in Workers \ {w} : worker'[v] = worker[v]
             /\ worker'[w].rate = [b \in DOMAIN worker'[w].rate |-> worker'[w].rate[b]]
             /\ \A b \in DOMAIN worker'[w].rate : worker'[w].rate[b] \in Nat \X Nat
  <1> DEFINE old == thread[t]
             own == Own(t)
             w == old.worker
             a == old.source
             k == old.address
             now == old.now
             rate == own.rate
             mine == Counted(rate, k, now)
             with == [b \in DOMAIN rate \cup {k} |-> IF b = k THEN mine ELSE rate[b]]
             full == Cardinality(DOMAIN with) > setup.table
             trim == IF full THEN Purged(with, now) ELSE with
             over == Cardinality(DOMAIN trim) > setup.table
             new == IF over THEN Keep(with, {k}) ELSE trim
  <1>1. /\ old # Waiting /\ RequestTyped(old) /\ w \in Workers /\ ProcessTyped(own)
        /\ own = worker[w] /\ clock \in Nat /\ now \in Nat /\ RequestOk(old, own)
    <2>1. old.phase # "waiting"
      BY DEF CountHit, In
    <2> QED BY <2>1, RequestFacts DEF Own
  <1>2. now <= clock
    BY <1>1 DEF RequestOk
  <1>3. a \in Addresses
    BY <1>1, IngestGateAssumption DEF FloodInv, WellNamed
  <1>4. /\ lag \in [Workers -> 0..Window] /\ Window \in Nat \ {0} /\ Limit \in Nat
        /\ passed \in [Workers -> [Addresses -> Seq(Nat)]]
        /\ rate = [b \in DOMAIN rate |-> rate[b]]
        /\ \A b \in DOMAIN rate : rate[b] \in Nat \X Nat
        /\ worker = [v \in Workers |-> worker[v]]
    BY <1>1, IngestGateAssumption DEF FloodInv, RateTyped, GateTyped
  <1>5. /\ SetOwn(t, [own EXCEPT !.rate = new])
        /\ passed' = IF mine[1] > Limit THEN passed
                     ELSE [passed EXCEPT ![w][a] = Append(@, clock)]
        /\ lag' = [lag EXCEPT ![w] = IF over THEN Window ELSE Longest(@, clock - now)]
    BY <1>3 DEF CountHit
  <1> HIDE DEF new
  <1>6. /\ worker'[w].rate = new /\ \A v \in Workers \ {w} : worker'[v] = worker[v]
    <2> DEFINE p == [own EXCEPT !.rate = new]
    <2>1. p.rate = new
      BY <1>1 DEF ProcessTyped
    <2>2. worker' = [worker EXCEPT ![w] = p]
      BY <1>5 DEF SetOwn
    <2> HIDE DEF p
    <2> QED BY <2>1, <2>2, <1>1, <1>4
  <1>7. /\ lag'[w] \in lag[w]..Window /\ lag' = [lag EXCEPT ![w] = lag'[w]]
        /\ lag'[w] < Window => clock <= now + lag'[w]
        /\ over => lag'[w] = Window
    <2> HIDE DEF over
    <2>1. lag[w] \in Nat /\ lag[w] <= Window /\ clock - now \in Nat
      <3> HIDE DEF old, own, w, now, rate
      <3>1. lag[w] \in 0..Window
        BY <1>1, <1>4
      <3>2. clock - now \in Nat
        BY <1>1, <1>2
      <3> QED BY <1>4, <3>1, <3>2
    <2>2. /\ lag'[w] = IF over THEN Window ELSE Longest(lag[w], clock - now)
          /\ lag' = [lag EXCEPT ![w] = lag'[w]]
      BY <1>1, <1>4, <1>5
    <2>3. /\ Longest(lag[w], clock - now) \in lag[w]..Window
          /\ Longest(lag[w], clock - now) < Window => clock - now <= Longest(lag[w], clock - now)
      BY <2>1, <1>4 DEF Longest
    <2>4. lag'[w] \in lag[w]..Window /\ (lag'[w] < Window => clock - now <= lag'[w])
          /\ (over => lag'[w] = Window)
      BY <2>1, <2>2, <2>3, <1>4
    <2>5. lag'[w] \in Nat
      BY <2>1, <2>4, <1>4
    <2> QED BY <2>1, <2>2, <2>4, <2>5, <1>1, <1>2
  <1>8. mine \in Nat \X Nat /\ ~Elapsed(mine[2], now)
    <2>1. ~Elapsed(now, now)
      <3> HIDE DEF now
      <3>1. now \in Nat /\ Window \in Nat \ {0}
        BY <1>1, <1>4
      <3> QED BY <3>1 DEF Elapsed
    <2>2. CASE k \in DOMAIN rate /\ ~Elapsed(rate[k][2], now)
      <3>1. mine = <<rate[k][1] + 1, rate[k][2]>>
        BY <2>2 DEF Counted
      <3>2. rate[k][1] \in Nat /\ rate[k][2] \in Nat
        BY <2>2, <1>4
      <3> HIDE DEF mine
      <3> QED BY <3>1, <3>2, <2>2
    <2>3. CASE ~(k \in DOMAIN rate /\ ~Elapsed(rate[k][2], now))
      <3>1. mine = <<1, now>>
        BY <2>3 DEF Counted
      <3> HIDE DEF mine
      <3> QED BY <3>1, <2>1, <1>1
    <2> QED BY <2>2, <2>3
  <1> HIDE DEF mine
  <1>9. /\ k \in DOMAIN new /\ new[k] = mine
        /\ new = [b \in DOMAIN new |-> new[b]]
        /\ \A b \in DOMAIN new : b = k \/ (b \in DOMAIN rate /\ new[b] = rate[b])
        /\ \A b \in DOMAIN rate : b \in DOMAIN new \/ b = k \/ over \/ Elapsed(rate[b][2], now)
    <2>1. /\ DOMAIN with = DOMAIN rate \cup {k} /\ with[k] = mine
          /\ \A b \in DOMAIN rate \ {k} : with[b] = rate[b]
      OBVIOUS
    <2> HIDE DEF with, full
    <2>2. CASE over
      BY <2>1, <2>2 DEF new, Keep
    <2>3. CASE ~over /\ ~full
      <3>1. new = with /\ with = [b \in DOMAIN with |-> with[b]]
        BY <2>3 DEF new, with
      <3> QED BY <3>1, <2>1
    <2>4. CASE ~over /\ full
      <3>1. new = Keep(with, {b \in DOMAIN with : ~Elapsed(with[b][2], now)})
        BY <2>4 DEF new, Purged
      <3> HIDE DEF over
      <3> QED BY <3>1, <2>1, <1>8 DEF Keep
    <2> QED BY <2>2, <2>3, <2>4
  <1> HIDE DEF over
  <1>10. \A b \in DOMAIN new : new[b] \in Nat \X Nat
    BY <1>4, <1>8, <1>9
  <1>11. \A b : b # k =>
            /\ b \in DOMAIN new => b \in DOMAIN rate /\ new[b] = rate[b]
            /\ b \in DOMAIN rate /\ b \notin DOMAIN new =>
                  Elapsed(rate[b][2], now) \/ lag'[w] = Window
    BY <1>7, <1>9
  <1>12. /\ rate = worker[w].rate /\ new = worker'[w].rate
         /\ mine = Counted(worker[w].rate, k, now)
    BY <1>1, <1>6 DEF mine
  <1> HIDE DEF rate
  <1>13. /\ w \in Workers /\ a \in Addresses /\ now \in Nat
         /\ passed' = IF mine[1] > Limit THEN passed
                      ELSE [passed EXCEPT ![w][a] = Append(@, clock)]
    BY <1>1, <1>3, <1>5
  <1> HIDE DEF w, a, k, now, old, own
  <1>14. /\ k \in DOMAIN worker'[w].rate /\ worker'[w].rate[k] = mine
         /\ worker'[w].rate = [b \in DOMAIN worker'[w].rate |-> worker'[w].rate[b]]
    BY <1>9, <1>12
  <1>15. /\ \A b : b # k =>
                /\ b \in DOMAIN worker'[w].rate =>
                         b \in DOMAIN worker[w].rate /\ worker'[w].rate[b] = worker[w].rate[b]
                /\ b \in DOMAIN worker[w].rate /\ b \notin DOMAIN worker'[w].rate =>
                         Elapsed(worker[w].rate[b][2], now) \/ lag'[w] = Window
         /\ \A b \in DOMAIN worker'[w].rate : worker'[w].rate[b] \in Nat \X Nat
    BY <1>10, <1>11, <1>12
  <1> USE DEF w, a, k, now, old
  <1> QED BY <1>2, <1>6, <1>7, <1>12, <1>13, <1>14, <1>15

\* A hit that is counted.
LEMMA CountStep ==
  ASSUME GateTyped, ListInv, FloodInv, NEW t \in Threads, CountHit(t)
  PROVE  FloodInv'
  <1> DEFINE old == thread[t]
             w == old.worker
             a == old.source
             now == old.now
  <1>1. /\ UNCHANGED <<setup, clock>> /\ clock \in Nat /\ (Hardened' <=> Hardened)
        /\ setup \in Setups /\ WellNamed /\ RateTyped
        /\ old # Waiting /\ RequestTyped(old) /\ old.worker \in Workers
        /\ Own(t) = worker[w] /\ ProcessTyped(Own(t)) /\ worker = [v \in Workers |-> worker[v]]
    <2>1. old.phase # "waiting"
      BY DEF CountHit, In
    <2> QED BY <2>1, RequestFacts DEF CountHit, FloodInv, Hardened, GateTyped, Own
  <1>2. WellNamed'
    <2>1. PICK ph : thread' = [thread EXCEPT ![t] = [old EXCEPT !.phase = ph]]
      BY DEF CountHit, Step
    <2>2. [old EXCEPT !.phase = ph].source = old.source /\ [old EXCEPT !.phase = ph].address = old.address
      BY <1>1 DEF RequestTyped
    <2>3. \A u \in Threads : \/ thread'[u] = Waiting
                             \/ /\ thread[u] # Waiting /\ thread'[u].source = thread[u].source
                                /\ thread'[u].address = thread[u].address
      <3> DEFINE q == [old EXCEPT !.phase = ph]
      <3>1. thread' = [thread EXCEPT ![t] = q] /\ q.source = old.source /\ q.address = old.address
        BY <2>1, <2>2
      <3> HIDE DEF q
      <3>2. thread'[t] = q /\ \A u \in Threads \ {t} : thread'[u] = thread[u]
        BY <3>1 DEF GateTyped
      <3>3. \A u \in Threads : thread[u] = Waiting => u # t
        BY <1>1
      <3> QED BY <3>1, <3>2, <3>3, <1>1
    <2> QED BY <1>1, <2>3, StaysWellNamed
  <1>3. CASE Limit = 0 \/ old.address = NoAddress
    <2>1. UNCHANGED <<worker, passed, lag>>
      BY <1>3 DEF CountHit
    <2> QED BY <1>1, <1>2, <2>1, FloodKept
  <1>4. CASE Limit # 0 /\ old.address # NoAddress
    <2> DEFINE k == old.address
               mine == Counted(worker[w].rate, k, now)
    <2>1. /\ w \in Workers /\ a \in Addresses /\ now \in Nat /\ now <= clock
          /\ lag'[w] \in lag[w]..Window
          /\ lag'[w] < Window => clock <= now + lag'[w]
          /\ k \in DOMAIN worker'[w].rate /\ worker'[w].rate[k] = mine
          /\ \A b : b # k =>
                /\ b \in DOMAIN worker'[w].rate =>
                      b \in DOMAIN worker[w].rate /\ worker'[w].rate[b] = worker[w].rate[b]
                /\ b \in DOMAIN worker[w].rate /\ b \notin DOMAIN worker'[w].rate =>
                      Elapsed(worker[w].rate[b][2], now) \/ lag'[w] = Window
          /\ passed' = IF mine[1] > Limit THEN passed
                       ELSE [passed EXCEPT ![w][a] = Append(@, clock)]
          /\ lag' = [lag EXCEPT ![w] = lag'[w]]
          /\ \A v \in Workers \ {w} : worker'[v] = worker[v]
          /\ worker'[w].rate = [b \in DOMAIN worker'[w].rate |-> worker'[w].rate[b]]
          /\ \A b \in DOMAIN worker'[w].rate : worker'[w].rate[b] \in Nat \X Nat
      BY <1>4, CountedHit
    <2>2. /\ Window \in Nat \ {0} /\ Limit \in Nat /\ lag \in [Workers -> 0..Window]
          /\ passed \in [Workers -> [Addresses -> Seq(Nat)]]
          /\ \A v \in Workers : \A b \in DOMAIN worker[v].rate : worker[v].rate[b] \in Nat \X Nat
      BY <1>1, IngestGateAssumption DEF RateTyped
    <2> HIDE DEF w, a, k, now, old, mine
    <2>3. /\ passed' \in [Workers -> [Addresses -> Seq(Nat)]]
          /\ \A v \in Workers, b \in Addresses :
                v # w \/ b # a => passed'[v][b] = passed[v][b]
          /\ passed'[w][a] = IF mine[1] > Limit THEN passed[w][a] ELSE Append(passed[w][a], clock)
      <3>1. Append(passed[w][a], clock) \in Seq(Nat)
        BY <1>1, <2>1, <2>2
      <3>2. CASE mine[1] > Limit
        BY <2>1, <2>2, <3>2
      <3>3. CASE ~(mine[1] > Limit)
        <4>1. passed' = [passed EXCEPT ![w] = [passed[w] EXCEPT ![a] = Append(passed[w][a], clock)]]
          BY <2>1, <3>3
        <4> DEFINE q == Append(passed[w][a], clock)
        <4> HIDE DEF q
        <4>2. passed' = [passed EXCEPT ![w] = [passed[w] EXCEPT ![a] = q]] /\ q \in Seq(Nat)
          BY <4>1, <3>1 DEF q
        <4>3. /\ passed' \in [Workers -> [Addresses -> Seq(Nat)]] /\ passed'[w][a] = q
              /\ \A v \in Workers, b \in Addresses :
                    v # w \/ b # a => passed'[v][b] = passed[v][b]
          BY <4>2, <2>1, <2>2
        <4> QED BY <4>3, <3>3 DEF q
      <3> QED BY <3>2, <3>3
    <2>4. lag' \in [Workers -> 0..Window] /\ \A v \in Workers \ {w} : lag'[v] = lag[v]
      <3>1. lag'[w] \in 0..Window
        BY <2>1, <2>2
      <3> QED BY <3>1, <2>1, <2>2
    <2>5. RateTyped'
      <3>1. \A v \in Workers :
              /\ worker'[v].rate = [b \in DOMAIN worker'[v].rate |-> worker'[v].rate[b]]
              /\ \A b \in DOMAIN worker'[v].rate : worker'[v].rate[b] \in Nat \X Nat
        <4>1. SUFFICES ASSUME NEW v \in Workers
                       PROVE  /\ worker'[v].rate = [b \in DOMAIN worker'[v].rate |-> worker'[v].rate[b]]
                              /\ \A b \in DOMAIN worker'[v].rate : worker'[v].rate[b] \in Nat \X Nat
          OBVIOUS
        <4>2. CASE v = w
          BY <2>1, <4>2
        <4>3. CASE v # w
          <5>1. worker'[v] = worker[v]
            BY <2>1, <4>3
          <5> QED BY <1>1, <5>1 DEF RateTyped
        <4> QED BY <4>2, <4>3
      <3> QED BY <2>3, <2>4, <3>1 DEF RateTyped
    <2>6. ASSUME Hardened, NEW v \in Workers, NEW b \in Addresses
          PROVE  /\ ClientInv(worker'[v].rate, b, passed'[v][b], lag'[v], clock)
                 /\ Spaced(passed'[v][b], lag'[v])
      <3> DEFINE p == passed[v][b]
                 rate == worker[v].rate
                 later == lag'[v]
      <3>1. ClientInv(rate, b, p, lag[v], clock) /\ Spaced(p, lag[v]) /\ k = a
        BY <1>1, <1>4, <2>6 DEF FloodInv, FloodIsBounded, WellNamed, w, a, k, old
      <3>2. p \in Seq(Nat) /\ lag[v] \in 0..Window /\ later \in lag[v]..Window
        <4>1. p \in Seq(Nat) /\ lag[v] \in 0..Window
          BY <2>2
        <4>2. CASE v = w
          BY <2>1, <4>1, <4>2
        <4>3. CASE v # w
          <5>1. later = lag[v]
            BY <2>4, <4>3
          <5> QED BY <4>1, <5>1, <2>2
        <4> QED BY <4>2, <4>3
      <3>3. /\ \A i \in DOMAIN p : p[i] <= clock
            /\ b \in DOMAIN rate => rate[b] \in Nat \X Nat
               /\ \E n \in 0..Len(p), c \in 0..clock : WindowOf(rate[b], p, n, c, lag[v])
            /\ b \notin DOMAIN rate => OlderThan(p, Len(p), clock, lag[v])
        BY <3>1, <2>2 DEF ClientInv
      <3>4. OlderThan(p, Len(p), clock, lag[v]) => OlderThan(p, Len(p), clock, later)
        <4>1. \A i \in DOMAIN p : p[i] \in Nat
          BY <3>2
        <4> HIDE DEF p, later
        <4> QED BY <3>2, <4>1, <2>2, <1>1 DEF OlderThan
      <3>5. Spaced(p, later)
        BY <3>1, <3>2, SpacedLater
      <3> HIDE DEF p, rate, later
      <3>6. CASE v # w \/ b # a
        <4>1. passed'[v][b] = p
          BY <2>3, <3>6 DEF p
        <4>2. CASE b \in DOMAIN worker'[v].rate
          <5>1. b \in DOMAIN rate /\ worker'[v].rate[b] = rate[b]
            BY <2>1, <3>1, <3>6, <4>2 DEF rate
          <5>2. PICK n \in 0..Len(p), c \in 0..clock : WindowOf(rate[b], p, n, c, lag[v])
            BY <3>3, <5>1
          <5>3. WindowOf(rate[b], p, n, c, later)
            BY <3>2, <3>3, <5>1, <5>2, <1>1, WindowIsKept
          <5> QED BY <3>3, <3>5, <4>1, <4>2, <5>1, <5>3 DEF ClientInv, later
        <4>3. CASE b \notin DOMAIN worker'[v].rate
          <5>1. OlderThan(p, Len(p), clock, later)
            <6>1. CASE b \notin DOMAIN rate
              BY <6>1, <3>3, <3>4
            <6>2. CASE b \in DOMAIN rate
              <7>1. v = w /\ (Elapsed(rate[b][2], now) \/ later = Window)
                BY <2>1, <3>1, <3>6, <4>3, <6>2 DEF rate, later
              <7>2. PICK n \in 0..Len(p), c \in 0..clock : WindowOf(rate[b], p, n, c, lag[v])
                BY <3>3, <6>2
              <7>3. n \in Nat /\ c \in Nat /\ c <= clock
                BY <3>2, <7>2, <1>1
              <7> QED BY <7>1, <7>2, <7>3, <6>2, <3>2, <3>3, <2>1, <1>1, WindowEnds
            <6> QED BY <6>1, <6>2
          <5> QED BY <3>3, <3>5, <4>1, <4>3, <5>1 DEF ClientInv, later
        <4> QED BY <4>2, <4>3
      <3>7. CASE v = w /\ b = a
        <4> DEFINE q == IF mine[1] > Limit THEN p ELSE Append(p, clock)
        <4>1. /\ passed'[v][b] = q /\ b \in DOMAIN worker'[v].rate /\ worker'[v].rate[b] = mine
              /\ mine = Counted(rate, b, now) /\ (later < Window => clock <= now + later)
          BY <2>1, <2>3, <3>1, <3>7 DEF p, rate, later, mine
        <4>2. PICK n \in 0..Len(p), c \in 0..clock : WindowOf(mine, q, n, c, later)
          <5>1. CASE b \in DOMAIN rate /\ ~Elapsed(rate[b][2], now)
            <6>1. mine = <<rate[b][1] + 1, rate[b][2]>>
              BY <4>1, <5>1 DEF Counted
            <6>2. PICK n \in 0..Len(p), c \in 0..clock : WindowOf(rate[b], p, n, c, lag[v])
              BY <3>3, <5>1
            <6>3. WindowOf(rate[b], p, n, c, later) /\ n \in Nat /\ c \in Nat /\ later \in 0..Window
              BY <3>2, <3>3, <5>1, <6>2, <1>1, WindowIsKept
            <6>4. /\ WindowOf(mine, p, n, c, later)
                  /\ rate[b][1] + 1 <= Limit => WindowOf(mine, Append(p, clock), n, c, later)
              BY <3>2, <3>3, <5>1, <6>1, <6>2, <6>3, <1>1, WindowGoesOn
            <6>5. mine[1] = rate[b][1] + 1 /\ rate[b][1] \in Nat
              BY <3>3, <5>1, <6>1
            <6>6. mine[1] > Limit \/ rate[b][1] + 1 <= Limit
              BY <6>5, <2>2
            <6> QED BY <6>2, <6>4, <6>6
          <5>2. CASE ~(b \in DOMAIN rate /\ ~Elapsed(rate[b][2], now))
            <6>1. mine = <<1, now>>
              BY <4>1, <5>2 DEF Counted
            <6>2. OlderThan(p, Len(p), clock, later)
              <7>1. CASE b \notin DOMAIN rate
                BY <7>1, <3>3, <3>4
              <7>2. CASE b \in DOMAIN rate
                <8>1. PICK n \in 0..Len(p), c \in 0..clock : WindowOf(rate[b], p, n, c, lag[v])
                  BY <3>3, <7>2
                <8>2. n \in Nat /\ c \in Nat /\ c <= clock
                  BY <3>2, <8>1, <1>1
                <8> QED BY <5>2, <7>2, <8>1, <8>2, <3>2, <3>3, <2>1, <1>1, WindowEnds
              <7> QED BY <7>1, <7>2
            <6>3. later \in 0..Window
              BY <3>2, <2>2
            <6>4. WindowOf(mine, Append(p, clock), Len(p), clock, later)
              BY <6>1, <6>2, <6>3, <4>1, <3>2, <3>3, <2>1, <1>1, <1>4, WindowBegins
            <6>5. ~(mine[1] > Limit)
              BY <6>1, <2>2, <1>4
            <6>6. Len(p) \in 0..Len(p) /\ clock \in 0..clock
              BY <3>2, <1>1
            <6> QED BY <6>4, <6>5, <6>6
          <5> QED BY <5>1, <5>2
        <4>3. later \in 0..Window /\ n \in Nat /\ c \in Nat /\ c <= clock /\ Len(p) \in Nat
          BY <3>2, <4>2, <2>2, <1>1
        <4>4. Spaced(q, later)
          <5>1. CASE mine[1] > Limit
            BY <5>1, <3>5
          <5>2. CASE ~(mine[1] > Limit)
            BY <5>2, <3>2, <3>5, <4>2, <4>3, <1>1, StaysSpaced
          <5> QED BY <5>1, <5>2
        <4>5. Len(p) <= Len(q) /\ Len(q) \in Nat /\ \A i \in DOMAIN q : q[i] <= clock
          BY SMTT(20), <3>2, <3>3, <1>1
        <4>6. n \in 0..Len(q)
          BY <4>2, <4>3, <4>5
        <4> HIDE DEF q
        <4> QED BY <4>1, <4>2, <4>4, <4>5, <4>6 DEF ClientInv, later
      <3> QED BY <3>6, <3>7
    <2>7. FloodIsBounded'
      BY <1>1, <2>6 DEF FloodIsBounded
    <2> QED BY <1>1, <1>2, <2>5, <2>6, <2>7 DEF FloodInv
  <1> QED BY <1>3, <1>4

\* A process that restarts has no tables, and its requests are gone.
LEMMA RestartClearsTables ==
  ASSUME GateTyped, FloodInv, NEW w \in Workers, RestartWorker(w)
  PROVE  FloodInv'
  <1>1. /\ UNCHANGED <<setup, clock>> /\ clock \in Nat /\ (Hardened' <=> Hardened)
        /\ setup \in Setups /\ WellNamed /\ RateTyped
        /\ worker' = [worker EXCEPT ![w] = FreshProcess]
        /\ passed' = [passed EXCEPT ![w] = NothingPassed] /\ lag' = [lag EXCEPT ![w] = 0]
        /\ \A u \in Threads : thread'[u] = Waiting \/ thread'[u] = thread[u]
        /\ worker = [v \in Workers |-> worker[v]]
    BY DEF RestartWorker, FloodInv, GateTyped, Hardened
  <1>2. /\ lag \in [Workers -> 0..Window] /\ Window \in Nat \ {0} /\ Limit \in Nat
        /\ passed \in [Workers -> [Addresses -> Seq(Nat)]]
    BY <1>1, IngestGateAssumption DEF RateTyped
  <1>3. WellNamed'
    BY <1>1 DEF WellNamed, Hardened
  <1>4. /\ NothingPassed \in [Addresses -> Seq(Nat)]
        /\ \A a \in Addresses : NothingPassed[a] = <<>>
        /\ FreshProcess.rate = [b \in {} |-> <<0, 0>>]
    BY DEF NothingPassed, FreshProcess
  <1>5. /\ lag' \in [Workers -> 0..Window] /\ passed' \in [Workers -> [Addresses -> Seq(Nat)]]
        /\ lag'[w] = 0 /\ passed'[w] = NothingPassed /\ worker'[w] = FreshProcess
        /\ \A v \in Workers \ {w} :
              lag'[v] = lag[v] /\ passed'[v] = passed[v] /\ worker'[v] = worker[v]
    BY <1>1, <1>2, <1>4
  <1>6. RateTyped'
    <2>1. \A v \in Workers :
            /\ worker'[v].rate = [b \in DOMAIN worker'[v].rate |-> worker'[v].rate[b]]
            /\ \A b \in DOMAIN worker'[v].rate : worker'[v].rate[b] \in Nat \X Nat
      <3>1. SUFFICES ASSUME NEW v \in Workers
                     PROVE  /\ worker'[v].rate = [b \in DOMAIN worker'[v].rate |-> worker'[v].rate[b]]
                            /\ \A b \in DOMAIN worker'[v].rate : worker'[v].rate[b] \in Nat \X Nat
        OBVIOUS
      <3>2. CASE v = w
        BY <1>4, <1>5, <3>2
      <3>3. CASE v # w
        <4>1. worker'[v] = worker[v]
          BY <1>5, <3>3
        <4> QED BY <1>1, <4>1 DEF RateTyped
      <3> QED BY <3>2, <3>3
    <2> QED BY <2>1, <1>5 DEF RateTyped
  <1>7. ASSUME Limit # 0, Hardened, NEW v \in Workers, NEW a \in Addresses
        PROVE  /\ ClientInv(worker'[v].rate, a, passed'[v][a], lag'[v], clock)
               /\ Spaced(passed'[v][a], lag'[v])
    <2>1. CASE v = w
      <3>1. passed'[v][a] = <<>> /\ a \notin DOMAIN worker'[v].rate
        BY <1>4, <1>5, <2>1
      <3> QED BY <3>1 DEF ClientInv, OlderThan, Spaced
    <2>2. CASE v # w
      BY <1>5, <1>7, <2>2 DEF FloodInv, FloodIsBounded
    <2> QED BY <2>1, <2>2
  <1>8. FloodIsBounded'
    BY <1>1, <1>7 DEF FloodIsBounded
  <1> QED BY <1>1, <1>3, <1>6, <1>7, <1>8 DEF FloodInv

\* At the boot nothing has passed.
LEMMA FloodInit == InitGate => FloodInv
  <1> SUFFICES ASSUME InitGate PROVE FloodInv
    OBVIOUS
  <1>1. /\ setup \in Setups /\ clock = 0 /\ worker = [w \in Workers |-> FreshProcess]
        /\ thread = [t \in Threads |-> Waiting] /\ passed = [w \in Workers |-> NothingPassed]
        /\ lag = [w \in Workers |-> 0]
    BY DEF InitGate
  <1>2. /\ NothingPassed \in [Addresses -> Seq(Nat)]
        /\ \A a \in Addresses : NothingPassed[a] = <<>>
        /\ FreshProcess.rate = [b \in {} |-> <<0, 0>>]
    BY DEF NothingPassed, FreshProcess
  <1>3. RateTyped
    <2>1. passed \in [Workers -> [Addresses -> Seq(Nat)]] /\ lag \in [Workers -> 0..Window]
      BY <1>1, <1>2, IngestGateAssumption
    <2> QED BY <1>1, <1>2, <2>1 DEF RateTyped
  <1>4. \A w \in Workers, a \in Addresses :
          /\ ClientInv(worker[w].rate, a, passed[w][a], lag[w], clock)
          /\ Spaced(passed[w][a], lag[w])
    BY <1>1, <1>2 DEF ClientInv, OlderThan, Spaced
  <1> QED BY <1>1, <1>3, <1>4 DEF FloodInv, WellNamed, FloodIsBounded

\* The limiter's invariant, on every host, whatever its clients send.
THEOREM FloodHolds == GateSpec => []FloodInv
  <1>1. FloodInv /\ GateTyped /\ SitesInv /\ ListInv /\ [NextGate]_gateVars => FloodInv'
    <2> SUFFICES ASSUME FloodInv, GateTyped, SitesInv, ListInv, [NextGate]_gateVars
                 PROVE  FloodInv'
      OBVIOUS
    <2>1. ASSUME NEW t \in Threads, CountHit(t)
          PROVE  FloodInv'
      BY <2>1, CountStep
    <2>2. ASSUME NEW t \in Threads,
                 \/ Receive(t) \/ LookAtCache(t) \/ TakeSiteLock(t) \/ QuerySites(t) \/ QueryFails(t)
                 \/ PublishList(t) \/ StampList(t) \/ CheckMember(t) \/ ReadRateClock(t) \/ Respond(t)
          PROVE  FloodInv'
      BY <2>2, QuietRequestStep
    <2>3. ASSUME NEW w \in Workers, RestartWorker(w)
          PROVE  FloodInv'
      BY <2>3, RestartClearsTables
    <2>4. CASE Tick \/ (\E s \in GateSites : CreateWebsite(s) \/ SoftDeleteWebsite(s)) \/ UNCHANGED gateVars
      <3>1. UNCHANGED <<setup, worker, thread, passed, lag>> /\ clock' \in {clock, clock + 1}
        BY <2>4 DEF Tick, CreateWebsite, SoftDeleteWebsite, SetSite, gateVars
      <3>2. clock \in Nat /\ clock' \in Nat /\ clock <= clock'
        BY <3>1 DEF GateTyped
      <3>3. WellNamed'
        BY <3>1 DEF FloodInv, WellNamed, Hardened
      <3> QED BY <3>1, <3>2, <3>3, FloodKept
    <2> QED BY <2>1, <2>2, <2>3, <2>4 DEF NextGate, NextHit
  <1> QED BY <1>1, FloodInit, GateHolds, PTL DEF GateSpec

\* However many requests a client sends, and whatever it writes in their headers,
\* a worker lets no more than two limits of them through in a window, less the
\* longest a thread waited for the table's lock.
THEOREM FloodsAreBounded == GateSpec => []FloodIsBounded
  <1>1. FloodInv => FloodIsBounded
    BY DEF FloodInv
  <1> QED BY <1>1, FloodHolds, PTL

-----------------------------------------------------------------------------
(***************************************************************************)
(* The browser tracker (TrackerTab).                                       *)
(*                                                                         *)
(* As long as nothing overtakes a pending timer, the tracker either knows  *)
(* the page shown, and then at most one view of it is still to be sent, or *)
(* the first timer in the queue will tell it, and then none is.  Time      *)
(* accrues for the page it knows, which it leaves half a second late at    *)
(* most, because a timer fires before the next tick is over.               *)
(***************************************************************************)

TabInv == TabTyped /\ NavigationInv /\ CountInv /\ TimeInv

\* The closure variables at an instant, and the time they have counted by then.
TabShape(t, now) ==
  /\ t = [f \in {"enabled", "welcome", "listening", "loaded", "visible", "current",
                 "active", "since", "last", "page"} |-> t[f]]
  /\ \A f \in {"enabled", "welcome", "listening", "loaded", "visible"} : t[f] \in BOOLEAN
  /\ t.active \in Nat /\ t.since \in 0..now
ActiveAt(t, now) == t.active + (IF t.since = NoTime THEN 0 ELSE now - t.since)

\* What stays when a report is made or a page begins.
SameSwitches(s, t) ==
  /\ s.enabled = t.enabled /\ s.welcome = t.welcome
  /\ s.listening = t.listening /\ s.loaded = t.loaded

\* Rounding to seconds keeps the order.
LEMMA RoundIsMonotone ==
  ASSUME NEW a \in Nat, NEW b \in Nat, a <= b
  PROVE  Round(a) \in Nat /\ Round(b) \in Nat /\ Round(a) <= Round(b)
  BY DEF Round

\* A queue that is not empty has a first element and a rest, whose elements are
\* the others in their order.
LEMMA QueueHasAHead ==
  ASSUME NEW S, NEW s \in Seq(S), s # <<>>
  PROVE  /\ 1 \in DOMAIN s /\ s[1] = Head(s) /\ s[1] \in S
         /\ Tail(s) \in Seq(S)
         /\ \A i \in DOMAIN Tail(s) : i \in Nat \ {0} /\ i + 1 \in DOMAIN s /\ Tail(s)[i] = s[i + 1]
         /\ \A i \in DOMAIN s : i = 1 \/ (i - 1 \in DOMAIN Tail(s) /\ s[i] = Tail(s)[i - 1])
  <1>1. Len(s) \in Nat \ {0} /\ DOMAIN s = 1..Len(s)
    OBVIOUS
  <1>2. Len(Tail(s)) = Len(s) - 1 /\ DOMAIN Tail(s) = 1..(Len(s) - 1)
    BY <1>1
  <1>3. \A i \in 1..(Len(s) - 1) : Tail(s)[i] = s[i + 1]
    BY <1>1
  <1> QED BY <1>1, <1>2, <1>3

\* A queue to which an element is added keeps the others in their places.
LEMMA QueueGrows ==
  ASSUME NEW S, NEW s \in Seq(S), NEW x \in S
  PROVE  /\ Append(s, x) \in Seq(S) /\ Append(s, x) # <<>>
         /\ \A i \in DOMAIN s : i \in DOMAIN Append(s, x) /\ Append(s, x)[i] = s[i]
         /\ \A i \in DOMAIN Append(s, x) : (i \in DOMAIN s /\ Append(s, x)[i] = s[i]) \/ Append(s, x)[i] = x
         /\ Len(s) + 1 \in DOMAIN Append(s, x) /\ Append(s, x)[Len(s) + 1] = x
         /\ \A i \in DOMAIN Append(s, x) : i \in DOMAIN s \/ i = Len(s) + 1
  <1>1. DOMAIN s = 1..Len(s) /\ DOMAIN Append(s, x) = 1..(Len(s) + 1) /\ Len(s) \in Nat
    OBVIOUS
  <1>2. \A i \in 1..Len(s) : Append(s, x)[i] = s[i]
    OBVIOUS
  <1>3. Append(s, x)[Len(s) + 1] = x
    OBVIOUS
  <1> QED BY <1>1, <1>2, <1>3

\* The helpers on closure variables: what they keep and what they set.
LEMMA TabHelpers ==
  ASSUME tick \in Nat \ {0}, NEW t, TabShape(t, tick)
  PROVE  /\ ActiveTicks(t) = ActiveAt(t, tick) /\ ActiveTicks(t) \in Nat
         /\ TabShape(Reported(t), tick) /\ SameSwitches(Reported(t), t)
         /\ Reported(t).visible = t.visible /\ Reported(t).current = t.current
         /\ Reported(t).active = t.active /\ Reported(t).since = t.since
         /\ TabShape(StopActive(t), tick) /\ SameSwitches(StopActive(t), t)
         /\ StopActive(t).visible = t.visible /\ StopActive(t).current = t.current
         /\ StopActive(t).active = ActiveTicks(t) /\ StopActive(t).since = NoTime
         /\ TabShape(ResetActive(t), tick) /\ SameSwitches(ResetActive(t), t)
         /\ ResetActive(t).visible = t.visible /\ ResetActive(t).current = t.current
         /\ ActiveAt(ResetActive(t), tick) = 0
         /\ ~t.visible => ResetActive(t).since = NoTime
         /\ \A url : LET s == [t EXCEPT !.current = url]
                     IN  /\ TabShape(s, tick) /\ SameSwitches(s, t) /\ s.current = url
                         /\ s.visible = t.visible /\ s.active = t.active /\ s.since = t.since
         /\ \A v \in BOOLEAN : LET s == [t EXCEPT !.visible = v]
                     IN  /\ TabShape(s, tick) /\ SameSwitches(s, t) /\ s.current = t.current
                         /\ s.visible = v /\ s.active = t.active /\ s.since = t.since
  <1>1. ActiveTicks(t) = ActiveAt(t, tick) /\ ActiveTicks(t) \in Nat
    BY DEF ActiveTicks, ActiveAt, TabShape, NoTime
  <1>2. /\ TabShape(Reported(t), tick) /\ SameSwitches(Reported(t), t)
        /\ Reported(t).visible = t.visible /\ Reported(t).current = t.current
        /\ Reported(t).active = t.active /\ Reported(t).since = t.since
    <2>1. CASE ~Due(t)
      BY <2>1 DEF Reported, SameSwitches
    <2>2. CASE Due(t)
      <3> DEFINE n == Round(ActiveTicks(t))
      <3>1. Reported(t) = [t EXCEPT !.last = n]
        BY <2>2 DEF Reported
      <3> HIDE DEF n
      <3> QED BY <3>1 DEF TabShape, SameSwitches
    <2> QED BY <2>1, <2>2
  <1>3. /\ TabShape(StopActive(t), tick) /\ SameSwitches(StopActive(t), t)
        /\ StopActive(t).visible = t.visible /\ StopActive(t).current = t.current
        /\ StopActive(t).active = ActiveTicks(t) /\ StopActive(t).since = NoTime
    <2> DEFINE n == ActiveTicks(t)
    <2>1. StopActive(t) = [t EXCEPT !.active = n, !.since = 0] /\ n \in Nat
      BY <1>1 DEF StopActive, NoTime
    <2> DEFINE s == StopActive(t)
    <2> HIDE DEF n, s
    <2>2. s = [t EXCEPT !.active = n, !.since = 0] /\ n \in Nat
      BY <2>1 DEF s
    <2>3. /\ s.active = n /\ s.since = 0 /\ s.visible = t.visible /\ s.current = t.current
          /\ s.enabled = t.enabled /\ s.welcome = t.welcome /\ s.listening = t.listening
          /\ s.loaded = t.loaded
      BY <2>2 DEF TabShape
    <2>4. TabShape(s, tick)
      <3>1. s = [f \in {"enabled", "welcome", "listening", "loaded", "visible", "current",
                        "active", "since", "last", "page"} |-> s[f]]
        BY <2>2 DEF TabShape
      <3>2. \A f \in {"enabled", "welcome", "listening", "loaded", "visible"} : s[f] \in BOOLEAN
        BY <2>3 DEF TabShape
      <3>3. s.active \in Nat /\ s.since \in 0..tick
        BY <2>2, <2>3
      <3> QED BY <3>1, <3>2, <3>3 DEF TabShape
    <2> QED BY <2>3, <2>4 DEF SameSwitches, NoTime, n, s
  <1>4. /\ TabShape(ResetActive(t), tick) /\ SameSwitches(ResetActive(t), t)
        /\ ResetActive(t).visible = t.visible /\ ResetActive(t).current = t.current
        /\ ResetActive(t).active = 0 /\ ResetActive(t).since \in {0, tick}
        /\ ~t.visible => ResetActive(t).since = NoTime
    <2> DEFINE n == IF t.visible THEN tick ELSE NoTime
    <2>1. ResetActive(t) = [t EXCEPT !.page = t.page + 1, !.last = 0, !.active = 0, !.since = n]
      BY DEF ResetActive
    <2>2. n \in {0, tick} /\ (~t.visible => n = NoTime)
      BY DEF NoTime
    <2> DEFINE s == ResetActive(t)
    <2> HIDE DEF n, s
    <2>3. s = [t EXCEPT !.page = t.page + 1, !.last = 0, !.active = 0, !.since = n]
      BY <2>1 DEF s
    <2>4. /\ s.active = 0 /\ s.since = n /\ s.visible = t.visible /\ s.current = t.current
          /\ s.enabled = t.enabled /\ s.welcome = t.welcome /\ s.listening = t.listening
          /\ s.loaded = t.loaded
      BY <2>3 DEF TabShape
    <2>5. TabShape(s, tick)
      <3>1. s = [f \in {"enabled", "welcome", "listening", "loaded", "visible", "current",
                        "active", "since", "last", "page"} |-> s[f]]
        BY <2>3 DEF TabShape
      <3>2. \A f \in {"enabled", "welcome", "listening", "loaded", "visible"} : s[f] \in BOOLEAN
        BY <2>4 DEF TabShape
      <3>3. s.active \in Nat /\ s.since \in 0..tick
        BY <2>2, <2>4
      <3> QED BY <3>1, <3>2, <3>3 DEF TabShape
    <2> QED BY <2>2, <2>4, <2>5 DEF SameSwitches, s
  <1>5. ActiveAt(ResetActive(t), tick) = 0
    BY <1>4 DEF ActiveAt, NoTime
  <1>6. \A url : LET s == [t EXCEPT !.current = url]
                 IN  /\ TabShape(s, tick) /\ SameSwitches(s, t) /\ s.current = url
                     /\ s.visible = t.visible /\ s.active = t.active /\ s.since = t.since
    BY DEF TabShape, SameSwitches
  <1>7. \A v \in BOOLEAN : LET s == [t EXCEPT !.visible = v]
                 IN  /\ TabShape(s, tick) /\ SameSwitches(s, t) /\ s.current = t.current
                     /\ s.visible = v /\ s.active = t.active /\ s.since = t.since
    BY DEF TabShape, SameSwitches
  <1> QED BY <1>1, <1>2, <1>3, <1>4, <1>5, <1>6, <1>7

\* A new page, after the report on the one before.
LEMMA NextPageBegins ==
  ASSUME tick \in Nat \ {0}, NEW t, TabShape(t, tick), NEW url
  PROVE  LET s == [NextPage(t) EXCEPT !.current = url]
         IN  /\ TabShape(s, tick) /\ SameSwitches(s, t) /\ s.current = url
             /\ s.visible = t.visible /\ ActiveAt(s, tick) = 0
             /\ ~t.visible => s.since = NoTime
  <1> DEFINE r == Reported(t)
             n == ResetActive(r)
             s == [n EXCEPT !.current = url]
  <1>1. TabShape(r, tick) /\ SameSwitches(r, t) /\ r.visible = t.visible
    BY TabHelpers
  <1>2. /\ TabShape(n, tick) /\ SameSwitches(n, r) /\ n.visible = r.visible
        /\ ActiveAt(n, tick) = 0 /\ (~r.visible => n.since = NoTime)
    BY <1>1, TabHelpers
  <1>3. /\ TabShape(s, tick) /\ SameSwitches(s, n) /\ s.current = url
        /\ s.visible = n.visible /\ s.active = n.active /\ s.since = n.since
    <2> HIDE DEF n
    <2> QED BY <1>2 DEF TabShape, SameSwitches
  <1>4. ActiveAt(s, tick) = 0
    BY <1>2, <1>3 DEF ActiveAt
  <1>5. NextPage(t) = n
    BY DEF NextPage
  <1> HIDE DEF r, n, s
  <1>6. SameSwitches(s, t) /\ s.visible = t.visible /\ (~t.visible => s.since = NoTime)
    BY <1>1, <1>2, <1>3 DEF SameSwitches
  <1> QED BY <1>3, <1>4, <1>5, <1>6 DEF s

\* Nothing that is sent while calm reports more than the page was visible.
LEMMA ReportsAreBounded ==
  ASSUME TabInv, calm, Watching, NEW t, ActiveTicks(t) = ActiveTicks(tab),
         t.current = tab.current, SendEngagement(t), beacon' # NoBeacon
  PROVE  beacon'.seconds <= beacon'.longest
  <1>1. CASE ~Due(t)
    BY <1>1 DEF SendEngagement, TabInv, TimeInv, TimeIsOfItsPage
  <1>2. CASE Due(t)
    <2> DEFINE a == ActiveTicks(tab)
    <2>1. beacon'.seconds = Round(a) /\ beacon'.longest = LongestFor(tab.current)
      BY <1>2 DEF SendEngagement
    <2>2. /\ tick \in Nat \ {0} /\ TabShape(tab, tick)
          /\ shown.ticks \in Nat /\ shown.ticksBefore \in Nat /\ shown.page = location
      BY DEF TabInv, TabTyped, TabShape
    <2>3. a \in Nat
      BY <2>2, TabHelpers
    <2>4. CASE tab.current = location
      <3>1. a <= shown.ticks /\ LongestFor(tab.current) = Round(shown.ticks)
        BY <2>2, <2>4 DEF TabInv, TimeInv, LongestFor
      <3> HIDE DEF a
      <3> QED BY <2>1, <2>2, <2>3, <3>1, RoundIsMonotone
    <2>5. CASE tab.current # location
      <3>1. tab.current = shown.before /\ a + timers[1].at <= shown.ticksBefore + tick
        BY <2>5 DEF TabInv, TimeInv
      <3>2. timers \in Seq([kind : {"send", "pop"}, at : Nat]) /\ timers # <<>>
        BY <2>5 DEF TabInv, TabTyped, NavigationInv
      <3>3. 1 \in DOMAIN timers /\ timers[1].at \in Nat
        <4> DEFINE S == [kind : {"send", "pop"}, at : Nat]
        <4>0. timers \in Seq(S)
          BY <3>2
        <4> HIDE DEF S
        <4>1. 1 \in DOMAIN timers /\ timers[1] \in S
          BY <3>2, <4>0, QueueHasAHead
        <4> USE DEF S
        <4> QED BY <4>1
      <3>4. tick <= timers[1].at + 1
        BY <3>3 DEF TabInv, TimeInv
      <3> HIDE DEF a
      <3>5. a <= shown.ticksBefore + 1 /\ shown.ticksBefore + 1 \in Nat
        BY <2>2, <2>3, <3>1, <3>3, <3>4
      <3>6. LongestFor(tab.current) = Round(shown.ticksBefore + 1)
        BY <2>2, <2>5, <3>1 DEF LongestFor
      <3> QED BY <2>1, <2>3, <3>5, <3>6, RoundIsMonotone
    <2> QED BY <2>4, <2>5
  <1> QED BY <1>1, <1>2

\* The parts of TabInv that do not speak of calm times.
LEMMA TabFacts ==
  ASSUME TabInv
  PROVE  /\ tick \in Nat \ {0} /\ TabShape(tab, tick) /\ calm \in BOOLEAN
         /\ timers \in Seq([kind : {"send", "pop"}, at : Nat])
         /\ shown.ticks \in Nat /\ shown.ticksBefore \in Nat /\ shown.page = location
         /\ shown = [page |-> location, ticks |-> shown.ticks, before |-> shown.before,
                     ticksBefore |-> shown.ticksBefore]
         /\ shown.before \in Pages /\ location \in Pages
         /\ asked \in [Pages -> Nat] /\ views \in [Pages -> Nat]
         /\ ActiveTicks(tab) \in Nat /\ ActiveTicks(tab) = ActiveAt(tab, tick)
  <1>1. tick \in Nat \ {0} /\ TabShape(tab, tick)
    BY DEF TabInv, TabTyped, TabShape
  <1>2. ActiveTicks(tab) \in Nat /\ ActiveTicks(tab) = ActiveAt(tab, tick)
    BY <1>1, TabHelpers
  <1> QED BY <1>1, <1>2 DEF TabInv, TabTyped

\* Calm and with no timer pending, a tracker that watches knows its page.
LEMMA IdleKnowsThePage ==
  ASSUME TabInv, calm, timers = <<>>
  PROVE  /\ Watching => tab.current = location /\ ActiveTicks(tab) <= shown.ticks
         /\ Sends = {} /\ ~Owed /\ asked = views
  <1>1. Sends = {}
    BY DEF Sends
  <1>2. Watching => tab.current = location
    BY DEF TabInv, NavigationInv
  <1>3. ~Owed
    BY <1>1, <1>2 DEF Owed
  <1> QED BY <1>1, <1>2, <1>3 DEF TabInv, CountInv, TimeInv

\* A step that changes neither page nor timers nor counts, keeps the page the
\* tracker knows of and the time it has counted, and switches the tracker only
\* while no timer is pending.
LEMMA QuietStep ==
  ASSUME TabInv, UNCHANGED <<tick, location, timers, asked, views, shown>>,
         calm' \in BOOLEAN, calm' => calm,
         TabShape(tab', tick),
         tab'.loaded /\ tab'.listening /\ ~tab'.visible => tab'.since = NoTime,
         calm' => /\ tab'.loaded /\ tab'.listening => Watching
                  /\ tab'.current = tab.current
                  /\ ActiveAt(tab', tick) <= ActiveAt(tab, tick)
                  /\ timers = <<>> \/ SameSwitches(tab', tab),
         TimeIsOfItsPage'
  PROVE  TabInv'
  <1>0. ActiveAt(tab, tick) \in Nat /\ ActiveAt(tab', tick) \in Nat /\ shown.ticks \in Nat
          /\ shown.ticksBefore \in Nat /\ tick \in Nat
    BY TabFacts, SMTT(30) DEF ActiveAt, TabShape, NoTime
  <1>1. TabTyped'
    BY DEF TabInv, TabTyped, TabShape
  <1>2. ASSUME calm' PROVE NavigationInv' /\ CountInv'
    <2>1. calm /\ (tab'.loaded /\ tab'.listening => Watching) /\ tab'.current = tab.current
      BY <1>2
    <2>2. CASE timers = <<>>
      <3>1. Sends' = {}
        BY <2>2 DEF Sends
      <3>2. (Watching => tab.current = location) /\ asked = views
        BY <2>1, <2>2, IdleKnowsThePage
      <3>3. NavigationInv'
        BY <2>1, <2>2, <3>1, <3>2 DEF NavigationInv, Watching
      <3>4. ~Owed'
        BY <2>1, <3>1, <3>2 DEF Owed, Watching
      <3> QED BY <3>2, <3>3, <3>4 DEF CountInv
    <2>3. CASE SameSwitches(tab', tab)
      <3>1. Sends' = Sends
        BY DEF Sends
      <3>2. /\ Watching' <=> Watching
            /\ ShouldTrack(tab)' <=> ShouldTrack(tab)
        BY <2>3 DEF SameSwitches, Watching, ShouldTrack
      <3>3. Owed' <=> Owed
        BY <2>1, <3>1, <3>2 DEF Owed
      <3> QED BY <2>1, <3>1, <3>2, <3>3 DEF TabInv, NavigationInv, CountInv
    <2> QED BY <1>2, <2>2, <2>3
  <1>3. NavigationInv' /\ CountInv'
    BY <1>2 DEF NavigationInv, CountInv
  <1>4. TimeInv'
    <2>1. ASSUME calm', Watching'
          PROVE  IF tab'.current = location' THEN ActiveAt(tab', tick) <= shown'.ticks
                 ELSE /\ tab'.current = shown'.before
                      /\ ActiveAt(tab', tick) + timers'[1].at <= shown'.ticksBefore + tick
      <3>1. calm /\ Watching /\ tab'.current = tab.current
        BY <2>1 DEF Watching
      <3>2. CASE tab.current = location
        <4>1. ActiveAt(tab, tick) <= shown.ticks
          BY <3>1, <3>2, TabFacts DEF TabInv, TimeInv
        <4>2. ActiveAt(tab', tick) <= ActiveAt(tab, tick)
          BY <2>1
        <4> QED BY <3>1, <3>2, <4>1, <4>2, <1>0
      <3>3. CASE tab.current # location
        <4>1. /\ tab.current = shown.before
              /\ ActiveAt(tab, tick) + timers[1].at <= shown.ticksBefore + tick
          BY <3>1, <3>3, TabFacts DEF TabInv, TimeInv
        <4>2. timers[1].at \in Nat
          <5>1. timers \in Seq([kind : {"send", "pop"}, at : Nat]) /\ timers # <<>>
            BY <3>1, <3>3, TabFacts DEF TabInv, NavigationInv
          <5>2. timers[1] \in [kind : {"send", "pop"}, at : Nat]
            BY <5>1, QueueHasAHead
          <5> QED BY <5>2
        <4>3. ActiveAt(tab', tick) <= ActiveAt(tab, tick)
          BY <2>1
        <4> QED BY <3>1, <3>3, <4>1, <4>2, <4>3, <1>0
      <3> QED BY <3>2, <3>3
    <2>2. \A i \in DOMAIN timers' : timers'[i].at <= tick' /\ tick' <= timers'[i].at + 1
      BY DEF TabInv, TimeInv
    <2> QED BY <2>1, <2>2 DEF TimeInv, Watching, ActiveTicks, ActiveAt
  <1> QED BY <1>1, <1>3, <1>4 DEF TabInv

\* Hiding, showing, leaving, reporting and its answer.
LEMMA ReportingStep ==
  ASSUME TabInv,
         \/ Hide \/ Show \/ PageHide \/ Heartbeat
         \/ \E b \in inflight, ok \in BOOLEAN : AnswerBeacon(b, ok)
  PROVE  TabInv'
  <1>0. /\ UNCHANGED <<tick, location, timers, asked, views, shown, calm>>
        /\ tick \in Nat \ {0} /\ TabShape(tab, tick) /\ calm \in BOOLEAN
        /\ ActiveTicks(tab) \in Nat /\ ActiveTicks(tab) = ActiveAt(tab, tick)
        /\ Watching /\ ~tab.visible => tab.since = NoTime
        /\ TimeIsOfItsPage
    BY TabFacts DEF Hide, Show, PageHide, Heartbeat, AnswerBeacon, TabInv, TimeInv
  <1>1. SUFFICES
          /\ TabShape(tab', tick) /\ SameSwitches(tab', tab) /\ tab'.current = tab.current
          /\ tab'.loaded /\ tab'.listening /\ ~tab'.visible => tab'.since = NoTime
          /\ ActiveAt(tab', tick) <= ActiveAt(tab, tick)
          /\ \/ beacon' = beacon
             \/ Watching /\ \E t : /\ ActiveTicks(t) = ActiveTicks(tab) /\ t.current = tab.current
                                   /\ SendEngagement(t)
    <2>1. ASSUME calm' PROVE beacon' # NoBeacon => beacon'.seconds <= beacon'.longest
      BY <1>0, <1>1, <2>1, ReportsAreBounded DEF TimeIsOfItsPage
    <2>2. TimeIsOfItsPage'
      BY <2>1 DEF TimeIsOfItsPage
    <2>3. tab'.loaded /\ tab'.listening => Watching
      BY <1>1 DEF SameSwitches, Watching
    <2> QED BY <1>0, <1>1, <2>2, <2>3, QuietStep
  <1>2. ASSUME NEW v \in BOOLEAN, NEW t, t = [tab EXCEPT !.visible = v]
        PROVE  /\ TabShape(t, tick) /\ SameSwitches(t, tab) /\ t.current = tab.current
               /\ t.visible = v /\ t.active = tab.active /\ t.since = tab.since
               /\ ActiveTicks(t) = ActiveTicks(tab) /\ ActiveAt(t, tick) = ActiveAt(tab, tick)
    <2>1. /\ TabShape(t, tick) /\ SameSwitches(t, tab) /\ t.current = tab.current
          /\ t.visible = v /\ t.active = tab.active /\ t.since = tab.since
      BY <1>0, <1>2, TabHelpers
    <2> QED BY <2>1 DEF ActiveTicks, ActiveAt
  <1>3. CASE Hide
    <2> DEFINE s == [tab EXCEPT !.visible = FALSE]
    <2>1. /\ TabShape(s, tick) /\ SameSwitches(s, tab) /\ s.current = tab.current /\ ~s.visible
          /\ ActiveTicks(s) = ActiveTicks(tab) /\ ActiveAt(s, tick) = ActiveAt(tab, tick)
      BY <1>2
    <2>2. CASE ~Watching
      <3>1. tab' = s /\ beacon' = beacon
        BY <1>3, <2>2 DEF Hide
      <3>2. ~(s.loaded /\ s.listening)
        BY <2>1, <2>2 DEF SameSwitches, Watching
      <3> HIDE DEF s
      <3> QED BY <2>1, <3>1, <3>2, <1>0
    <2>3. CASE Watching
      <3> DEFINE t == StopActive(s)
      <3>1. SendEngagement(t) /\ tab' = Reported(t)
        BY <1>3, <2>3 DEF Hide
      <3> HIDE DEF s
      <3>2. /\ TabShape(t, tick) /\ SameSwitches(t, s) /\ t.visible = s.visible
            /\ t.current = s.current /\ t.active = ActiveTicks(s) /\ t.since = NoTime
        BY <2>1, <1>0, TabHelpers
      <3> HIDE DEF t
      <3>3. ActiveTicks(t) = ActiveTicks(tab)
        BY <3>2, <2>1, <1>0 DEF ActiveTicks
      <3>4. /\ TabShape(tab', tick) /\ SameSwitches(tab', t) /\ tab'.current = t.current
            /\ tab'.active = t.active /\ tab'.since = t.since
        BY <3>1, <3>2, <1>0, TabHelpers
      <3>5. ActiveAt(tab', tick) = ActiveAt(tab, tick)
        BY <3>2, <3>4, <2>1, <1>0 DEF ActiveAt
      <3>6. SameSwitches(tab', tab)
        BY <3>2, <3>4, <2>1 DEF SameSwitches
      <3> QED BY <3>1, <3>2, <3>3, <3>4, <3>5, <3>6, <2>1, <2>3, <1>0
    <2> QED BY <2>2, <2>3
  <1>4. CASE Show
    <2> DEFINE s == [tab EXCEPT !.visible = TRUE]
    <2>1. /\ TabShape(s, tick) /\ SameSwitches(s, tab) /\ s.current = tab.current /\ s.visible
          /\ s.active = tab.active /\ s.since = tab.since
          /\ ActiveTicks(s) = ActiveTicks(tab) /\ ActiveAt(s, tick) = ActiveAt(tab, tick)
      BY <1>2
    <2>2. tab' \in {s, StartActive(s)} /\ beacon' = beacon
      BY <1>4 DEF Show
    <2> HIDE DEF s
    <2>3. CASE tab' = s
      BY <2>1, <2>2, <2>3, <1>0
    <2>4. CASE tab' = [s EXCEPT !.since = tick] /\ s.since = NoTime
      <3>1. /\ SameSwitches(tab', s) /\ tab'.current = s.current /\ tab'.visible = s.visible
            /\ tab'.active = s.active /\ tab'.since = tick
        BY <2>1, <2>4 DEF TabShape, SameSwitches
      <3>2. TabShape(tab', tick)
        <4>1. tab' = [f \in {"enabled", "welcome", "listening", "loaded", "visible", "current",
                             "active", "since", "last", "page"} |-> tab'[f]]
          BY <2>1, <2>4 DEF TabShape
        <4>2. \A f \in {"enabled", "welcome", "listening", "loaded", "visible"} : tab'[f] \in BOOLEAN
          BY <2>1, <3>1 DEF TabShape, SameSwitches
        <4> QED BY <4>1, <4>2, <3>1, <2>1, <1>0 DEF TabShape
      <3>3. ActiveAt(tab', tick) = ActiveAt(s, tick)
        BY <2>4, <3>1, <2>1, <1>0 DEF ActiveAt, NoTime, TabShape
      <3>4. SameSwitches(tab', tab)
        BY <3>1, <2>1 DEF SameSwitches
      <3> QED BY <3>1, <3>2, <3>3, <3>4, <2>1, <2>2, <1>0
    <2> QED BY <2>2, <2>3, <2>4 DEF StartActive
  <1>5. CASE PageHide
    <2> DEFINE t == StopActive(tab)
    <2>1. SendEngagement(t) /\ tab' = Reported(t) /\ Watching
      BY <1>5 DEF PageHide
    <2>2. /\ TabShape(t, tick) /\ SameSwitches(t, tab) /\ t.visible = tab.visible
          /\ t.current = tab.current /\ t.active = ActiveTicks(tab) /\ t.since = NoTime
      BY <1>0, TabHelpers
    <2> HIDE DEF t
    <2>3. ActiveTicks(t) = ActiveTicks(tab)
      BY <2>2, <1>0 DEF ActiveTicks
    <2>4. /\ TabShape(tab', tick) /\ SameSwitches(tab', t) /\ tab'.current = t.current
          /\ tab'.active = t.active /\ tab'.since = t.since
      BY <2>1, <2>2, <1>0, TabHelpers
    <2>5. ActiveAt(tab', tick) = ActiveAt(tab, tick) /\ SameSwitches(tab', tab)
      BY <2>2, <2>4, <1>0 DEF ActiveAt, SameSwitches
    <2> QED BY <2>1, <2>2, <2>3, <2>4, <2>5, <1>0
  <1>6. CASE Heartbeat
    <2>1. SendEngagement(tab) /\ tab' = Reported(tab) /\ Watching /\ tab.visible
      BY <1>6 DEF Heartbeat
    <2>2. /\ TabShape(tab', tick) /\ SameSwitches(tab', tab) /\ tab'.current = tab.current
          /\ tab'.visible = tab.visible /\ tab'.active = tab.active /\ tab'.since = tab.since
      BY <2>1, <1>0, TabHelpers
    <2>3. ActiveAt(tab', tick) = ActiveAt(tab, tick)
      BY <2>2 DEF ActiveAt
    <2> QED BY <2>1, <2>2, <2>3, <1>0
  <1>7. ASSUME NEW b \in inflight, NEW ok \in BOOLEAN, AnswerBeacon(b, ok)
        PROVE  /\ TabShape(tab', tick) /\ SameSwitches(tab', tab) /\ tab'.current = tab.current
               /\ tab'.loaded /\ tab'.listening /\ ~tab'.visible => tab'.since = NoTime
               /\ ActiveAt(tab', tick) <= ActiveAt(tab, tick)
               /\ beacon' = beacon
    <2>1. tab' \in {tab, [tab EXCEPT !.last = 0]} /\ beacon' = beacon
      BY <1>7 DEF AnswerBeacon
    <2>2. /\ SameSwitches(tab', tab) /\ tab'.current = tab.current /\ tab'.visible = tab.visible
          /\ tab'.active = tab.active /\ tab'.since = tab.since
      BY <2>1, <1>0 DEF TabShape, SameSwitches
    <2>3. TabShape(tab', tick)
      BY <2>1, <1>0 DEF TabShape
    <2>4. ActiveAt(tab', tick) = ActiveAt(tab, tick)
      BY <2>2 DEF ActiveAt
    <2> QED BY <2>1, <2>2, <2>3, <2>4, <1>0 DEF SameSwitches, Watching
  <1> QED BY <1>3, <1>4, <1>5, <1>6, <1>7

\* The timers' part of TimeInv.
Timely == \A i \in DOMAIN timers : timers[i].at <= tick /\ tick <= timers[i].at + 1

\* A timer set now is the last of the queue.
LEMMA OneTimerMore ==
  ASSUME TabInv, tick' = tick, NEW k \in {"send", "pop"},
         timers' = Append(timers, [kind |-> k, at |-> tick])
  PROVE  /\ timers' \in Seq([kind : {"send", "pop"}, at : Nat]) /\ timers' # <<>> /\ Timely'
         /\ timers # <<>> => timers'[1] = timers[1]
         /\ timers = <<>> => timers'[1].at = tick
         /\ k = "pop" => Sends' = Sends
         /\ k = "send" => Sends' # {} /\ (Sends = {} => \A i, j \in Sends' : i = j)
  <1> DEFINE S == [kind : {"send", "pop"}, at : Nat]
             x == [kind |-> k, at |-> tick]
  <1>1. timers \in Seq(S) /\ x \in S /\ tick \in Nat /\ x.kind = k /\ x.at = tick
    BY TabFacts
  <1>2. Timely
    BY DEF TabInv, TimeInv, Timely
  <1>3. timers' = Append(timers, x)
    OBVIOUS
  <1> HIDE DEF S, x
  <1>4. /\ timers' \in Seq(S) /\ timers' # <<>>
        /\ \A i \in DOMAIN timers : i \in DOMAIN timers' /\ timers'[i] = timers[i]
        /\ \A i \in DOMAIN timers' : (i \in DOMAIN timers /\ timers'[i] = timers[i]) \/ timers'[i] = x
        /\ Len(timers) + 1 \in DOMAIN timers' /\ timers'[Len(timers) + 1] = x
        /\ \A i \in DOMAIN timers' : i \in DOMAIN timers \/ i = Len(timers) + 1
    BY <1>1, <1>3, QueueGrows
  <1>5. Timely'
    BY <1>1, <1>2, <1>4 DEF Timely
  <1>6. timers # <<>> => timers'[1] = timers[1]
    BY <1>1, <1>4, QueueHasAHead
  <1>7. timers = <<>> => timers'[1].at = tick
    <2>1. timers = <<>> => Len(timers) + 1 = 1
      OBVIOUS
    <2> QED BY <2>1, <1>1, <1>4
  <1>8. k = "pop" => Sends' = Sends
    BY <1>1, <1>4 DEF Sends
  <1>9. k = "send" => Sends' # {} /\ (Sends = {} => \A i, j \in Sends' : i = j)
    <2>1. k = "send" => Len(timers) + 1 \in Sends'
      BY <1>1, <1>4 DEF Sends
    <2>2. Sends = {} => \A i \in Sends' : i = Len(timers) + 1
      BY <1>4 DEF Sends
    <2> QED BY <2>1, <2>2
  <1> QED BY <1>4, <1>5, <1>6, <1>7, <1>8, <1>9 DEF S

\* When the first timer fires, the others move up.
LEMMA OneTimerLess ==
  ASSUME TabInv, tick' = tick, timers # <<>>, timers' = Tail(timers)
  PROVE  /\ timers' \in Seq([kind : {"send", "pop"}, at : Nat]) /\ Timely'
         /\ \A i \in Sends' : i \in Nat \ {0} /\ i + 1 \in Sends
         /\ \A i \in Sends : i = 1 \/ i - 1 \in Sends'
         /\ 1 \in Sends <=> Head(timers).kind = "send"
         /\ (\A i, j \in Sends : i = j) => \A i, j \in Sends' : i = j
  <1> DEFINE S == [kind : {"send", "pop"}, at : Nat]
  <1>1. timers \in Seq(S) /\ tick \in Nat
    BY TabFacts
  <1>2. Timely
    BY DEF TabInv, TimeInv, Timely
  <1> HIDE DEF S
  <1>4. /\ 1 \in DOMAIN timers /\ timers[1] = Head(timers)
        /\ timers' \in Seq(S)
        /\ \A i \in DOMAIN timers' : i \in Nat \ {0} /\ i + 1 \in DOMAIN timers /\ timers'[i] = timers[i + 1]
        /\ \A i \in DOMAIN timers : i = 1 \/ (i - 1 \in DOMAIN timers' /\ timers[i] = timers'[i - 1])
    BY <1>1, QueueHasAHead
  <1>5. Timely'
    BY <1>1, <1>2, <1>4 DEF Timely
  <1>6. \A i \in Sends' : i \in Nat \ {0} /\ i + 1 \in Sends
    BY <1>4 DEF Sends
  <1>7. \A i \in Sends : i = 1 \/ i - 1 \in Sends'
    BY <1>4 DEF Sends
  <1>8. 1 \in Sends <=> Head(timers).kind = "send"
    BY <1>4 DEF Sends
  <1>9. (\A i, j \in Sends : i = j) => \A i, j \in Sends' : i = j
    BY <1>6
  <1> QED BY <1>4, <1>5, <1>6, <1>7, <1>8, <1>9 DEF S

\* A step after which the tracker knows the page that is shown.
LEMMA KnownPageStep ==
  ASSUME tick \in Nat \ {0}, tick' = tick,
         TabShape(tab', tick), location' \in Pages, calm' \in BOOLEAN,
         timers' \in Seq([kind : {"send", "pop"}, at : Nat]), Timely',
         asked' \in [Pages -> Nat], views' \in [Pages -> Nat],
         shown' \in [page : Pages, ticks : Nat, before : Pages, ticksBefore : Nat],
         shown'.page = location',
         tab'.loaded /\ tab'.listening /\ ~tab'.visible => tab'.since = NoTime,
         calm' => /\ ~Watching' => timers' = <<>>
                  /\ Watching' => tab'.current = location' /\ ActiveAt(tab', tick) <= shown'.ticks
                  /\ \A i, j \in Sends' : i = j
                  /\ asked' = IF ShouldTrack(tab') /\ Watching' /\ Sends' # {}
                              THEN [views' EXCEPT ![location'] = views'[location'] + 1] ELSE views'
                  /\ beacon' # NoBeacon => beacon'.seconds <= beacon'.longest
  PROVE  TabInv'
  <1>1. TabTyped'
    BY DEF TabTyped, TabShape
  <1>2. NavigationInv'
    BY DEF NavigationInv
  <1>3. CountInv'
    <2>1. calm' => (Owed' <=> ShouldTrack(tab') /\ Watching' /\ Sends' # {})
      BY DEF Owed, ShouldTrack
    <2> QED BY <2>1 DEF CountInv
  <1>4. TimeInv'
    <2>1. TimeIsOfItsPage'
      BY DEF TimeIsOfItsPage
    <2>2. ActiveAt(tab', tick) = ActiveTicks(tab)'
      BY DEF ActiveAt, ActiveTicks
    <2>3. (Watching /\ ~tab.visible => tab.since = NoTime)'
      BY DEF Watching
    <2> QED BY <2>1, <2>2, <2>3 DEF TimeInv, Timely
  <1> QED BY <1>1, <1>2, <1>3, <1>4 DEF TabInv

\* A view sent is one more for its page.
LEMMA OneViewMore ==
  ASSUME views \in [Pages -> Nat], NEW t, NEW url \in Pages, SendView(t, url)
  PROVE  /\ views' \in [Pages -> Nat]
         /\ views' = IF ShouldTrack(t) THEN [views EXCEPT ![url] = views[url] + 1] ELSE views
  BY DEF SendView

\* Calls that change the page named or the switches, and nothing else: calm lasts
\* through them only while no timer is pending.
LEMMA SwitchStep ==
  ASSUME TabInv,
         \/ \E p \in Pages : CallEvent(p)
         \/ \E on \in BOOLEAN : Switch(on)
         \/ Destroy
  PROVE  TabInv'
  <1>0. /\ UNCHANGED <<tick, location, timers, asked, views, shown, beacon>>
        /\ tick \in Nat \ {0} /\ TabShape(tab, tick) /\ calm \in BOOLEAN
        /\ Watching /\ ~tab.visible => tab.since = NoTime
        /\ calm' \in BOOLEAN /\ (calm' => calm /\ timers = <<>>)
    BY TabFacts DEF CallEvent, Switch, Destroy, TabInv, TimeInv
  <1>1. (calm' => calm) => TimeIsOfItsPage'
    BY <1>0 DEF TabInv, TimeInv, TimeIsOfItsPage
  <1>2. CASE \E p \in Pages : CallEvent(p)
    <2> PICK p \in Pages : CallEvent(p)
      BY <1>2
    <2>1. tab' = [tab EXCEPT !.current = p] /\ (calm' => Watching /\ p = location)
      BY DEF CallEvent
    <2>2. /\ TabShape(tab', tick) /\ SameSwitches(tab', tab) /\ tab'.current = p
          /\ tab'.visible = tab.visible /\ tab'.active = tab.active /\ tab'.since = tab.since
      BY <2>1, <1>0 DEF TabShape, SameSwitches
    <2>3. ActiveAt(tab', tick) = ActiveAt(tab, tick) /\ ActiveAt(tab, tick) \in Nat
      BY <2>2, <1>0 DEF ActiveAt, TabShape
    <2>4. tab'.loaded /\ tab'.listening <=> Watching
      BY <2>2 DEF SameSwitches, Watching
    <2>5. calm' => tab'.current = tab.current
      BY <2>1, <2>2, <1>0, IdleKnowsThePage
    <2> QED BY <2>2, <2>3, <2>4, <2>5, <1>0, <1>1, QuietStep
  <1>3. CASE \E on \in BOOLEAN : Switch(on)
    <2> PICK on \in BOOLEAN : Switch(on)
      BY <1>3
    <2>1. tab' = [tab EXCEPT !.enabled = on]
      BY DEF Switch
    <2>2. /\ TabShape(tab', tick) /\ tab'.current = tab.current
          /\ tab'.loaded = tab.loaded /\ tab'.listening = tab.listening
          /\ tab'.visible = tab.visible /\ tab'.active = tab.active /\ tab'.since = tab.since
      BY <2>1, <1>0 DEF TabShape
    <2>3. ActiveAt(tab', tick) = ActiveAt(tab, tick) /\ ActiveAt(tab, tick) \in Nat
      BY <2>2, <1>0 DEF ActiveAt, TabShape
    <2> QED BY <2>2, <2>3, <1>0, <1>1, QuietStep DEF Watching
  <1>4. CASE Destroy
    <2>1. tab' = [tab EXCEPT !.enabled = FALSE, !.listening = FALSE]
      BY <1>4 DEF Destroy
    <2>2. /\ TabShape(tab', tick) /\ tab'.current = tab.current /\ ~tab'.listening
          /\ tab'.active = tab.active /\ tab'.since = tab.since
      BY <2>1, <1>0 DEF TabShape
    <2>3. ActiveAt(tab', tick) = ActiveAt(tab, tick) /\ ActiveAt(tab, tick) \in Nat
      BY <2>2, <1>0 DEF ActiveAt, TabShape
    <2> QED BY <2>2, <2>3, <1>0, <1>1, QuietStep
  <1> QED BY <1>2, <1>3, <1>4

\* The first page of the tab.
LEMMA LoadStep ==
  ASSUME TabInv, Load
  PROVE  TabInv'
  <1>0. /\ UNCHANGED <<tick, location, timers, shown, beacon, calm>>
        /\ tick \in Nat \ {0} /\ TabShape(tab, tick) /\ calm \in BOOLEAN
        /\ location \in Pages /\ ~Watching
        /\ asked \in [Pages -> Nat] /\ views \in [Pages -> Nat]
        /\ timers \in Seq([kind : {"send", "pop"}, at : Nat]) /\ Timely
        /\ shown \in [page : Pages, ticks : Nat, before : Pages, ticksBefore : Nat]
        /\ shown.page = location
    BY TabFacts DEF Load, Watching, TabInv, TabTyped, TimeInv, Timely
  <1> DEFINE s == [tab EXCEPT !.loaded = TRUE, !.current = location]
             t == ResetActive(s)
  <1>1. /\ tab' = t /\ SendView(t, location)
        /\ asked' = IF ShouldTrack(tab) THEN [asked EXCEPT ![location] = asked[location] + 1]
                    ELSE asked
    BY DEF Load
  <1>2. /\ TabShape(s, tick) /\ s.current = location /\ s.visible = tab.visible
        /\ s.enabled = tab.enabled /\ s.welcome = tab.welcome
    BY <1>0 DEF TabShape
  <1> HIDE DEF s
  <1>3. /\ TabShape(t, tick) /\ SameSwitches(t, s) /\ t.visible = s.visible
        /\ t.current = s.current /\ ActiveAt(t, tick) = 0 /\ (~s.visible => t.since = NoTime)
    BY <1>0, <1>2, TabHelpers
  <1> HIDE DEF t
  <1>4. ShouldTrack(t) <=> ShouldTrack(tab)
    BY <1>2, <1>3 DEF ShouldTrack, SameSwitches
  <1>5. /\ views' \in [Pages -> Nat]
        /\ views' = IF ShouldTrack(tab) THEN [views EXCEPT ![location] = views[location] + 1]
                    ELSE views
    BY <1>0, <1>1, <1>4, OneViewMore
  <1>6. asked' \in [Pages -> Nat]
    BY <1>0, <1>1
  <1>7. ASSUME calm
        PROVE  timers = <<>> /\ asked' = views' /\ (beacon # NoBeacon => beacon.seconds <= beacon.longest)
    <2>1. timers = <<>>
      BY <1>0, <1>7 DEF TabInv, NavigationInv
    <2>2. asked = views
      BY <1>7, <2>1, IdleKnowsThePage
    <2> QED BY <1>1, <1>5, <1>7, <2>1, <2>2 DEF TabInv, TimeInv, TimeIsOfItsPage
  <1>8. Timely' /\ (timers = <<>> => Sends' = {})
    BY <1>0 DEF Timely, Sends
  <1>9. ActiveAt(tab', tick) <= shown'.ticks
    BY <1>0, <1>1, <1>3
  <1> QED BY <1>0, <1>1, <1>2, <1>3, <1>5, <1>6, <1>7, <1>8, <1>9, KnownPageStep

\* pageview(): while calm it is for the page shown, which the tracker knows.
LEMMA CallPageviewStep ==
  ASSUME TabInv, NEW url \in Pages, CallPageview(url)
  PROVE  TabInv'
  <1>0. /\ UNCHANGED <<tick, location, timers, shown>>
        /\ tick \in Nat \ {0} /\ TabShape(tab, tick) /\ calm' \in BOOLEAN
        /\ location \in Pages /\ (calm' => calm /\ Watching /\ url = location /\ timers = <<>>)
        /\ asked \in [Pages -> Nat] /\ views \in [Pages -> Nat]
        /\ timers \in Seq([kind : {"send", "pop"}, at : Nat]) /\ Timely
        /\ shown \in [page : Pages, ticks : Nat, before : Pages, ticksBefore : Nat]
        /\ shown.page = location
        /\ Watching /\ ~tab.visible => tab.since = NoTime
    BY TabFacts DEF CallPageview, TabInv, TabTyped, TimeInv, Timely
  <1>1. /\ SendView(tab, url)
        /\ asked' = IF ShouldTrack(tab) THEN [asked EXCEPT ![url] = asked[url] + 1] ELSE asked
    BY DEF CallPageview
  <1>2. /\ views' \in [Pages -> Nat] /\ asked' \in [Pages -> Nat]
        /\ asked = views => asked' = views'
    <2>1. /\ views' \in [Pages -> Nat]
          /\ views' = IF ShouldTrack(tab) THEN [views EXCEPT ![url] = views[url] + 1] ELSE views
      BY <1>0, <1>1, OneViewMore
    <2>2. asked' \in [Pages -> Nat]
      BY <1>0, <1>1, SMTT(30)
    <2> QED BY <1>1, <2>1, <2>2
  <1>3. /\ TabShape(tab', tick) /\ SameSwitches(tab', tab) /\ tab'.visible = tab.visible
        /\ tab'.loaded /\ tab'.listening /\ ~tab'.visible => tab'.since = NoTime
    <2>1. CASE url = tab.current
      <3>1. tab' = tab
        BY <2>1 DEF CallPageview
      <3> QED BY <3>1, <1>0 DEF SameSwitches, Watching
    <2>2. CASE url # tab.current
      <3>1. tab' = [NextPage(tab) EXCEPT !.current = url]
        BY <2>2 DEF CallPageview
      <3>2. /\ TabShape(tab', tick) /\ SameSwitches(tab', tab) /\ tab'.visible = tab.visible
            /\ ~tab.visible => tab'.since = NoTime
        <4> DEFINE s == [NextPage(tab) EXCEPT !.current = url]
        <4>1. /\ TabShape(s, tick) /\ SameSwitches(s, tab) /\ s.visible = tab.visible
              /\ ~tab.visible => s.since = NoTime
          BY <1>0, NextPageBegins
        <4>2. tab' = s
          BY <3>1
        <4> HIDE DEF s
        <4> QED BY <4>1, <4>2
      <3> QED BY <3>2
    <2> QED BY <2>1, <2>2
  <1>4. ASSUME calm'
        PROVE  /\ timers' = <<>> /\ tab'.current = location' /\ ActiveAt(tab', tick) <= shown'.ticks
               /\ asked' = views'
               /\ beacon' # NoBeacon => beacon'.seconds <= beacon'.longest
    <2>1. tab.current = url /\ asked = views /\ ActiveTicks(tab) <= shown.ticks
      BY <1>0, <1>4, IdleKnowsThePage
    <2>2. tab' = tab /\ beacon' = beacon
      BY <2>1 DEF CallPageview
    <2>3. ActiveAt(tab', tick) = ActiveTicks(tab)
      BY <2>2, TabFacts
    <2> QED BY <1>0, <1>2, <1>4, <2>1, <2>2, <2>3 DEF TabInv, TimeInv, TimeIsOfItsPage
  <1>5. Timely' /\ (timers' = <<>> => Sends' = {})
    BY <1>0 DEF Timely, Sends
  <1> QED BY <1>0, <1>2, <1>3, <1>4, <1>5, KnownPageStep

\* What every step starts from, and what calm means for the page.
LEMMA TabBefore ==
  ASSUME TabInv
  PROVE  /\ tick \in Nat \ {0} /\ TabShape(tab, tick) /\ calm \in BOOLEAN /\ location \in Pages
         /\ asked \in [Pages -> Nat] /\ views \in [Pages -> Nat]
         /\ timers \in Seq([kind : {"send", "pop"}, at : Nat]) /\ Timely
         /\ shown \in [page : Pages, ticks : Nat, before : Pages, ticksBefore : Nat]
         /\ shown.page = location
         /\ Watching /\ ~tab.visible => tab.since = NoTime
         /\ ActiveTicks(tab) \in Nat /\ ActiveTicks(tab) = ActiveAt(tab, tick)
         /\ calm => /\ ~Watching => timers = <<>>
                    /\ Watching /\ tab.current = location =>
                          (\A i, j \in Sends : i = j) /\ ActiveTicks(tab) <= shown.ticks
                    /\ Watching /\ tab.current # location => timers # <<>> /\ Sends = {}
                    /\ asked = IF Owed THEN [views EXCEPT ![location] = views[location] + 1] ELSE views
                    /\ beacon # NoBeacon => beacon.seconds <= beacon.longest
  <1>1. /\ ActiveTicks(tab) \in Nat /\ ActiveTicks(tab) = ActiveAt(tab, tick)
        /\ TabShape(tab, tick)
    BY TabFacts
  <1>2. calm => /\ ~Watching => timers = <<>>
                /\ Watching /\ tab.current = location =>
                      (\A i, j \in Sends : i = j) /\ ActiveTicks(tab) <= shown.ticks
                /\ Watching /\ tab.current # location => timers # <<>> /\ Sends = {}
    BY DEF TabInv, NavigationInv, TimeInv
  <1>3. calm => asked = IF Owed THEN [views EXCEPT ![location] = views[location] + 1] ELSE views
    BY DEF TabInv, CountInv
  <1> QED BY <1>1, <1>2, <1>3 DEF TabInv, TabTyped, TimeInv, Timely, TimeIsOfItsPage

\* Arriving at a page: what it changes is typed.
LEMMA Arrival ==
  ASSUME TabInv, NEW url \in Pages, Arrive(url)
  PROVE  /\ location' \in Pages /\ calm' \in BOOLEAN /\ (calm' => calm)
         /\ asked' \in [Pages -> Nat]
         /\ shown' \in [page : Pages, ticks : Nat, before : Pages, ticksBefore : Nat]
         /\ shown'.page = location' /\ shown'.ticks \in Nat
         /\ url # location /\ calm' => timers = <<>>
         /\ url # location => shown'.before = location /\ shown'.ticksBefore = shown.ticks
         /\ url = location => UNCHANGED <<location, shown, asked>>
         /\ location' = url
         /\ url # location => asked' = IF Watching /\ ShouldTrack(tab)
                                       THEN [asked EXCEPT ![url] = asked[url] + 1] ELSE asked
  <1>1. /\ calm \in BOOLEAN /\ location \in Pages /\ asked \in [Pages -> Nat]
        /\ shown \in [page : Pages, ticks : Nat, before : Pages, ticksBefore : Nat]
        /\ shown.page = location
    BY TabBefore
  <1>2. CASE url = location
    BY <1>1, <1>2 DEF Arrive
  <1>3. CASE url # location
    <2>1. shown' = [page |-> url, ticks |-> 0, before |-> location, ticksBefore |-> shown.ticks]
      BY <1>3 DEF Arrive
    <2>2. /\ shown' \in [page : Pages, ticks : Nat, before : Pages, ticksBefore : Nat]
          /\ shown'.page = url /\ shown'.ticks = 0 /\ shown'.before = location
          /\ shown'.ticksBefore = shown.ticks
      BY <1>1, <2>1
    <2>3. /\ location' = url
          /\ asked' = IF Watching /\ ShouldTrack(tab)
                      THEN [asked EXCEPT ![url] = asked[url] + 1] ELSE asked
          /\ calm' = (calm /\ timers = <<>>)
      BY <1>3 DEF Arrive
    <2>4. asked' \in [Pages -> Nat]
      BY <1>1, <2>3
    <2> QED BY <1>1, <1>3, <2>2, <2>3, <2>4
  <1> QED BY <1>2, <1>3

\* pushState and replaceState: the tracker runs first, and its view follows.
LEMMA PushStep ==
  ASSUME TabInv, NEW url \in Pages, Push(url)
  PROVE  TabInv'
  <1>0. Arrive(url) /\ UNCHANGED <<tick, views>>
    BY DEF Push
  <1>1. CASE Watching /\ url # tab.current
    <2>1. /\ SendEngagement(tab)
          /\ tab' = [NextPage(tab) EXCEPT !.current = url]
          /\ timers' = Append(timers, [kind |-> "send", at |-> tick])
      BY <1>1 DEF Push
    <2>2. /\ TabShape(tab', tick) /\ SameSwitches(tab', tab) /\ tab'.visible = tab.visible
          /\ tab'.current = url /\ ActiveAt(tab', tick) = 0
          /\ ~tab.visible => tab'.since = NoTime
      <3> DEFINE s == [NextPage(tab) EXCEPT !.current = url]
      <3>1. /\ TabShape(s, tick) /\ SameSwitches(s, tab) /\ s.visible = tab.visible
            /\ s.current = url /\ ActiveAt(s, tick) = 0
            /\ ~tab.visible => s.since = NoTime
        BY TabBefore, NextPageBegins
      <3>2. tab' = s
        BY <2>1
      <3> HIDE DEF s
      <3> QED BY <3>1, <3>2
    <2>3. /\ timers' \in Seq([kind : {"send", "pop"}, at : Nat]) /\ Timely'
          /\ Sends' # {} /\ (Sends = {} => \A i, j \in Sends' : i = j)
      BY <1>0, <2>1, OneTimerMore
    <2>4. (ShouldTrack(tab') <=> ShouldTrack(tab)) /\ Watching'
      BY <2>2, <1>1 DEF ShouldTrack, SameSwitches, Watching
    <2>5. ASSUME calm'
          PROVE  /\ Sends = {}
                 /\ asked' = IF ShouldTrack(tab) THEN [views EXCEPT ![url] = views[url] + 1] ELSE views
                 /\ beacon' # NoBeacon => beacon'.seconds <= beacon'.longest
      <3>1. calm
        BY <1>0, <2>5, Arrival
      <3>2. beacon' # NoBeacon => beacon'.seconds <= beacon'.longest
        BY <1>1, <2>1, <3>1, ReportsAreBounded
      <3>3. CASE url = location
        <4>1. asked' = asked /\ Sends = {}
          BY <1>0, <1>1, <3>1, <3>3, Arrival, TabBefore
        <4>2. Owed <=> ShouldTrack(tab)
          BY <1>1, <3>3 DEF Owed
        <4> QED BY <3>1, <3>2, <3>3, <4>1, <4>2, TabBefore
      <3>4. CASE url # location
        <4>1. timers = <<>>
          BY <1>0, <2>5, <3>4, Arrival
        <4>2. asked = views /\ Sends = {}
          BY <3>1, <4>1, IdleKnowsThePage
        <4> QED BY <1>0, <1>1, <3>2, <3>4, <4>2, Arrival
      <3> QED BY <3>3, <3>4
    <2>6. /\ tick \in Nat \ {0} /\ views' \in [Pages -> Nat] /\ tick' = tick
          /\ location' = url /\ location' \in Pages /\ calm' \in BOOLEAN /\ asked' \in [Pages -> Nat]
          /\ shown' \in [page : Pages, ticks : Nat, before : Pages, ticksBefore : Nat]
          /\ shown'.page = location' /\ shown'.ticks \in Nat
      BY <1>0, Arrival, TabBefore
    <2>7. ActiveAt(tab', tick) <= shown'.ticks
      BY <2>2, <2>6
    <2> QED BY <1>0, <1>1, <2>2, <2>3, <2>4, <2>5, <2>6, <2>7, KnownPageStep
  <1>2. CASE ~(Watching /\ url # tab.current)
    <2>1. UNCHANGED <<tick, tab, timers, views, beacon>>
      BY <1>0, <1>2 DEF Push
    <2>2. /\ tick \in Nat \ {0} /\ TabShape(tab', tick) /\ views' \in [Pages -> Nat]
          /\ timers' \in Seq([kind : {"send", "pop"}, at : Nat]) /\ Timely'
          /\ tab'.loaded /\ tab'.listening /\ ~tab'.visible => tab'.since = NoTime
          /\ (Watching' <=> Watching)
      BY <2>1, TabBefore DEF Timely, Watching
    <2>3. /\ location' = url /\ location' \in Pages /\ calm' \in BOOLEAN /\ asked' \in [Pages -> Nat]
          /\ shown' \in [page : Pages, ticks : Nat, before : Pages, ticksBefore : Nat]
          /\ shown'.page = location' /\ shown'.ticks \in Nat
      BY <1>0, Arrival
    <2>4. CASE ~Watching
      <3>1. ASSUME calm' PROVE timers' = <<>> /\ Sends' = {} /\ asked' = views'
        <4>1. calm /\ timers = <<>>
          BY <1>0, <2>4, <3>1, Arrival, TabBefore
        <4>2. asked = views /\ asked' = asked
          BY <1>0, <2>4, <4>1, IdleKnowsThePage, Arrival
        <4> QED BY <2>1, <4>1, <4>2 DEF Sends
      <3>2. calm' => (beacon' # NoBeacon => beacon'.seconds <= beacon'.longest)
        BY <1>0, <2>1, Arrival, TabBefore
      <3> QED BY <2>1, <2>2, <2>3, <2>4, <3>1, <3>2, KnownPageStep
    <2>5. CASE Watching /\ url # location
      <3>1. ~calm'
        <4>1. calm' => calm /\ timers = <<>>
          BY <1>0, <2>5, Arrival
        <4> QED BY <1>2, <2>5, <4>1, IdleKnowsThePage
      <3> QED BY <2>1, <2>2, <2>3, <3>1, KnownPageStep
    <2>6. CASE Watching /\ url = location
      <3>1. UNCHANGED <<location, shown, asked>> /\ calm' \in BOOLEAN /\ (calm' => calm)
        BY <1>0, <2>6, Arrival
      <3>2. TimeIsOfItsPage'
        BY <2>1, <3>1 DEF TabInv, TimeInv, TimeIsOfItsPage
      <3>3. ActiveAt(tab', tick) <= ActiveAt(tab, tick) /\ SameSwitches(tab', tab)
        BY <2>1, TabBefore DEF SameSwitches
      <3> QED BY <2>1, <2>2, <2>6, <3>1, <3>2, <3>3, QuietStep
    <2> QED BY <2>4, <2>5, <2>6
  <1> QED BY <1>1, <1>2

\* A history move changes the page; the tracker is told by a timer.
LEMMA HistoryMoveStep ==
  ASSUME TabInv, NEW url \in Pages, HistoryMove(url)
  PROVE  TabInv'
  <1>0. /\ Arrive(url) /\ UNCHANGED <<tick, tab, views, beacon>>
        /\ timers' = IF Watching THEN Append(timers, [kind |-> "pop", at |-> tick]) ELSE timers
    BY DEF HistoryMove
  <1>1. /\ tick \in Nat \ {0} /\ TabShape(tab', tick) /\ views' \in [Pages -> Nat]
        /\ timers' \in Seq([kind : {"send", "pop"}, at : Nat]) /\ Timely' /\ Sends' = Sends
        /\ tab'.loaded /\ tab'.listening /\ ~tab'.visible => tab'.since = NoTime
        /\ (Watching' <=> Watching)
        /\ Watching => timers' # <<>> /\ (timers # <<>> => timers'[1] = timers[1])
                       /\ (timers = <<>> => timers'[1].at = tick)
    <2>1. CASE Watching
      BY <1>0, <2>1, TabBefore, OneTimerMore DEF Watching
    <2>2. CASE ~Watching
      BY <1>0, <2>2, TabBefore DEF Watching, Timely, Sends
    <2> QED BY <2>1, <2>2
  <1>2. /\ location' = url /\ location' \in Pages /\ calm' \in BOOLEAN /\ asked' \in [Pages -> Nat]
        /\ shown' \in [page : Pages, ticks : Nat, before : Pages, ticksBefore : Nat]
        /\ shown'.page = location' /\ shown'.ticks \in Nat /\ (calm' => calm)
    BY <1>0, Arrival
  <1>3. TimeIsOfItsPage'
    BY <1>0, <1>2, TabBefore DEF TimeIsOfItsPage
  <1>4. TabTyped'
    BY <1>0, <1>1, <1>2 DEF TabTyped, TabShape
  <1>5. (ShouldTrack(tab)' <=> ShouldTrack(tab)) /\ ActiveTicks(tab)' = ActiveTicks(tab)
    BY <1>0 DEF ShouldTrack, ActiveTicks
  <1>6. ASSUME calm'
        PROVE  /\ NavigationInv' /\ CountInv'
               /\ Watching => IF tab.current = url THEN ActiveTicks(tab) <= shown'.ticks
                              ELSE /\ tab.current = shown'.before
                                   /\ ActiveTicks(tab) + timers'[1].at <= shown'.ticksBefore + tick
    <2>0. calm
      BY <1>2, <1>6
    <2>1. CASE ~Watching
      <3>1. timers' = <<>> /\ timers = <<>>
        BY <1>0, <2>0, <2>1, TabBefore
      <3>2. asked' = asked /\ asked = views
        BY <1>0, <2>0, <2>1, <3>1, Arrival, IdleKnowsThePage
      <3>3. ~Owed'
        BY <1>1, <2>1 DEF Owed
      <3> QED BY <1>0, <1>1, <2>1, <3>1, <3>2, <3>3 DEF NavigationInv, CountInv
    <2>2. CASE Watching /\ url = location
      <3>1. UNCHANGED <<location, shown, asked>>
        BY <1>0, <2>2, Arrival
      <3>2. Owed' <=> Owed
        BY <1>0, <1>1, <1>5, <3>1 DEF Owed
      <3>3. CountInv'
        BY <1>0, <2>0, <3>1, <3>2 DEF TabInv, CountInv
      <3>4. NavigationInv'
        BY <1>0, <1>1, <2>0, <2>2, <3>1, TabBefore DEF NavigationInv
      <3>5. IF tab.current = url THEN ActiveTicks(tab) <= shown'.ticks
            ELSE /\ tab.current = shown'.before
                 /\ ActiveTicks(tab) + timers'[1].at <= shown'.ticksBefore + tick
        <4>1. CASE tab.current = url
          BY <2>0, <2>2, <3>1, <4>1, TabBefore
        <4>2. CASE tab.current # url
          <5>1. timers'[1] = timers[1]
            BY <1>1, <2>0, <2>2, <4>2, TabBefore
          <5>2. /\ tab.current = shown.before
                /\ ActiveTicks(tab) + timers[1].at <= shown.ticksBefore + tick
            BY <2>0, <2>2, <4>2 DEF TabInv, TimeInv
          <5> QED BY <3>1, <4>2, <5>1, <5>2
        <4> QED BY <4>1, <4>2
      <3> QED BY <3>3, <3>4, <3>5
    <2>3. CASE Watching /\ url # location
      <3>1. /\ timers = <<>> /\ shown'.before = location /\ shown'.ticksBefore = shown.ticks
            /\ asked' = IF ShouldTrack(tab) THEN [asked EXCEPT ![url] = asked[url] + 1] ELSE asked
        BY <1>0, <1>6, <2>3, Arrival
      <3>2. /\ tab.current = location /\ ActiveTicks(tab) <= shown.ticks
            /\ Sends = {} /\ asked = views
        BY <2>0, <2>3, <3>1, IdleKnowsThePage
      <3>3. Owed' <=> ShouldTrack(tab)
        BY <1>0, <1>1, <1>2, <1>5, <2>3, <3>2 DEF Owed
      <3>4. CountInv'
        BY <1>0, <1>2, <3>1, <3>2, <3>3 DEF CountInv
      <3>5. NavigationInv'
        BY <1>0, <1>1, <1>2, <2>3, <3>2 DEF NavigationInv
      <3>6. ActiveTicks(tab) + timers'[1].at <= shown'.ticksBefore + tick
        <4>1. timers'[1].at = tick
          BY <1>1, <2>3, <3>1
        <4>2. shown.ticks \in Nat /\ ActiveTicks(tab) \in Nat
          BY TabFacts
        <4> QED BY <1>1, <3>1, <3>2, <4>1, <4>2
      <3> QED BY <2>3, <3>1, <3>2, <3>4, <3>5, <3>6
    <2> QED BY <2>1, <2>2, <2>3
  <1>7. TimeInv'
    <2>1. (calm /\ Watching =>
             IF tab.current = location THEN ActiveTicks(tab) <= shown.ticks
             ELSE /\ tab.current = shown.before
                  /\ ActiveTicks(tab) + timers[1].at <= shown.ticksBefore + tick)'
      BY <1>0, <1>1, <1>2, <1>5, <1>6
    <2>2. (Watching /\ ~tab.visible => tab.since = NoTime)'
      BY <1>0, <1>1, TabBefore
    <2> QED BY <1>1, <1>3, <2>1, <2>2 DEF TimeInv, Timely
  <1>8. NavigationInv' /\ CountInv'
    BY <1>6 DEF NavigationInv, CountInv
  <1> QED BY <1>4, <1>7, <1>8 DEF TabInv

\* The view that follows a push, for the page shown when its timer fires.
LEMMA FireSendStep ==
  ASSUME TabInv, FireSend
  PROVE  TabInv'
  <1>0. /\ timers # <<>> /\ Head(timers).kind = "send" /\ timers' = Tail(timers)
        /\ SendView(tab, location)
        /\ UNCHANGED <<tick, location, tab, asked, shown, beacon, calm>>
    BY DEF FireSend
  <1>1. /\ timers' \in Seq([kind : {"send", "pop"}, at : Nat]) /\ Timely'
        /\ \A i \in Sends' : i \in Nat \ {0} /\ i + 1 \in Sends
        /\ 1 \in Sends
    BY <1>0, OneTimerLess
  <1>2. /\ views' \in [Pages -> Nat]
        /\ views' = IF ShouldTrack(tab) THEN [views EXCEPT ![location] = views[location] + 1]
                    ELSE views
    BY <1>0, TabBefore, OneViewMore
  <1>3. ASSUME calm
        PROVE  /\ Watching /\ tab.current = location /\ ActiveTicks(tab) <= shown.ticks
               /\ Sends' = {} /\ asked = views'
    <2>1. /\ Watching /\ tab.current = location /\ ActiveTicks(tab) <= shown.ticks
          /\ \A i, j \in Sends : i = j
      BY <1>0, <1>1, <1>3, TabBefore
    <2>2. Sends' = {}
      BY <1>1, <2>1
    <2>3. Owed <=> ShouldTrack(tab)
      BY <1>1, <2>1 DEF Owed
    <2>4. asked = views'
      BY <1>2, <1>3, <2>3, TabBefore
    <2> QED BY <2>1, <2>2, <2>4
  <1>4. ActiveAt(tab', tick) = ActiveTicks(tab) /\ (Watching' <=> Watching)
    BY <1>0, TabBefore DEF Watching
  <1>5. /\ tick \in Nat \ {0} /\ TabShape(tab', tick) /\ location' \in Pages
        /\ calm' \in BOOLEAN /\ asked' \in [Pages -> Nat]
        /\ shown' \in [page : Pages, ticks : Nat, before : Pages, ticksBefore : Nat]
        /\ shown'.page = location'
        /\ tab'.loaded /\ tab'.listening /\ ~tab'.visible => tab'.since = NoTime
    BY <1>0, TabBefore DEF Watching
  <1>6. calm' => (beacon' # NoBeacon => beacon'.seconds <= beacon'.longest)
    BY <1>0, TabBefore
  <1> QED BY <1>0, <1>1, <1>2, <1>3, <1>4, <1>5, <1>6, KnownPageStep

\* The tracker notices a history move, unless it has been told already.
LEMMA FirePopStep ==
  ASSUME TabInv, FirePop
  PROVE  TabInv'
  <1>0. /\ timers # <<>> /\ Head(timers).kind = "pop" /\ timers' = Tail(timers)
        /\ UNCHANGED <<tick, location, asked, shown, calm>>
    BY DEF FirePop
  <1>1. /\ timers' \in Seq([kind : {"send", "pop"}, at : Nat]) /\ Timely'
        /\ \A i \in Sends' : i \in Nat \ {0} /\ i + 1 \in Sends
        /\ \A i \in Sends : i = 1 \/ i - 1 \in Sends'
        /\ 1 \notin Sends
        /\ (\A i, j \in Sends : i = j) => \A i, j \in Sends' : i = j
    BY <1>0, OneTimerLess
  <1>2. /\ tick \in Nat \ {0} /\ location' \in Pages
        /\ calm' \in BOOLEAN /\ asked' \in [Pages -> Nat]
        /\ shown' \in [page : Pages, ticks : Nat, before : Pages, ticksBefore : Nat]
        /\ shown'.page = location' /\ shown'.ticks \in Nat
        /\ calm => Watching
    BY <1>0, TabBefore
  <1>3. CASE location = tab.current
    <2>1. UNCHANGED <<tab, views, beacon>>
      BY <1>3 DEF FirePop
    <2>2. /\ TabShape(tab', tick) /\ views' \in [Pages -> Nat]
          /\ tab'.loaded /\ tab'.listening /\ ~tab'.visible => tab'.since = NoTime
          /\ ActiveAt(tab', tick) = ActiveTicks(tab) /\ (Watching' <=> Watching)
          /\ ShouldTrack(tab') = ShouldTrack(tab)
      BY <2>1, TabBefore DEF Watching
    <2>3. ASSUME calm
          PROVE  /\ ActiveTicks(tab) <= shown.ticks /\ (\A i, j \in Sends' : i = j)
                 /\ asked' = IF ShouldTrack(tab) /\ Sends' # {}
                             THEN [views EXCEPT ![location] = views[location] + 1] ELSE views
                 /\ beacon' # NoBeacon => beacon'.seconds <= beacon'.longest
      <3>1. ActiveTicks(tab) <= shown.ticks /\ \A i, j \in Sends : i = j
        BY <1>2, <1>3, <2>3, TabBefore
      <3>2. Sends' = {} <=> Sends = {}
        BY <1>1
      <3>3. Owed <=> ShouldTrack(tab) /\ Sends' # {}
        BY <1>2, <1>3, <2>3, <3>2 DEF Owed
      <3>4. beacon' # NoBeacon => beacon'.seconds <= beacon'.longest
        BY <1>0, <2>1, <2>3, TabBefore
      <3> QED BY <1>0, <1>1, <2>3, <3>1, <3>3, <3>4, TabBefore
    <2> QED BY <1>0, <1>1, <1>2, <1>3, <2>1, <2>2, <2>3, KnownPageStep
  <1>4. CASE location # tab.current
    <2>1. /\ SendEngagement(tab) /\ SendView(tab, location)
          /\ tab' = [NextPage(tab) EXCEPT !.current = location]
      BY <1>4 DEF FirePop
    <2>2. /\ TabShape(tab', tick) /\ SameSwitches(tab', tab) /\ tab'.visible = tab.visible
          /\ tab'.current = location /\ ActiveAt(tab', tick) = 0
          /\ ~tab.visible => tab'.since = NoTime
      <3> DEFINE s == [NextPage(tab) EXCEPT !.current = location]
      <3>1. /\ TabShape(s, tick) /\ SameSwitches(s, tab) /\ s.visible = tab.visible
            /\ s.current = location /\ ActiveAt(s, tick) = 0
            /\ ~tab.visible => s.since = NoTime
        BY TabBefore, NextPageBegins
      <3>2. tab' = s
        BY <2>1
      <3> HIDE DEF s
      <3> QED BY <3>1, <3>2
    <2>3. /\ views' \in [Pages -> Nat]
          /\ views' = IF ShouldTrack(tab) THEN [views EXCEPT ![location] = views[location] + 1]
                      ELSE views
      BY <2>1, TabBefore, OneViewMore
    <2>4. ASSUME calm
          PROVE  /\ Sends' = {} /\ asked' = views'
                 /\ beacon' # NoBeacon => beacon'.seconds <= beacon'.longest
      <3>1. Watching /\ Sends = {}
        BY <1>2, <1>4, <2>4, TabBefore
      <3>2. Owed <=> ShouldTrack(tab)
        BY <1>4, <3>1 DEF Owed
      <3>3. asked = views'
        BY <2>3, <2>4, <3>2, TabBefore
      <3>4. beacon' # NoBeacon => beacon'.seconds <= beacon'.longest
        BY <2>1, <2>4, <3>1, ReportsAreBounded
      <3> QED BY <1>0, <1>1, <3>1, <3>3, <3>4
    <2>5. Watching' <=> Watching
      BY <2>2 DEF SameSwitches, Watching
    <2> QED BY <1>0, <1>1, <1>2, <2>2, <2>3, <2>4, <2>5, KnownPageStep
  <1> QED BY <1>3, <1>4

\* Half a second passes: every pending timer was set in the tick that ends.
LEMMA PassHalfSecondStep ==
  ASSUME TabInv, PassHalfSecond
  PROVE  TabInv'
  <1>0. /\ \A i \in DOMAIN timers : timers[i].at = tick
        /\ tick' = tick + 1
        /\ UNCHANGED <<location, tab, timers, asked, views, beacon, calm>>
    BY DEF PassHalfSecond
  <1>1. /\ shown' \in [page : Pages, ticks : Nat, before : Pages, ticksBefore : Nat]
        /\ shown'.page = location /\ shown'.before = shown.before
        /\ shown'.ticksBefore = shown.ticksBefore
        /\ shown'.ticks = shown.ticks + (IF tab.visible THEN 1 ELSE 0)
    <2>1. shown \in [page : Pages, ticks : Nat, before : Pages, ticksBefore : Nat]
          /\ shown.page = location
      BY TabBefore
    <2>2. shown' = IF tab.visible THEN [shown EXCEPT !.ticks = shown.ticks + 1] ELSE shown
      BY DEF PassHalfSecond
    <2>3. CASE tab.visible
      BY <2>1, <2>2, <2>3
    <2>4. CASE ~tab.visible
      BY <2>1, <2>2, <2>4
    <2> QED BY <2>3, <2>4
  <1>2. /\ tick \in Nat \ {0} /\ tab.active \in Nat /\ tab.since \in 0..tick
        /\ tab.visible \in BOOLEAN /\ shown.ticks \in Nat /\ shown.ticksBefore \in Nat
        /\ Watching /\ ~tab.visible => tab.since = NoTime
        /\ (Watching' <=> Watching) /\ Sends' = Sends
    BY <1>0, TabBefore DEF TabShape, Watching, Sends
  <1>3. TabTyped'
    <2>1. tick' \in Nat \ {0} /\ tab'.since \in 0..tick'
      BY <1>0, <1>2
    <2> QED BY <1>0, <1>1, <2>1 DEF TabInv, TabTyped
  <1>4. NavigationInv' /\ CountInv'
    <2>1. ShouldTrack(tab)' <=> ShouldTrack(tab)
      BY <1>0 DEF ShouldTrack
    <2>2. Owed' <=> Owed
      BY <1>0, <1>2, <2>1 DEF Owed
    <2> QED BY <1>0, <1>2, <2>2 DEF TabInv, NavigationInv, CountInv
  <1>5. TimeInv'
    <2>1. Timely'
      <3>1. Timely /\ timers \in Seq([kind : {"send", "pop"}, at : Nat])
        BY TabBefore
      <3> QED BY <1>0, <1>2, <3>1 DEF Timely
    <2>2. Watching => ActiveTicks(tab)' = ActiveTicks(tab) \/ (tab.visible /\ ActiveTicks(tab)' = ActiveTicks(tab) + 1)
      BY <1>0, <1>2 DEF ActiveTicks, NoTime
    <2>3. ASSUME calm, Watching
          PROVE  IF tab.current = location THEN ActiveTicks(tab)' <= shown'.ticks
                 ELSE /\ tab.current = shown'.before
                      /\ ActiveTicks(tab)' + timers[1].at <= shown'.ticksBefore + tick'
      <3>1. ActiveTicks(tab) \in Nat
        BY TabBefore
      <3>2. CASE tab.current = location
        <4>1. ActiveTicks(tab) <= shown.ticks
          BY <2>3, <3>2, TabBefore
        <4> QED BY <1>1, <1>2, <2>2, <2>3, <3>1, <3>2, <4>1
      <3>3. CASE tab.current # location
        <4>1. /\ tab.current = shown.before
              /\ ActiveTicks(tab) + timers[1].at <= shown.ticksBefore + tick
          BY <2>3, <3>3 DEF TabInv, TimeInv
        <4>2. timers[1].at = tick
          <5>1. timers # <<>> /\ timers \in Seq([kind : {"send", "pop"}, at : Nat])
            BY <2>3, <3>3, TabBefore
          <5>2. 1 \in DOMAIN timers
            BY <5>1, QueueHasAHead
          <5> QED BY <1>0, <5>2
        <4> QED BY <1>0, <1>1, <1>2, <2>2, <2>3, <3>1, <3>3, <4>1, <4>2
      <3> QED BY <3>2, <3>3
    <2>4. TimeIsOfItsPage'
      BY <1>0 DEF TabInv, TimeInv, TimeIsOfItsPage
    <2>5. (Watching /\ ~tab.visible => tab.since = NoTime)'
      BY <1>0, <1>2 
    <2> QED BY <1>0, <1>2, <2>1, <2>3, <2>4, <2>5 DEF TimeInv, Timely
  <1> QED BY <1>3, <1>4, <1>5 DEF TabInv

\* A tab that is opened.
LEMMA TabInit == InitTab => TabInv
  <1> SUFFICES ASSUME InitTab PROVE TabInv
    OBVIOUS
  <1>1. /\ tick = 1 /\ location \in Pages /\ timers = <<>> /\ beacon = NoBeacon /\ calm = TRUE
        /\ asked = [p \in Pages |-> 0] /\ views = [p \in Pages |-> 0]
        /\ shown = [page |-> location, ticks |-> 0, before |-> location, ticksBefore |-> 0]
    BY DEF InitTab
  <1>2. PICK welcome \in BOOLEAN, visible \in BOOLEAN :
          tab = [enabled |-> TRUE, welcome |-> welcome, listening |-> welcome,
                 loaded |-> FALSE, visible |-> visible, current |-> "",
                 active |-> 0, since |-> NoTime, last |-> 0, page |-> 0]
    BY DEF InitTab
  <1>3. /\ tab = [f \in {"enabled", "welcome", "listening", "loaded", "visible", "current",
                         "active", "since", "last", "page"} |-> tab[f]]
    BY <1>2
  <1>4. /\ \A f \in {"enabled", "welcome", "listening", "loaded", "visible"} : tab[f] \in BOOLEAN
        /\ tab.active = 0 /\ tab.since = 0 /\ ~tab.loaded
    <2>1. /\ tab.enabled = TRUE /\ tab.welcome = welcome /\ tab.listening = welcome
          /\ tab.loaded = FALSE /\ tab.visible = visible /\ tab.active = 0 /\ tab.since = NoTime
      BY <1>2
    <2> QED BY <2>1 DEF NoTime
  <1>5. TabTyped
    BY <1>1, <1>3, <1>4 DEF TabTyped
  <1>6. ~Watching
    BY <1>4 DEF Watching
  <1>7. NavigationInv /\ CountInv
    BY <1>1, <1>6 DEF NavigationInv, CountInv, Owed
  <1>8. TimeInv
    BY <1>1, <1>6 DEF TimeInv, TimeIsOfItsPage
  <1> QED BY <1>5, <1>7, <1>8 DEF TabInv

\* The queue of timers, the views owed and the time counted, in every tab.
THEOREM TabHolds == TabSpec => [](TabTyped /\ NavigationInv /\ CountInv /\ TimeInv)
  <1>1. TabInv /\ [NextTab]_tabVars => TabInv'
    <2> SUFFICES ASSUME TabInv, [NextTab]_tabVars
                 PROVE  TabInv'
      OBVIOUS
    <2>1. CASE UNCHANGED tabVars
      <3>1. /\ UNCHANGED <<tick, location, timers, asked, views, shown, tab, beacon>>
            /\ calm' = calm
        BY <2>1 DEF tabVars
      <3>2. /\ TabShape(tab', tick) /\ calm' \in BOOLEAN
            /\ tab'.loaded /\ tab'.listening /\ ~tab'.visible => tab'.since = NoTime
            /\ tab'.loaded /\ tab'.listening => Watching
            /\ ActiveAt(tab', tick) = ActiveAt(tab, tick) /\ ActiveAt(tab, tick) \in Nat
            /\ SameSwitches(tab', tab)
        BY <3>1, TabBefore DEF Watching, SameSwitches
      <3>3. TimeIsOfItsPage'
        BY <3>1 DEF TabInv, TimeInv, TimeIsOfItsPage
      <3> QED BY <3>1, <3>2, <3>3, QuietStep
    <2>2. CASE \E p \in Pages : Push(p) \/ HistoryMove(p) \/ CallPageview(p) \/ CallEvent(p)
      BY <2>2, PushStep, HistoryMoveStep, CallPageviewStep, SwitchStep
    <2>3. CASE Load \/ FireSend \/ FirePop \/ PassHalfSecond
      BY <2>3, LoadStep, FireSendStep, FirePopStep, PassHalfSecondStep
    <2>4. CASE Hide \/ Show \/ PageHide \/ Heartbeat
               \/ \E b \in inflight, ok \in BOOLEAN : AnswerBeacon(b, ok)
      BY <2>4, ReportingStep
    <2>5. CASE Destroy \/ \E on \in BOOLEAN : Switch(on)
      BY <2>5, SwitchStep
    <2> QED BY <2>1, <2>2, <2>3, <2>4, <2>5 DEF NextTab
  <1>2. TabInv => TabTyped /\ NavigationInv /\ CountInv /\ TimeInv
    BY DEF TabInv
  <1> QED BY <1>1, <1>2, TabInit, PTL DEF TabSpec

\* Every page an application shows is counted once, as long as no navigation or
\* call falls within SPA_DELAY of another navigation: with no timer pending, the
\* views sent are the views that should have been.
THEOREM PagesAreCountedOnce == TabSpec => []EveryPageCountedOnce
  <1>1. TabTyped /\ NavigationInv /\ CountInv /\ TimeInv => EveryPageCountedOnce
    BY IdleKnowsThePage DEF EveryPageCountedOnce, TabInv
  <1> QED BY <1>1, TabHolds, PTL

\* No beacon reports more time than its page was visible, give or take SPA_DELAY,
\* whatever hides, shows, heartbeats and failed beacons come in between.
THEOREM TimeIsSpentOnItsPage == TabSpec => []TimeIsOfItsPage
  <1>1. TimeInv => TimeIsOfItsPage
    BY DEF TimeInv
  <1> QED BY <1>1, TabHolds, PTL
===============================================================================
