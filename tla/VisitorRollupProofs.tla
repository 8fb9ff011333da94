------------------------- MODULE VisitorRollupProofs -------------------------
(***************************************************************************)
(* Type correctness of VisitorRollup for every value of its constants: the *)
(* ingestion steps first, then one step per statement of the maintenance   *)
(* job.  That the rows a transaction sums are finite sets is part of the   *)
(* type: COUNT(DISTINCT visitor_key) is a cardinality.                     *)
(***************************************************************************)
EXTENDS VisitorRollup, FiniteSetTheorems, TLAPS

\* The calendar month of a day of the run is one of the run's periods
\* (visitor_counting._period_key_for_date).
LEMMA PeriodType == \A d \in Times : Period(d) \in Periods /\ Period(d) \in Nat
  <1> SUFFICES ASSUME NEW d \in Times PROVE Period(d) \in Periods /\ Period(d) \in Nat
    OBVIOUS
  <1>1. TicksPerPeriod \in Nat \ {0} /\ d \in Nat
    BY VisitorIngestAssumption DEF Times
  <1> QED BY <1>1 DEF Period, Periods

\* A later day never lies in an earlier month: what _period_ended relies on.
LEMMA PeriodMonotone ==
  ASSUME NEW d \in Nat, NEW e \in Nat, d <= e
  PROVE  Period(d) <= Period(e)
  <1>1. TicksPerPeriod \in Nat \ {0}
    BY VisitorIngestAssumption
  <1> QED BY <1>1 DEF Period

\* Every step of a request handler (apps/tracker/services.py), a restart of a
\* web process and midnight keep the type of the tables and of the requests.
LEMMA IngestTyped ==
  ASSUME IngestTypeOK, IngestNext
  PROVE  IngestTypeOK'
  <1> USE DEF IngestTypeOK
  <1>a. /\ req \in [Slots -> Request \cup {NoRequest}]
        /\ \A s \in Slots : req[s].phase = "folded" => req[s].key # NoKey
    BY DEF RequestsTyped
  <1>1. ASSUME NEW s \in Slots, Receive(s) PROVE IngestTypeOK'
    <2>1. PICK c \in Processes, k \in Kinds, site \in Sites, v \in Visitors :
            req' = [req EXCEPT ![s] =
                    [phase |-> "received", process |-> c, kind |-> k,
                     hit |-> hits + 1, site |-> site, visitor |-> v,
                     at |-> clock, key |-> NoKey]]
      BY <1>1 DEF Receive
    <2>2. hits + 1 \in Hits /\ hits' \in 0..MaxHits
      BY <1>1, VisitorIngestAssumption DEF Receive, Hits
    <2>3. RequestsTyped'
      BY <1>a, <2>1, <2>2 DEF Request, RequestsTyped
    <2> QED BY <1>1, <2>2, <2>3 DEF Receive
  <1>2. ASSUME NEW s \in Slots, DeriveKey(s) PROVE IngestTypeOK'
    <2> DEFINE q == req[s]
               p == Period(q.at)
               x == SaltFor(q.process, p)
               k == [visitor |-> q.visitor, site |-> q.site, salt |-> x]
    <2>1. q \in Request
      BY <1>a, <1>2 DEF DeriveKey, NeedsKey, NoRequest
    <2>2. q.process \in Processes /\ q.at \in Times
      BY <2>1 DEF Request
    <2>3. p \in Periods
      BY <2>2, PeriodType
    <2>4. x \in Nat \ {0}
      BY <2>2, <2>3 DEF SaltFor
    <2>5. k \in Key
      BY <2>1, <2>4 DEF Request, Key
    <2> HIDE DEF q, p, x, k
    <2>6. cache' \in [Processes -> [Periods -> Nat]]
      <3>1. cache' = Remember(q.process, p, x)
        BY <1>2 DEF DeriveKey, q, p, x
      <3> QED BY <3>1, <2>2, <2>3, <2>4 DEF Remember
    <2>7. salt' \in [Periods -> Nat] /\ saltsMade' \in Nat
      <3>1. /\ salt' = IF x > saltsMade THEN [salt EXCEPT ![p] = x] ELSE salt
            /\ saltsMade' = IF x > saltsMade THEN x ELSE saltsMade
        BY <1>2 DEF DeriveKey, q, p, x
      <3> QED BY <3>1, <2>3, <2>4
    <2>8. RequestsTyped'
      <3>1. req' = [req EXCEPT ![s] =
                      IF q.kind = "beacon" THEN NoRequest
                      ELSE IF q.phase = "received"
                           THEN [q EXCEPT !.phase = "keyed", !.key = k]
                           ELSE [q EXCEPT !.key = k]]
        BY <1>2 DEF DeriveKey, q, p, x, k
      <3>2. /\ [q EXCEPT !.phase = "keyed", !.key = k] \in Request
            /\ [q EXCEPT !.key = k] \in Request
        BY <2>1, <2>5 DEF Request
      <3>3. q.phase # "folded"
        BY <1>2 DEF DeriveKey, NeedsKey, q
      <3> QED BY <1>a, <2>1, <3>1, <3>2, <3>3 DEF Request, RequestsTyped, NoRequest
    <2> QED BY <1>2, <2>6, <2>7, <2>8 DEF DeriveKey
  <1>3. ASSUME NEW s \in Slots, KeyFails(s) PROVE IngestTypeOK'
    <2>1. req[s] \in Request
      BY <1>a, <1>3 DEF KeyFails, NoRequest
    <2>2. [req[s] EXCEPT !.phase = "keyed"] \in Request
      BY <2>1 DEF Request
    <2>3. RequestsTyped'
      BY <1>a, <1>3, <2>1, <2>2 DEF KeyFails, Request, RequestsTyped, NoRequest
    <2> QED BY <1>3, <2>3 DEF KeyFails
  <1>4. ASSUME NEW s \in Slots, StoreEvent(s) PROVE IngestTypeOK'
    <2>1. req[s] \in Request
      BY <1>a, <1>4 DEF StoreEvent, NoRequest
    <2>2. /\ [req[s] EXCEPT !.phase = "stored", !.key = NoKey] \in Request
          /\ [req[s] EXCEPT !.phase = "folded"] \in Request
      BY <2>1 DEF Request
    <2>3. [hit |-> req[s].hit, site |-> req[s].site, at |-> req[s].at,
           kind |-> req[s].kind, key |-> req[s].key] \in Event
      BY <2>1 DEF Request, Event
    <2>4. events' \subseteq Event
      BY <1>4, <2>3 DEF StoreEvent
    <2>5. RequestsTyped'
      BY <1>a, <1>4, <2>1, <2>2 DEF StoreEvent, Request, RequestsTyped, NoRequest
    <2> QED BY <1>4, <2>4, <2>5 DEF StoreEvent
  <1>5. ASSUME NEW s \in Slots, FoldVisit(s) PROVE IngestTypeOK'
    <2> DEFINE v == [hit |-> req[s].hit, site |-> req[s].site,
                     at |-> req[s].at, key |-> req[s].key]
    <2>1. req[s] \in Request
      BY <1>a, <1>5 DEF FoldVisit, NoRequest
    <2>2. [req[s] EXCEPT !.phase = "folded"] \in Request
      BY <2>1 DEF Request
    <2>3. v \in Visit /\ req[s].hit \in Hits
      BY <1>5, <2>1 DEF FoldVisit, Request, Visit
    <2>4. UnitOf(req[s]) \in Units
      BY <2>1, PeriodType DEF UnitOf, Units, Request
    <2>5. visits' = visits \cup {v} /\ folded' = folded \cup {req[s].hit}
      BY <1>5 DEF FoldVisit
    <2>6. late' \subseteq Units
      BY <1>5, <2>4 DEF FoldVisit, MarkLate
    <2>7. RequestsTyped'
      BY <1>a, <1>5, <2>1, <2>2 DEF FoldVisit, Request, RequestsTyped, NoRequest
    <2>8. IsFiniteSet(visits')
      BY <2>5, FS_AddElement
    <2> QED BY <1>5, <2>3, <2>5, <2>6, <2>7, <2>8 DEF FoldVisit
  <1>6. ASSUME NEW s \in Slots, RecordPresence(s) PROVE IngestTypeOK'
    <2> DEFINE n == [site |-> req[s].site, period |-> Period(req[s].at),
                     scope |-> req[s].kind, key |-> req[s].key]
    <2>1. req[s] \in Request
      BY <1>a, <1>6 DEF RecordPresence, NoRequest
    <2>2. req[s].key \in Key
      BY <1>a, <1>6, <2>1 DEF RecordPresence, Request
    <2>3. n \in Presence
      BY <2>1, <2>2, PeriodType DEF Request, Presence
    <2>4. UnitOf(req[s]) \in Units
      BY <2>1, PeriodType DEF UnitOf, Units, Request
    <2>5. presence' = presence \cup {n}
      BY <1>6 DEF RecordPresence
    <2>6. late' \subseteq Units
      BY <1>6, <2>4 DEF RecordPresence, MarkLate
    <2>7. RequestsTyped'
      BY <1>a, <1>6 DEF RecordPresence, RequestsTyped, NoRequest
    <2>8. IsFiniteSet(presence')
      BY <2>5, FS_AddElement
    <2> QED BY <1>6, <2>3, <2>5, <2>6, <2>7, <2>8 DEF RecordPresence
  <1>7. ASSUME NEW s \in Slots, HandlerFails(s) PROVE IngestTypeOK'
    <2>1. RequestsTyped'
      BY <1>a, <1>7 DEF HandlerFails, RequestsTyped, NoRequest
    <2> QED BY <1>7, <2>1 DEF HandlerFails
  <1>8. ASSUME NEW c \in Processes, RestartProcess(c) PROVE IngestTypeOK'
    <2>1. RequestsTyped'
      BY <1>a, <1>8 DEF RestartProcess, RequestsTyped, NoRequest
    <2> QED BY <1>8, <2>1 DEF RestartProcess
  <1>9. CASE Tick
    <2>1. RequestsTyped'
      BY <1>9 DEF Tick, RequestsTyped
    <2> QED BY <1>9, <2>1, VisitorIngestAssumption DEF Tick, Times
  <1>10. ASSUME NEW site \in Replaced, Replace(site) PROVE IngestTypeOK'
    <2>1. lockedEvents' \subseteq events
      BY <1>10 DEF Replace
    <2> QED BY <1>10, <2>1 DEF Replace, RequestsTyped
  <1>11. CASE EndReplace
    BY <1>11 DEF EndReplace, RequestsTyped
  <1> QED
    BY <1>1, <1>2, <1>3, <1>4, <1>5, <1>6, <1>7, <1>8, <1>9, <1>10, <1>11
       DEF IngestNext, Handle

\* The distinct digests of a visitor among finitely many rows are counted by a
\* natural number.
LEMMA KeysFinite ==
  ASSUME NEW R, IsFiniteSet(R), NEW x
  PROVE  Cardinality(KeysOf(R, x)) \in Nat
  <1> DEFINE S == {w \in R : w.key.visitor = x}
             f == [v \in S |-> v.key]
  <1>1. IsFiniteSet(S)
    BY FS_Subset
  <1>2. f \in Surjection(S, KeysOf(R, x))
    BY DEF Surjection, KeysOf
  <1>3. IsFiniteSet(KeysOf(R, x))
    BY <1>1, <1>2, FS_Surjection
  <1> QED BY <1>3, FS_CardinalityType

\* Moving a runner to a phase keeps its job record well typed.
LEMMA GotoType ==
  ASSUME job \in [Runners -> Job], NEW r \in Runners, NEW ph \in Phases,
         Goto(r, ph)
  PROVE  job' \in [Runners -> Job]
  <1>1. job[r] \in Job
    OBVIOUS
  <1>2. [job[r] EXCEPT !.pc = ph] \in Job
    BY <1>1 DEF Job
  <1> QED BY <1>2 DEF Goto

\* Leaving the unit loop with a status keeps the job record well typed.
LEMMA ConcludeType ==
  ASSUME job \in [Runners -> Job], NEW r \in Runners, NEW st \in Statuses,
         Conclude(r, st)
  PROVE  job' \in [Runners -> Job]
  <1>1. job[r] \in Job
    OBVIOUS
  <1>2. [job[r] EXCEPT !.pc = "tail", !.status = st] \in Job
    BY <1>1 DEF Job, Phases
  <1>3. job' = [job EXCEPT ![r] = [job[r] EXCEPT !.pc = "tail", !.status = st]]
    BY DEF Conclude
  <1> QED BY <1>2, <1>3

\* _units lists (site, period) pairs of the instance.
LEMMA UnitsTyped ==
  ASSUME TypeOK, NEW j
  PROVE  PendingUnits(j) \subseteq Units
  <1>1. \A v \in visits : UnitOf(v) \in Units
    BY PeriodType DEF TypeOK, IngestTypeOK, Visit, UnitOf, Units
  <1>2. \A n \in presence : ScopeUnit(n) \in Units
    BY DEF TypeOK, IngestTypeOK, Presence, ScopeUnit, Units
  <1> QED BY <1>1, <1>2 DEF PendingUnits

\* The rows a unit's statements read are finite sets of rows of the tables.
LEMMA UnitRowsTyped ==
  ASSUME TypeOK, NEW u
  PROVE  /\ OfUnit(u) \in SUBSET Visit /\ OfUnit(u) \in SUBSET visits
         /\ PresenceOf(u) \in SUBSET Presence
         /\ PresenceOf(u) \in SUBSET presence
         /\ IsFiniteSet(OfUnit(u)) /\ IsFiniteSet(PresenceOf(u))
  <1>1. OfUnit(u) \in SUBSET visits /\ PresenceOf(u) \in SUBSET presence
    BY DEF OfUnit, PresenceOf
  <1>2. IsFiniteSet(visits) /\ IsFiniteSet(presence)
    BY DEF TypeOK, IngestTypeOK
  <1>3. IsFiniteSet(OfUnit(u)) /\ IsFiniteSet(PresenceOf(u))
    BY <1>1, <1>2, FS_Subset
  <1> QED BY <1>1, <1>3 DEF TypeOK, IngestTypeOK

\* A transaction that has done nothing is well typed.
LEMMA NoTxTyped == NoTx \in Tx /\ IsFiniteSet(NoTx.monthly) /\ IsFiniteSet(NoTx.scopes)
  BY FS_EmptySet DEF NoTx, Tx

\* The empty database, idle runners and no request are well typed.
LEMMA InitTyped == Init => TypeOK
  <1> SUFFICES ASSUME Init PROVE TypeOK
    OBVIOUS
  <1> USE DEF Init
  <1>1. IngestTypeOK
    BY VisitorIngestAssumption, FS_EmptySet
       DEF IngestInit, IngestTypeOK, RequestsTyped, Times, NoRequest
  <1>2. CountersTyped
    BY DEF RollupInit, CountersTyped
  <1>3. TxTyped
    BY NoTxTyped DEF RollupInit, TxTyped
  <1>4. job \in [Runners -> Job]
    BY VisitorIngestAssumption DEF RollupInit, Job, Phases, Statuses, Times
  <1> QED BY <1>1, <1>2, <1>3, <1>4 DEF RollupInit, TypeOK

\* Every statement, return and crash of a maintenance run (visitor_rollup.py)
\* keeps the types.
LEMMA RollupTyped ==
  ASSUME TypeOK, RollupNext
  PROVE  TypeOK'
  <1> USE DEF TypeOK
  <1> PICK r \in Runners : Start(r) \/ DeadlinePasses(r) \/ Work(r) \/ Crash(r)
    BY DEF RollupNext
  <1>j. job[r] \in Job
    OBVIOUS
  <1>i. ASSUME UNCHANGED ingestVars PROVE IngestTypeOK'
    BY <1>i DEF ingestVars, IngestTypeOK, RequestsTyped
  <1>c. ASSUME UNCHANGED permanentVars PROVE CountersTyped'
    BY <1>c DEF permanentVars, CountersTyped
  <1>x. ASSUME UNCHANGED tx PROVE TxTyped'
    BY <1>x DEF TxTyped
  <1>1. CASE Start(r)
    <2>1. PICK sel \in Selections, dry \in BOOLEAN :
            LET j == [pc |-> IF dry THEN "verdict" ELSE "expire",
                      now |-> clock, sel |-> sel, todo |-> {}, over |-> FALSE,
                      status |-> IF dry THEN "dry_run" ELSE "completed",
                      behind |-> FALSE]
            IN  /\ job' = [job EXCEPT ![r] = [j EXCEPT !.todo = PendingUnits(j)]]
                /\ due' = [due EXCEPT ![r] =
                           {v.hit : v \in {w \in visits :
                                    /\ w.site \in sel.sites
                                    /\ Period(w.at) \in sel.periods
                                    /\ Ended(Period(w.at), clock)}}]
      BY <1>1 DEF Start
    <2> DEFINE j == [pc |-> IF dry THEN "verdict" ELSE "expire",
                     now |-> clock, sel |-> sel, todo |-> {}, over |-> FALSE,
                     status |-> IF dry THEN "dry_run" ELSE "completed",
                     behind |-> FALSE]
    <2>2. PendingUnits(j) \subseteq Units
      BY UnitsTyped
    <2>3. clock \in Times
      BY DEF IngestTypeOK
    <2>4. [j EXCEPT !.todo = PendingUnits(j)] \in Job
      <3> HIDE DEF j
      <3>1. j \in Job
        BY <2>3 DEF j, Job, Phases, Statuses
      <3> QED BY <3>1, <2>2 DEF Job
    <2>5. job' \in [Runners -> Job]
      <3> HIDE DEF j
      <3>1. job' = [job EXCEPT ![r] = [j EXCEPT !.todo = PendingUnits(j)]]
        BY <2>1 DEF j
      <3> QED BY <3>1, <2>4
    <2>6. due' \in [Runners -> SUBSET Hits]
      <3>1. \A v \in visits : v.hit \in Hits
        BY DEF IngestTypeOK, Visit
      <3> QED BY <2>1, <3>1
    <2> QED BY <1>1, <1>i, <1>c, <1>x, <2>5, <2>6 DEF Start
  <1>2. CASE DeadlinePasses(r)
    <2>1. [job[r] EXCEPT !.over = TRUE] \in Job
      BY <1>j DEF Job
    <2> QED BY <1>2, <1>i, <1>c, <1>x, <2>1 DEF DeadlinePasses
  <1>3. CASE ExpireBatch(r)
    <2>1. PICK B \in Batches(job[r]) :
            /\ events' = (events \ B) \cup {[e EXCEPT !.key = NoKey] : e \in B}
            /\ IF Cardinality(B) < BatchSize
               THEN Goto(r, "units") ELSE UNCHANGED job
      BY <1>3 DEF ExpireBatch
    <2>2. B \subseteq events /\ events \subseteq Event
      BY DEF Batches, Expired, IngestTypeOK
    <2>3. \A e \in Event : [e EXCEPT !.key = NoKey] \in Event
      BY DEF Event
    <2>4. events' \subseteq Event
      BY <2>1, <2>2, <2>3
    <2>5. job' \in [Runners -> Job]
      BY <2>1, GotoType DEF Phases
    <2>6. IngestTypeOK'
      <3>1. B \cap lockedEvents = {}
        BY DEF Batches
      <3>2. lockedEvents \subseteq events'
        BY <2>1, <3>1 DEF IngestTypeOK
      <3> QED BY <1>3, <2>4, <3>2 DEF ExpireBatch, IngestTypeOK, RequestsTyped
    <2> QED BY <1>3, <1>c, <1>x, <2>5, <2>6 DEF ExpireBatch
  <1>4. CASE ExpireBusy(r)
    <2>1. job' \in [Runners -> Job]
      BY <1>4, ConcludeType DEF ExpireBusy, Statuses
    <2> QED BY <1>4, <1>i, <1>c, <1>x, <2>1 DEF ExpireBusy
  <1>5. CASE ExpireOver(r)
    <2>1. job' \in [Runners -> Job]
      BY <1>5, GotoType DEF ExpireOver, Phases
    <2> QED BY <1>5, <1>i, <1>c, <1>x, <2>1 DEF ExpireOver
  <1>6. CASE BeginUnit(r)
    <2>1. PICK u \in NextUnit(job[r]) :
            IF u \in PendingUnits(job[r])
            THEN /\ lock' = r
                 /\ tx' = [NoTx EXCEPT !.unit = u]
                 /\ job' = [job EXCEPT ![r].pc = "daily",
                                       ![r].todo = @ \ {u}]
            ELSE /\ job' = [job EXCEPT ![r].todo = @ \ {u}]
                 /\ UNCHANGED <<lock, tx>>
      BY <1>6 DEF BeginUnit
    <2>2. u \in Units
      BY <1>j DEF NextUnit, Job
    <2>3. /\ [job[r] EXCEPT !.pc = "daily", !.todo = @ \ {u}] \in Job
          /\ [job[r] EXCEPT !.todo = @ \ {u}] \in Job
      BY <1>j DEF Job, Phases, InTransaction
    <2>4. job' \in [Runners -> Job]
      BY <2>1, <2>3
    <2>5. TxTyped'
      <3>1. [NoTx EXCEPT !.unit = u] \in Tx
        BY <2>2 DEF NoTx, Tx
      <3>2. /\ [NoTx EXCEPT !.unit = u].monthly = {}
            /\ [NoTx EXCEPT !.unit = u].scopes = {}
        BY DEF NoTx
      <3> QED BY <2>1, <3>1, <3>2, <1>x, FS_EmptySet DEF TxTyped
    <2> QED BY <1>6, <1>i, <1>c, <2>1, <2>4, <2>5 DEF BeginUnit
  <1>7. CASE StopUnits(r)
    <2>1. job' \in [Runners -> Job]
      BY <1>7, ConcludeType DEF StopUnits, Statuses
    <2> QED BY <1>7, <1>i, <1>c, <1>x, <2>1 DEF StopUnits
  <1>8. CASE EndUnits(r)
    <2>1. job' \in [Runners -> Job]
      BY <1>8, GotoType DEF EndUnits, Phases
    <2> QED BY <1>8, <1>i, <1>c, <1>x, <2>1 DEF EndUnits
  <1>9. CASE SumDaily(r)
    <2>1. job' \in [Runners -> Job]
      BY <1>9, GotoType DEF SumDaily, Phases, InTransaction
    <2>2. TxTyped'
      BY <1>9, UnitRowsTyped DEF SumDaily, TxTyped, Tx
    <2> QED BY <1>9, <1>i, <1>c, <2>1, <2>2 DEF SumDaily
  <1>10. CASE SumMonthly(r)
    <2>1. job' \in [Runners -> Job]
      BY <1>10, GotoType DEF SumMonthly, Phases, InTransaction
    <2>2. TxTyped'
      BY <1>10, UnitRowsTyped DEF SumMonthly, TxTyped, Tx
    <2> QED BY <1>10, <1>i, <1>c, <2>1, <2>2 DEF SumMonthly
  <1>11. CASE SumLandings(r)
    <2>1. job' \in [Runners -> Job]
      BY <1>11, GotoType DEF SumLandings, Phases, InTransaction
    <2>2. TxTyped'
      BY <1>11, UnitRowsTyped DEF SumLandings, TxTyped, Tx
    <2> QED BY <1>11, <1>i, <1>c, <2>1, <2>2 DEF SumLandings
  <1>12. CASE SumScopes(r)
    <2>1. job' \in [Runners -> Job]
      BY <1>12, GotoType DEF SumScopes, Phases, InTransaction
    <2>2. TxTyped'
      BY <1>12, UnitRowsTyped DEF SumScopes, TxTyped, Tx
    <2> QED BY <1>12, <1>i, <1>c, <2>1, <2>2 DEF SumScopes
  <1>13. CASE EraseScopes(r)
    <2>1. job' \in [Runners -> Job]
      BY <1>13, GotoType DEF EraseScopes, Phases, InTransaction
    <2>2. IngestTypeOK'
      BY <1>13, UnitRowsTyped DEF EraseScopes, IngestTypeOK, RequestsTyped
    <2> QED BY <1>13, <1>c, <1>x, <2>1, <2>2 DEF EraseScopes
  <1>14. CASE EraseVisits(r)
    <2>1. job' \in [Runners -> Job]
      BY <1>14, GotoType DEF EraseVisits, Phases, InTransaction
    <2>2. IngestTypeOK'
      BY <1>14, UnitRowsTyped DEF EraseVisits, IngestTypeOK, RequestsTyped
    <2> QED BY <1>14, <1>c, <1>x, <2>1, <2>2 DEF EraseVisits
  <1>15. CASE EraseSalts(r)
    <2>1. job' \in [Runners -> Job]
      BY <1>15, GotoType DEF EraseSalts, Phases, InTransaction
    <2>2. DeadSalts(job[r], {tx.unit.period}) \subseteq Periods
      BY DEF DeadSalts
    <2>3. TxTyped'
      BY <1>15, <2>2 DEF EraseSalts, TxTyped, Tx
    <2> QED BY <1>15, <1>i, <1>c, <2>1, <2>3 DEF EraseSalts
  <1>16. CASE BeginFinalSalts(r)
    <2>1. job' \in [Runners -> Job]
      BY <1>16, GotoType DEF BeginFinalSalts, Phases, InTransaction
    <2>2. DeadSalts(job[r], job[r].sel.periods) \subseteq Periods
      BY DEF DeadSalts
    <2>3. TxTyped'
      BY <1>16, <2>2, NoTxTyped DEF BeginFinalSalts, TxTyped, Tx
    <2> QED BY <1>16, <1>i, <1>c, <2>1, <2>3 DEF BeginFinalSalts
  <1>17. CASE SkipFinalSalts(r)
    <2>1. job' \in [Runners -> Job]
      BY <1>17, ConcludeType DEF SkipFinalSalts, Statuses
    <2> QED BY <1>17, <1>i, <1>c, <1>x, <2>1 DEF SkipFinalSalts
  <1>18. CASE Commit(r)
    <2>1. job' \in [Runners -> Job]
      BY <1>18, GotoType DEF Commit, Phases
    <2>2. CountersTyped'
      <3>1. \A c \in [Hits -> Nat] : \A V : Added(c, V) \in [Hits -> Nat]
        BY DEF Added
      <3>2. \A c \in [Units -> [Visitors -> Nat]] : \A R :
              IsFiniteSet(R) => Counted(c, tx.unit, R) \in [Units -> [Visitors -> Nat]]
        BY KeysFinite DEF Counted
      <3> QED BY <1>18, <3>1, <3>2 DEF Commit, CountersTyped, TxTyped
    <2>3. IngestTypeOK'
      <3>1. /\ visits' \in SUBSET visits /\ presence' \in SUBSET presence
            /\ lockedVisits' = {} /\ lockedPresence' = {}
        BY <1>18 DEF Commit
      <3>2. IsFiniteSet(visits') /\ IsFiniteSet(presence')
        BY <3>1, FS_Subset DEF IngestTypeOK
      <3>3. salt' \in [Periods -> Nat]
        BY <1>18 DEF Commit, IngestTypeOK
      <3> QED BY <1>18, <3>1, <3>2, <3>3 DEF Commit, IngestTypeOK, RequestsTyped
    <2> QED BY <1>18, <2>1, <2>2, <2>3, NoTxTyped DEF Commit, TxTyped
  <1>19. CASE CountRemaining(r)
    <2>1. [job[r] EXCEPT !.pc = "verdict",
                         !.behind = PendingUnits(job[r]) # {}] \in Job
      BY <1>j DEF Job, Phases
    <2>2. job' \in [Runners -> Job]
      BY <1>19, <2>1 DEF CountRemaining
    <2> QED BY <1>19, <1>i, <1>c, <1>x, <2>2 DEF CountRemaining
  <1>20. CASE Verdict(r)
    <2>1. PICK st \in Statuses :
            job' = [job EXCEPT ![r] = [job[r] EXCEPT !.pc = "idle", !.status = st]]
      BY <1>20, <1>j DEF Verdict, Job, Statuses
    <2>2. [job[r] EXCEPT !.pc = "idle", !.status = st] \in Job
      BY <1>j DEF Job, Phases
    <2>3. job' \in [Runners -> Job]
      BY <2>1, <2>2
    <2> QED BY <1>20, <1>i, <1>c, <1>x, <2>3 DEF Verdict
  <1>21. CASE Crash(r)
    <2>1. [job[r] EXCEPT !.pc = "idle", !.status = "error"] \in Job
      BY <1>j DEF Job, Phases, Statuses
    <2>2. job' \in [Runners -> Job]
      BY <1>21, <2>1 DEF Crash
    <2>3. IngestTypeOK'
      BY <1>21 DEF Crash, IngestTypeOK, RequestsTyped
    <2>4. TxTyped' /\ lock' \in Runners \cup {Nobody}
      BY <1>21, NoTxTyped DEF Crash, TxTyped
    <2> QED BY <1>21, <1>c, <2>2, <2>3, <2>4 DEF Crash
  <1> QED
    BY <1>1, <1>2, <1>3, <1>4, <1>5, <1>6, <1>7, <1>8, <1>9, <1>10, <1>11,
       <1>12, <1>13, <1>14, <1>15, <1>16, <1>17, <1>18, <1>19, <1>20, <1>21
       DEF Work

\* A request step beside the maintenance job keeps the types.
LEMMA IngestStepTyped ==
  ASSUME TypeOK, IngestStep
  PROVE  TypeOK'
  <1>1. IngestTypeOK'
    BY IngestTyped DEF TypeOK, IngestStep
  <1>2. CountersTyped' /\ TxTyped'
    BY DEF TypeOK, IngestStep, permanentVars, CountersTyped, TxTyped
  <1>3. straggled' \subseteq Hits
    BY DEF TypeOK, IngestStep, Straggling
  <1> QED BY <1>1, <1>2, <1>3 DEF TypeOK, IngestStep

\* TypeOK holds in every reachable state of ingestion and maintenance together,
\* for any number of sites, visitors, processes, requests and runners.
THEOREM RollupTypeCorrect == Spec => []TypeOK
  <1>1. TypeOK /\ [Next]_vars => TypeOK'
    <2>1. CASE UNCHANGED vars
      BY <2>1 DEF vars, ingestVars, rollupVars, permanentVars, TypeOK,
                  IngestTypeOK, RequestsTyped, CountersTyped, TxTyped
    <2> QED BY <2>1, RollupTyped, IngestStepTyped DEF Next
  <1> QED BY InitTyped, <1>1, PTL DEF Spec

-----------------------------------------------------------------------------
(***************************************************************************)
(* Why no pageview is counted twice or lost, whatever the number of sites, *)
(* processes, requests, overlapping invocations and crashes.               *)
(*                                                                         *)
(* The argument: the advisory lock lets one transaction at a time sum and  *)
(* delete (LockInv); what it summed is part of what it deletes (TxInv); a  *)
(* row it deletes without having summed it was folded after the sum        *)
(* (LossInv); a request folds at most once (HitInv).  At the commit, the   *)
(* only step that changes the permanent tables, these say that exactly the *)
(* rows that disappear have been added.                                    *)
(***************************************************************************)


\* The induction: the accounting parts and what they are for.
IInv == TypeOK /\ AccountingInv /\ NeverCountedTwice /\ NothingIsLost

\* A row's unit is never the placeholder of a transaction without a unit.
LEMMA RealUnits == (\A v : UnitOf(v) # NoUnit) /\ (\A u \in Units : u # NoUnit)
  BY DEF UnitOf, NoUnit, Units

\* A lock that is held is held by an invocation inside its transaction.
LEMMA HolderWorks ==
  ASSUME IInv, lock # Nobody
  PROVE  lock \in Runners /\ job[lock].pc \in InTransaction
  BY DEF IInv, TypeOK, AccountingInv, LockInv

\* A step of an invocation that touches no table, lock or transaction, and
\* neither enters nor leaves one, keeps the induction going.
LEMMA QuietStep ==
  ASSUME IInv, TypeOK',
         UNCHANGED <<clock, hits, req, visits, lockedVisits, lockedPresence,
                     folded, daily, monthly, landings, lock, tx, straggled>>,
         \A r \in Runners :
            /\ job'[r].now <= clock
            /\ \/ job'[r].pc = job[r].pc
               \/ job[r].pc \notin InTransaction
                  /\ job'[r].pc \notin InTransaction
  PROVE  IInv'
  <1> USE DEF IInv, AccountingInv
  <1>1. lock # Nobody => job'[lock].pc = job[lock].pc
    BY HolderWorks
  <1>2. LockInv'
    BY DEF LockInv
  <1>3. TxInv'
    BY <1>1 DEF TxInv, Erased
  <1>4. HitInv'
    BY DEF HitInv
  <1>5. LossInv'
    BY <1>1 DEF LossInv, OfUnit
  <1>6. EndedInv'
    BY DEF EndedInv
  <1>7. NeverCountedTwice' /\ NothingIsLost'
    BY DEF NeverCountedTwice, NothingIsLost, Live
  <1> QED BY <1>2, <1>3, <1>4, <1>5, <1>6, <1>7

\* A statement of the open transaction that only adds to what it has summed.
LEMMA SumStep ==
  ASSUME IInv, TypeOK', NEW r \in Runners, NEW ph \in InTransaction,
         UNCHANGED <<clock, hits, req, visits, lockedVisits, folded,
                     daily, monthly, landings, lock, straggled>>,
         job[r].pc \in InTransaction, Goto(r, ph),
         LossInv', TxInv', tx'.unit = tx.unit
  PROVE  IInv'
  <1> USE DEF IInv, AccountingInv
  <1>1. lock = r /\ lock # Nobody
    BY VisitorRollupAssumption DEF LockInv
  <1>2. LockInv'
    <2>1. job'[r].pc = ph
      BY DEF Goto, TypeOK
    <2>2. \A s \in Runners \ {r} : job'[s] = job[s]
      BY DEF Goto, TypeOK
    <2> QED BY <1>1, <2>1, <2>2 DEF LockInv
  <1>3. HitInv'
    BY DEF HitInv
  <1>4. EndedInv'
    <2>1. \A s \in Runners : job'[s].now = job[s].now
      BY DEF Goto, TypeOK, Job
    <2> QED BY <2>1 DEF EndedInv
  <1>5. NeverCountedTwice' /\ NothingIsLost'
    BY DEF NeverCountedTwice, NothingIsLost, Live
  <1> QED BY <1>2, <1>3, <1>4, <1>5

\* Each of run_rollup's steps keeps the induction going.
LEMMA RollupAccounts ==
  ASSUME IInv, RollupNext
  PROVE  IInv'
  <1> USE DEF IInv, AccountingInv
  <1>t. TypeOK'
    BY RollupTyped
  <1> PICK r \in Runners : Start(r) \/ DeadlinePasses(r) \/ Work(r) \/ Crash(r)
    BY DEF RollupNext
  <1>j. job \in [Runners -> Job] /\ clock \in Nat
    BY VisitorIngestAssumption DEF TypeOK, IngestTypeOK, Times
  <1>n. \A s \in Runners : job[s].now <= clock
    BY DEF EndedInv
  <1>q. ASSUME job[r].pc \in InTransaction
        PROVE  lock = r /\ lock # Nobody
    BY <1>q, VisitorRollupAssumption DEF LockInv
  <1>o. ASSUME NEW j, job' = [job EXCEPT ![r] = j]
        PROVE  job'[r] = j /\ \A s \in Runners \ {r} : job'[s] = job[s]
    BY <1>o, <1>j
  <1>1. CASE Start(r)
    <2>1. \A s \in Runners \ {r} : job'[s] = job[s]
      BY <1>1, <1>j DEF Start
    <2>2. job'[r].now = clock /\ job'[r].pc \in {"verdict", "expire"}
      BY <1>1, <1>j DEF Start
    <2> QED BY <1>1, <1>t, <1>j, <1>n, <2>1, <2>2, QuietStep
            DEF Start, ingestVars, permanentVars, InTransaction
  <1>2. CASE DeadlinePasses(r)
    <2>1. \A s \in Runners : job'[s].pc = job[s].pc /\ job'[s].now = job[s].now
      BY <1>2, <1>j DEF DeadlinePasses, Job
    <2> QED BY <1>2, <1>t, <1>n, <2>1, QuietStep
            DEF DeadlinePasses, ingestVars, permanentVars
  <1>3. CASE ExpireBatch(r)
    <2>1. Goto(r, "units") \/ UNCHANGED job
      BY <1>3 DEF ExpireBatch
    <2>2. /\ \A s \in Runners : job'[s].now = job[s].now
          /\ \A s \in Runners \ {r} : job'[s].pc = job[s].pc
          /\ job'[r].pc = job[r].pc \/ job'[r].pc = "units"
      BY <2>1, <1>j DEF Goto, Job
    <2>3. job[r].pc = "expire"
      BY <1>3 DEF ExpireBatch
    <2> QED BY <1>3, <1>t, <1>n, <2>2, <2>3, QuietStep
            DEF ExpireBatch, permanentVars, InTransaction
  <1>4. CASE ExpireBusy(r) \/ ExpireOver(r) \/ StopUnits(r) \/ EndUnits(r)
             \/ SkipFinalSalts(r)
    <2>1. job[r].pc \in {"expire", "units", "post"}
      BY <1>4 DEF ExpireBusy, ExpireOver, StopUnits, EndUnits, SkipFinalSalts
    <2>2. /\ \A s \in Runners : job'[s].now = job[s].now
          /\ \A s \in Runners \ {r} : job'[s].pc = job[s].pc
          /\ job'[r].pc \in {"tail", "units", "post"}
      BY <1>4, <1>j DEF ExpireBusy, ExpireOver, StopUnits, EndUnits,
                        SkipFinalSalts, Goto, Conclude, Job
    <2>3. UNCHANGED <<ingestVars, permanentVars, lock, tx, straggled>>
      BY <1>4 DEF ExpireBusy, ExpireOver, StopUnits, EndUnits, SkipFinalSalts
    <2> QED BY <1>t, <1>n, <2>1, <2>2, <2>3, QuietStep
            DEF ingestVars, permanentVars, InTransaction
  <1>5. CASE CountRemaining(r) \/ Verdict(r)
    <2>1. job[r].pc \in {"tail", "verdict"}
      BY <1>5 DEF CountRemaining, Verdict
    <2>2. /\ \A s \in Runners : job'[s].now = job[s].now
          /\ \A s \in Runners \ {r} : job'[s].pc = job[s].pc
          /\ job'[r].pc \in {"verdict", "idle"}
      BY <1>5, <1>j DEF CountRemaining, Verdict, Job
    <2>3. UNCHANGED <<ingestVars, permanentVars, lock, tx, straggled>>
      BY <1>5 DEF CountRemaining, Verdict
    <2> QED BY <1>t, <1>n, <2>1, <2>2, <2>3, QuietStep
            DEF ingestVars, permanentVars, InTransaction
  <1>6. CASE BeginUnit(r)
    <2>1. PICK u \in NextUnit(job[r]) :
            IF u \in PendingUnits(job[r])
            THEN /\ lock' = r
                 /\ tx' = [NoTx EXCEPT !.unit = u]
                 /\ job' = [job EXCEPT ![r].pc = "daily",
                                       ![r].todo = @ \ {u}]
            ELSE /\ job' = [job EXCEPT ![r].todo = @ \ {u}]
                 /\ UNCHANGED <<lock, tx>>
      BY <1>6 DEF BeginUnit
    <2>u. /\ UNCHANGED <<ingestVars, permanentVars, straggled>>
          /\ job[r].pc = "units" /\ lock = Nobody
      BY <1>6 DEF BeginUnit
    <2>2. CASE u \notin PendingUnits(job[r])
      <3>1. \A s \in Runners : job'[s].pc = job[s].pc /\ job'[s].now = job[s].now
        BY <2>1, <2>2, <1>j DEF Job
      <3> QED BY <1>t, <1>n, <2>u, <2>1, <2>2, <3>1, QuietStep
              DEF ingestVars, permanentVars
    <2>3. CASE u \in PendingUnits(job[r])
      <3>1. lock' = r /\ tx' = [NoTx EXCEPT !.unit = u] /\ lock' # Nobody
        BY <2>1, <2>3, VisitorRollupAssumption
      <3>2. /\ job'[r].pc = "daily"
            /\ \A s \in Runners : job'[s].now = job[s].now
            /\ \A s \in Runners \ {r} : job'[s].pc = job[s].pc
        BY <2>1, <2>3, <1>j DEF Job
      <3>3. lockedVisits' = {} /\ lockedPresence' = {}
        BY <2>u DEF LockInv, ingestVars
      <3>4. LockInv'
        BY <2>u, <3>1, <3>2, VisitorRollupAssumption DEF LockInv, InTransaction
      <3>5. /\ tx'.unit = u
            /\ tx'.daily = {} /\ tx'.monthly = {} /\ tx'.landings = {}
        BY <3>1 DEF NoTx
      <3>6. TxInv'
        <4>1. u \in Units
          BY <2>3, UnitsTyped
        <4> QED BY <4>1, <3>1, <3>2, <3>3, <3>5, RealUnits DEF TxInv, Erased
      <3>7. HitInv'
        BY <2>u DEF HitInv, ingestVars, permanentVars
      <3>8. LossInv'
        BY <3>1, <3>2 DEF LossInv
      <3>9. EndedInv'
        <4>1. u \in Units /\ Ended(u.period, job[r].now)
          BY <2>3, UnitsTyped DEF PendingUnits
        <4>2. job[r].now \in Nat /\ job[r].now <= clock
          BY <1>j, <1>n, VisitorIngestAssumption DEF Job, Times
        <4>3. Period(job[r].now) <= Period(clock)
          BY <1>j, <4>2, PeriodMonotone
        <4>4. /\ u.period \in Nat
              /\ Period(job[r].now) \in Nat /\ Period(clock) \in Nat
          <5>1. TicksPerPeriod \in Nat \ {0}
            BY VisitorIngestAssumption
          <5>2. \A d \in Nat : Period(d) \in Nat
            BY <5>1 DEF Period
          <5>3. u.period \in Periods
            BY <4>1 DEF Units
          <5>4. \A p \in Periods : p \in Nat
            BY <5>2, VisitorIngestAssumption DEF Periods, Times
          <5> QED BY <5>2, <5>3, <5>4, <4>2, <1>j
        <4>5. Ended(u.period, clock)
          BY <4>1, <4>3, <4>4 DEF Ended
        <4> QED BY <4>5, <2>u, <3>2, <3>5, <1>n DEF EndedInv, ingestVars, Ended, Period
      <3>10. NeverCountedTwice' /\ NothingIsLost'
        BY <2>u DEF NeverCountedTwice, NothingIsLost, Live, ingestVars, permanentVars
      <3> QED BY <1>t, <3>4, <3>6, <3>7, <3>8, <3>9, <3>10
    <2> QED BY <2>2, <2>3
  <1>7. CASE SumDaily(r)
    <2>1. /\ job[r].pc = "daily" /\ Goto(r, "monthly")
          /\ tx' = [tx EXCEPT !.daily = OfUnit(tx.unit)]
          /\ UNCHANGED <<ingestVars, permanentVars, lock, straggled>>
      BY <1>7 DEF SumDaily
    <2>2. lock = r /\ lock # Nobody
      BY <2>1, <1>q DEF InTransaction
    <2>3. job'[r].pc = "monthly"
      BY <2>1, <1>j DEF Goto
    <2>4. /\ tx'.unit = tx.unit /\ tx'.daily = OfUnit(tx.unit)
          /\ tx'.monthly = tx.monthly /\ tx'.landings = tx.landings
      BY <2>1 DEF TypeOK, TxTyped, Tx
    <2>5. UNCHANGED <<visits, lockedVisits>>
      BY <2>1 DEF ingestVars
    <2>6. TxInv'
      BY <2>1, <2>2, <2>3, <2>4, <2>5 DEF TxInv, Erased, OfUnit
    <2>7. LossInv'
      BY <2>1, <2>2, <2>3, <2>4, <2>5 DEF LossInv, OfUnit
    <2> QED BY <1>t, <2>1, <2>4, <2>6, <2>7, SumStep
            DEF InTransaction, ingestVars, permanentVars
  <1>8. CASE SumMonthly(r)
    <2>1. /\ job[r].pc = "monthly" /\ Goto(r, "landings")
          /\ tx' = [tx EXCEPT !.monthly = OfUnit(tx.unit)]
          /\ UNCHANGED <<ingestVars, permanentVars, lock, straggled>>
      BY <1>8 DEF SumMonthly
    <2>2. lock = r /\ lock # Nobody
      BY <2>1, <1>q DEF InTransaction
    <2>3. job'[r].pc = "landings"
      BY <2>1, <1>j DEF Goto
    <2>4. /\ tx'.unit = tx.unit /\ tx'.daily = tx.daily
          /\ tx'.monthly = OfUnit(tx.unit) /\ tx'.landings = tx.landings
      BY <2>1 DEF TypeOK, TxTyped, Tx
    <2>5. UNCHANGED <<visits, lockedVisits>>
      BY <2>1 DEF ingestVars
    <2>6. TxInv'
      BY <2>1, <2>2, <2>3, <2>4, <2>5 DEF TxInv, Erased, OfUnit
    <2>7. LossInv'
      BY <2>1, <2>2, <2>3, <2>4, <2>5 DEF LossInv, OfUnit
    <2> QED BY <1>t, <2>1, <2>4, <2>6, <2>7, SumStep
            DEF InTransaction, ingestVars, permanentVars
  <1>9. CASE SumLandings(r)
    <2>1. /\ job[r].pc = "landings" /\ Goto(r, "scopes")
          /\ tx' = [tx EXCEPT !.landings = OfUnit(tx.unit)]
          /\ UNCHANGED <<ingestVars, permanentVars, lock, straggled>>
      BY <1>9 DEF SumLandings
    <2>2. lock = r /\ lock # Nobody
      BY <2>1, <1>q DEF InTransaction
    <2>3. job'[r].pc = "scopes"
      BY <2>1, <1>j DEF Goto
    <2>4. /\ tx'.unit = tx.unit /\ tx'.daily = tx.daily
          /\ tx'.monthly = tx.monthly /\ tx'.landings = OfUnit(tx.unit)
      BY <2>1 DEF TypeOK, TxTyped, Tx
    <2>5. UNCHANGED <<visits, lockedVisits>>
      BY <2>1 DEF ingestVars
    <2>6. TxInv'
      BY <2>1, <2>2, <2>3, <2>4, <2>5 DEF TxInv, Erased, OfUnit
    <2>7. LossInv'
      BY <2>1, <2>2, <2>3, <2>4, <2>5 DEF LossInv, OfUnit
    <2> QED BY <1>t, <2>1, <2>4, <2>6, <2>7, SumStep
            DEF InTransaction, ingestVars, permanentVars
  <1>10. CASE SumScopes(r) \/ EraseScopes(r)
    <2>1. PICK ph \in {"erase_scopes", "erase"} :
            /\ job[r].pc \in {"scopes", "erase_scopes"} /\ Goto(r, ph)
            /\ UNCHANGED <<clock, hits, req, visits, lockedVisits, folded,
                           permanentVars, lock, straggled>>
      BY <1>10 DEF SumScopes, EraseScopes, ingestVars
    <2>2. lock = r /\ lock # Nobody
      BY <2>1, <1>q DEF InTransaction
    <2>3. job'[r].pc = ph
      BY <2>1, <1>j DEF Goto
    <2>4. /\ tx'.unit = tx.unit /\ tx'.daily = tx.daily
          /\ tx'.monthly = tx.monthly /\ tx'.landings = tx.landings
      BY <1>10 DEF SumScopes, EraseScopes, TypeOK, TxTyped, Tx
    <2>6. TxInv'
      BY <2>1, <2>2, <2>3, <2>4 DEF TxInv, Erased
    <2>7. LossInv'
      BY <2>1, <2>2, <2>3, <2>4 DEF LossInv, OfUnit
    <2> QED BY <1>t, <2>1, <2>4, <2>6, <2>7, SumStep
            DEF InTransaction, permanentVars
  <1>11. CASE EraseVisits(r)
    <2>1. /\ job[r].pc = "erase" /\ Goto(r, "salts")
          /\ lockedVisits' = OfUnit(tx.unit)
          /\ UNCHANGED <<clock, hits, req, visits, lockedPresence, folded,
                         permanentVars, lock, tx, straggled>>
      BY <1>11 DEF EraseVisits
    <2>2. lock = r /\ lock # Nobody
      BY <2>1, <1>q DEF InTransaction
    <2>3. job'[r].pc = "salts"
      BY <2>1, <1>j DEF Goto
    <2>4. LockInv'
      <3>1. \A s \in Runners \ {r} : job'[s] = job[s]
        BY <2>1, <1>j DEF Goto
      <3> QED BY <2>1, <2>2, <2>3, <3>1 DEF LockInv, InTransaction
    <2>5. TxInv'
      BY <2>1, <2>2, <2>3 DEF TxInv, Erased, OfUnit
    <2>6. LossInv'
      BY <2>1, <2>2, <2>3 DEF LossInv, OfUnit
    <2>7. HitInv'
      BY <2>1 DEF HitInv, permanentVars
    <2>8. EndedInv'
      <3>1. \A s \in Runners : job'[s].now = job[s].now
        BY <2>1, <1>j DEF Goto, Job
      <3> QED BY <2>1, <3>1 DEF EndedInv
    <2>9. NeverCountedTwice' /\ NothingIsLost'
      BY <2>1 DEF NeverCountedTwice, NothingIsLost, Live, permanentVars
    <2> QED BY <1>t, <2>4, <2>5, <2>6, <2>7, <2>8, <2>9
  <1>12. CASE EraseSalts(r)
    <2>1. /\ job[r].pc = "salts" /\ Goto(r, "commit")
          /\ UNCHANGED <<ingestVars, permanentVars, lock, straggled>>
      BY <1>12 DEF EraseSalts
    <2>2. lock = r /\ lock # Nobody
      BY <2>1, <1>q DEF InTransaction
    <2>3. job'[r].pc = "commit"
      BY <2>1, <1>j DEF Goto
    <2>4. /\ tx'.unit = tx.unit /\ tx'.daily = tx.daily
          /\ tx'.monthly = tx.monthly /\ tx'.landings = tx.landings
      BY <1>12 DEF EraseSalts, TypeOK, TxTyped, Tx
    <2>5. UNCHANGED <<visits, lockedVisits>>
      BY <2>1 DEF ingestVars
    <2>6. TxInv'
      BY <2>1, <2>2, <2>3, <2>4, <2>5 DEF TxInv, Erased
    <2>7. LossInv'
      BY <2>1, <2>2, <2>3, <2>4, <2>5 DEF LossInv, OfUnit
    <2> QED BY <1>t, <2>1, <2>4, <2>6, <2>7, SumStep
            DEF InTransaction, ingestVars, permanentVars
  <1>13. CASE BeginFinalSalts(r)
    <2>1. /\ job[r].pc = "post" /\ Goto(r, "commit")
          /\ lock = Nobody /\ lock' = r /\ lock' # Nobody
          /\ UNCHANGED <<ingestVars, permanentVars, straggled>>
      BY <1>13, VisitorRollupAssumption DEF BeginFinalSalts
    <2>2. /\ tx'.unit = NoUnit /\ tx'.daily = {}
          /\ tx'.monthly = {} /\ tx'.landings = {}
      BY <1>13 DEF BeginFinalSalts, NoTx
    <2>3. /\ job'[r].pc = "commit"
          /\ \A s \in Runners : job'[s].now = job[s].now
          /\ \A s \in Runners \ {r} : job'[s].pc = job[s].pc
      BY <2>1, <1>j DEF Goto, Job
    <2>4. lockedVisits' = {} /\ lockedPresence' = {}
      BY <2>1 DEF LockInv, ingestVars
    <2>5. LockInv'
      BY <2>1, <2>3, VisitorRollupAssumption DEF LockInv, InTransaction
    <2>6. TxInv'
      BY <2>1, <2>2, <2>3, <2>4 DEF TxInv, Erased
    <2>7. LossInv'
      BY <2>2, RealUnits DEF LossInv, OfUnit
    <2>8. HitInv'
      BY <2>1 DEF HitInv, ingestVars, permanentVars
    <2>9. EndedInv'
      BY <2>1, <2>2, <2>3 DEF EndedInv, ingestVars
    <2>10. NeverCountedTwice' /\ NothingIsLost'
      BY <2>1 DEF NeverCountedTwice, NothingIsLost, Live, ingestVars, permanentVars
    <2> QED BY <1>t, <2>5, <2>6, <2>7, <2>8, <2>9, <2>10
  <1>14. CASE Commit(r)
    <2>1. /\ job[r].pc = "commit" /\ lock' = Nobody /\ tx' = NoTx
          /\ visits' = visits \ lockedVisits
          /\ lockedVisits' = {} /\ lockedPresence' = {}
          /\ UNCHANGED <<clock, hits, req, folded, straggled>>
      BY <1>14 DEF Commit
    <2>2. lock = r /\ lock # Nobody
      BY <2>1, <1>q DEF InTransaction
    <2>3. /\ job'[r].pc \in {"tail", "units"}
          /\ \A s \in Runners : job'[s].now = job[s].now
          /\ \A s \in Runners \ {r} : job'[s].pc = job[s].pc
      BY <1>14, <1>j DEF Commit, Goto, Job
    <2>4. tx.daily \cup tx.monthly \cup tx.landings \subseteq lockedVisits
      BY <2>1, <2>2 DEF TxInv, Erased
    <2>5. lockedVisits \subseteq visits
      BY DEF TypeOK, IngestTypeOK
    <2>6. ASSUME NEW h \in Hits
          PROVE  /\ daily'[h] = daily[h] + (IF \E v \in tx.daily : v.hit = h THEN 1 ELSE 0)
                 /\ monthly'[h] = monthly[h] + (IF \E v \in tx.monthly : v.hit = h THEN 1 ELSE 0)
                 /\ landings'[h] = landings[h] + (IF \E v \in tx.landings : v.hit = h THEN 1 ELSE 0)
      BY <1>14 DEF Commit, Added
    <2>7. LockInv'
      BY <2>1, <2>2, <2>3, VisitorRollupAssumption DEF LockInv, InTransaction
    <2>8. TxInv'
      BY <2>1 DEF TxInv, Erased, NoTx
    <2>9. HitInv'
      <3>1. \A h \in Hits \ folded :
              daily'[h] = 0 /\ monthly'[h] = 0 /\ landings'[h] = 0
        BY <2>4, <2>5, <2>6 DEF HitInv
      <3> QED BY <2>1, <3>1 DEF HitInv
    <2>10. LossInv'
      BY <2>1 DEF LossInv
    <2>11. EndedInv'
      BY <2>1, <2>3 DEF EndedInv, NoTx
    <2>12. NeverCountedTwice'
      <3> SUFFICES ASSUME NEW h \in Hits
                   PROVE  /\ daily'[h] + (IF Live(h)' THEN 1 ELSE 0) <= 1
                          /\ monthly'[h] + (IF Live(h)' THEN 1 ELSE 0) <= 1
                          /\ landings'[h] + (IF Live(h)' THEN 1 ELSE 0) <= 1
        BY DEF NeverCountedTwice
      <3>1. daily[h] \in Nat /\ monthly[h] \in Nat /\ landings[h] \in Nat
        BY DEF TypeOK, CountersTyped
      <3>2. Live(h)' => Live(h)
        BY <2>1 DEF Live
      <3>3. ASSUME NEW v \in lockedVisits, v.hit = h
            PROVE  Live(h) /\ ~Live(h)'
        BY <3>3, <2>1, <2>5 DEF Live, HitInv
      <3>4. (\E v \in tx.daily \cup tx.monthly \cup tx.landings : v.hit = h)
              => Live(h) /\ ~Live(h)'
        BY <2>4, <3>3
      <3> QED BY <3>1, <3>2, <3>4, <2>6 DEF NeverCountedTwice
    <2>13. NothingIsLost'
      <3> SUFFICES ASSUME NEW h \in folded \ straggled, ~Live(h)'
                   PROVE  daily'[h] = 1 /\ monthly'[h] = 1 /\ landings'[h] = 1
        BY <2>1 DEF NothingIsLost
      <3>0. h \in Hits
        BY DEF TypeOK, IngestTypeOK
      <3>1. daily[h] \in Nat /\ monthly[h] \in Nat /\ landings[h] \in Nat
        BY <3>0 DEF TypeOK, CountersTyped
      <3>2. CASE Live(h)
        <4>1. PICK v \in visits : v.hit = h
          BY <3>2 DEF Live
        <4>2. v \in lockedVisits
          BY <4>1, <2>1 DEF Live
        <4>3. UnitOf(v) = tx.unit
          BY <4>2 DEF TxInv
        <4>4. v \in tx.daily /\ v \in tx.monthly /\ v \in tx.landings
          BY <4>1, <4>2, <4>3, <2>1, <2>2 DEF LossInv, OfUnit
        <4>5. daily[h] = 0 /\ monthly[h] = 0 /\ landings[h] = 0
          BY <3>0, <3>1, <3>2 DEF NeverCountedTwice
        <4> QED BY <3>0, <4>1, <4>4, <4>5, <2>6
      <3>3. CASE ~Live(h)
        <4>1. daily[h] = 1 /\ monthly[h] = 1 /\ landings[h] = 1
          BY <3>3 DEF NothingIsLost
        <4>2. ~ \E v \in tx.daily \cup tx.monthly \cup tx.landings : v.hit = h
          BY <3>3, <2>4, <2>5 DEF Live
        <4> QED BY <3>0, <4>1, <4>2, <2>6
      <3> QED BY <3>2, <3>3
    <2> QED BY <1>t, <2>7, <2>8, <2>9, <2>10, <2>11, <2>12, <2>13
  <1>15. CASE Crash(r)
    <2>1. UNCHANGED <<clock, hits, req, visits, folded, daily, monthly,
                      landings, straggled>>
      BY <1>15 DEF Crash, permanentVars
    <2>2. /\ job[r].pc # "idle" /\ job'[r].pc = "idle"
          /\ \A s \in Runners : job'[s].now = job[s].now
          /\ \A s \in Runners \ {r} : job'[s].pc = job[s].pc
      BY <1>15, <1>j DEF Crash, Job
    <2>3. CASE lock # r
      <3>1. job[r].pc \notin InTransaction
        BY <2>3 DEF LockInv
      <3>2. UNCHANGED <<lock, tx, lockedVisits, lockedPresence>>
        BY <1>15, <2>3 DEF Crash
      <3> QED BY <1>t, <1>n, <2>1, <2>2, <3>1, <3>2, QuietStep DEF InTransaction
    <2>4. CASE lock = r
      <3>1. lock' = Nobody /\ tx' = NoTx /\ lockedVisits' = {} /\ lockedPresence' = {}
        BY <1>15, <2>4 DEF Crash
      <3>2. LockInv'
        BY <2>2, <2>4, <3>1, VisitorRollupAssumption DEF LockInv, InTransaction
      <3>3. TxInv'
        BY <3>1 DEF TxInv, Erased, NoTx
      <3>4. HitInv'
        BY <2>1 DEF HitInv
      <3>5. LossInv'
        BY <3>1 DEF LossInv
      <3>6. EndedInv'
        BY <2>1, <2>2, <3>1 DEF EndedInv, NoTx
      <3>7. NeverCountedTwice' /\ NothingIsLost'
        BY <2>1 DEF NeverCountedTwice, NothingIsLost, Live
      <3> QED BY <1>t, <3>2, <3>3, <3>4, <3>5, <3>6, <3>7
    <2> QED BY <2>3, <2>4
  <1> QED
    BY <1>1, <1>2, <1>3, <1>4, <1>5, <1>6, <1>7, <1>8, <1>9, <1>10, <1>11,
       <1>12, <1>13, <1>14, <1>15 DEF Work

\* A step of a request handler that folds nothing: at most it moves its
\* request forward or ends it.
LEMMA RequestStep ==
  ASSUME IInv, TypeOK', straggled' = straggled,
         UNCHANGED <<clock, hits, visits, lockedVisits, lockedPresence,
                     folded, permanentVars, job, lock, tx>>,
         \A s \in Slots : req'[s] # NoRequest =>
            /\ req[s] # NoRequest
            /\ req'[s].hit = req[s].hit
            /\ req'[s].phase # "folded" => req[s].phase # "folded"
  PROVE  IInv'
  <1> USE DEF IInv, AccountingInv, permanentVars
  <1>1. LockInv' /\ EndedInv'
    BY DEF LockInv, EndedInv
  <1>2. TxInv' /\ LossInv'
    BY DEF TxInv, Erased, LossInv, OfUnit
  <1>3. HitInv'
    BY DEF HitInv
  <1>4. NeverCountedTwice' /\ NothingIsLost'
    BY DEF NeverCountedTwice, NothingIsLost, Live
  <1> QED BY <1>1, <1>2, <1>3, <1>4

\* Each handler step, restart and midnight keeps the induction going.
LEMMA IngestAccounts ==
  ASSUME IInv, IngestStep
  PROVE  IInv'
  <1> USE DEF IInv, AccountingInv
  <1>t. TypeOK'
    BY IngestStepTyped
  <1>k. UNCHANGED <<permanentVars, job, lock, tx>>
    BY DEF IngestStep
  <1>r. req \in [Slots -> Request \cup {NoRequest}]
    BY DEF TypeOK, IngestTypeOK, RequestsTyped
  <1>s. ASSUME visits' = visits PROVE straggled' = straggled
    BY <1>s DEF IngestStep, Straggling
  <1>1. ASSUME NEW s \in Slots,
               KeyFails(s) \/ StoreEvent(s) \/ RecordPresence(s) \/ HandlerFails(s)
        PROVE  IInv'
    <2>1. /\ UNCHANGED <<clock, hits, visits, lockedVisits, lockedPresence, folded>>
          /\ req[s] # NoRequest
      BY <1>1 DEF KeyFails, StoreEvent, RecordPresence, HandlerFails, NoRequest
    <2>2. req[s] \in Request
      BY <1>r, <2>1
    <2>3. /\ \A t \in Slots \ {s} : req'[t] = req[t]
          /\ req'[s] # NoRequest => /\ req'[s].hit = req[s].hit
                                   /\ req[s].phase # "folded"
      BY <1>1, <1>r, <2>2, ZenonT(40)
         DEF KeyFails, StoreEvent, RecordPresence, HandlerFails, Request
    <2> QED BY <1>t, <1>k, <1>s, <2>1, <2>3, RequestStep
  <1>2. ASSUME NEW s \in Slots, DeriveKey(s) PROVE IInv'
    <2>1. /\ UNCHANGED <<clock, hits, visits, lockedVisits, lockedPresence, folded>>
          /\ req[s].phase \in {"received", "stored"} /\ req[s] # NoRequest
      BY <1>2 DEF DeriveKey, NeedsKey, NoRequest
    <2>2. req[s] \in Request
      BY <1>r, <2>1
    <2>3. PICK k : req' = [req EXCEPT ![s] =
                        IF req[s].kind = "beacon" THEN NoRequest
                        ELSE IF req[s].phase = "received"
                             THEN [req[s] EXCEPT !.phase = "keyed", !.key = k]
                             ELSE [req[s] EXCEPT !.key = k]]
      BY <1>2 DEF DeriveKey
    <2>4. /\ \A t \in Slots \ {s} : req'[t] = req[t]
          /\ req'[s] # NoRequest => req'[s].hit = req[s].hit
      BY <1>r, <2>2, <2>3 DEF Request
    <2> QED BY <1>t, <1>k, <1>s, <2>1, <2>4, RequestStep
  <1>3. ASSUME NEW c \in Processes, RestartProcess(c) PROVE IInv'
    <2>1. UNCHANGED <<clock, hits, visits, lockedVisits, lockedPresence, folded>>
      BY <1>3 DEF RestartProcess
    <2>2. \A t \in Slots : req'[t] = req[t] \/ req'[t] = NoRequest
      BY <1>3, <1>r DEF RestartProcess
    <2> QED BY <1>t, <1>k, <1>s, <2>1, <2>2, RequestStep
  <1>4. CASE Tick
    <2>1. /\ UNCHANGED <<req, hits, visits, lockedVisits, lockedPresence, folded>>
          /\ clock' = clock + 1 /\ straggled' = straggled
      BY <1>4, <1>s DEF Tick
    <2>2. clock \in Nat
      BY DEF TypeOK, IngestTypeOK, Times
    <2>3. EndedInv'
      <3>1. \A r \in Runners : job[r].now \in Nat
        BY VisitorIngestAssumption DEF TypeOK, Job, Times
      <3>2. Period(clock) <= Period(clock + 1)
        BY <2>2, PeriodMonotone
      <3>3. TicksPerPeriod \in Nat \ {0}
        BY VisitorIngestAssumption
      <3>4. \A d \in Nat : Period(d) \in Nat
        BY <3>3 DEF Period
      <3>5. \A p \in Periods : p \in Nat
        BY <3>4, VisitorIngestAssumption DEF Periods, Times
      <3>6. tx.unit # NoUnit => tx.unit.period \in Nat
        BY <3>5 DEF TypeOK, TxTyped, Tx, Units
      <3>7. Period(clock) \in Nat /\ Period(clock + 1) \in Nat
        BY <2>2, <3>4
      <3>8. ASSUME tx.unit # NoUnit PROVE tx.unit.period < Period(clock + 1)
        BY <3>8, <3>2, <3>6, <3>7 DEF EndedInv, Ended
      <3>9. \A r \in Runners : job'[r].now <= clock'
        BY <1>k, <2>1, <2>2, <3>1 DEF EndedInv
      <3>10. tx'.unit # NoUnit => Ended(tx'.unit.period, clock')
        BY <1>k, <2>1, <3>8 DEF Ended
      <3> QED BY <3>9, <3>10 DEF EndedInv, Ended, Period
    <2>4. LockInv' /\ TxInv' /\ LossInv' /\ HitInv'
      BY <1>k, <2>1 DEF LockInv, TxInv, Erased, LossInv, OfUnit, HitInv, permanentVars
    <2>5. NeverCountedTwice' /\ NothingIsLost'
      BY <1>k, <2>1 DEF NeverCountedTwice, NothingIsLost, Live, permanentVars
    <2> QED BY <1>t, <2>3, <2>4, <2>5
  <1>5. ASSUME NEW s \in Slots, Receive(s) PROVE IInv'
    <2>1. /\ UNCHANGED <<clock, visits, lockedVisits, lockedPresence, folded>>
          /\ hits' = hits + 1 /\ straggled' = straggled
      BY <1>5, <1>s DEF Receive
    <2>2. /\ req'[s].hit = hits + 1
          /\ \A t \in Slots \ {s} : req'[t] = req[t]
      BY <1>5, <1>r DEF Receive
    <2>3. /\ hits \in Nat
          /\ \A t \in Slots : req[t] # NoRequest => req[t].hit \in Nat
          /\ \A h \in folded : h \in Nat
      BY <1>r, VisitorIngestAssumption DEF TypeOK, IngestTypeOK, Request, Hits
    <2>4. HitInv'
      BY <1>k, <2>1, <2>2, <2>3 DEF HitInv, permanentVars
    <2>5. LockInv' /\ TxInv' /\ LossInv' /\ EndedInv'
      BY <1>k, <2>1 DEF LockInv, TxInv, Erased, LossInv, OfUnit, EndedInv
    <2>6. NeverCountedTwice' /\ NothingIsLost'
      BY <1>k, <2>1 DEF NeverCountedTwice, NothingIsLost, Live, permanentVars
    <2> QED BY <1>t, <2>4, <2>5, <2>6
  <1>6. ASSUME NEW s \in Slots, FoldVisit(s) PROVE IInv'
    <2> DEFINE new == [hit |-> req[s].hit, site |-> req[s].site,
                       at |-> req[s].at, key |-> req[s].key]
               h0 == req[s].hit
    <2>1. /\ UNCHANGED <<clock, hits, lockedVisits, lockedPresence>>
          /\ visits' = visits \cup {new} /\ folded' = folded \cup {h0}
          /\ req[s] # NoRequest /\ req[s].phase = "stored"
          /\ req' = [req EXCEPT ![s].phase = "folded"]
      BY <1>6 DEF FoldVisit, NoRequest
    <2>2. req[s] \in Request /\ h0 \in Hits
      BY <1>r, <2>1 DEF Request
    <2>3. /\ req'[s].hit = h0 /\ req'[s].phase = "folded"
          /\ \A t \in Slots \ {s} : req'[t] = req[t]
      BY <1>r, <2>1, <2>2 DEF Request
    <2>4. h0 \notin folded /\ h0 <= hits
      BY <2>1 DEF HitInv
    <2>5. new.hit = h0 /\ \A v \in visits : v.hit # h0
      BY <2>4 DEF HitInv
    <2>6. new \notin visits
      BY <2>5
    <2>7. lockedVisits \subseteq visits
      BY DEF TypeOK, IngestTypeOK
    <2>8. straggled \subseteq straggled' /\ straggled' = straggled \cup Straggling
      BY DEF IngestStep
    <2> HIDE DEF new, h0
    <2>9. LockInv' /\ EndedInv'
      BY <1>k, <2>1 DEF LockInv, EndedInv
    <2>10. TxInv'
      BY <1>k, <2>1 DEF TxInv, Erased
    <2>11. HitInv'
      <3>1. \A v, w \in visits' : v.hit = w.hit => v = w
        BY <2>1, <2>5 DEF HitInv
      <3>2. \A t \in Slots : req'[t] # NoRequest =>
              /\ req'[t].hit <= hits'
              /\ req'[t].phase # "folded" => req'[t].hit \notin folded'
              /\ \A u \in Slots : req'[u] # NoRequest /\ req'[u].hit = req'[t].hit
                                    => t = u
        <4>1. \A t \in Slots \ {s} : req[t] # NoRequest => req[t].hit # h0
          BY <2>1 DEF HitInv, h0
        <4> QED BY <2>1, <2>3, <2>4, <4>1 DEF HitInv
      <3> QED BY <1>k, <2>1, <2>4, <2>5, <3>1, <3>2 DEF HitInv, permanentVars
    <2>12. LossInv'
      <3> SUFFICES ASSUME lock # Nobody, NEW v \in visits', UnitOf(v) = tx.unit
                   PROVE  LET pc == job[lock].pc IN
                          \/ v.hit \in straggled'
                          \/ pc \in {"salts", "commit"} /\ v \notin lockedVisits'
                          \/ /\ pc # "daily" => v \in tx.daily
                             /\ pc \notin {"daily", "monthly"} => v \in tx.monthly
                             /\ pc \notin {"daily", "monthly", "landings"}
                                  => v \in tx.landings
        BY <1>k DEF LossInv, OfUnit
      <3>1. job[lock].pc \in InTransaction
        BY HolderWorks
      <3>2. CASE v \in visits
        BY <2>1, <2>8, <3>2 DEF LossInv, OfUnit
      <3>3. CASE v = new
        <4>1. v.hit \in Hits /\ v \in visits' \ visits /\ v \notin lockedVisits
          BY <2>1, <2>2, <2>5, <2>6, <2>7, <3>3
        <4>2. job[lock].pc \in {"monthly", "landings", "scopes", "erase_scopes", "erase"}
                => v.hit \in straggled'
          BY <2>8, <4>1 DEF Straggling
        <4> QED BY <2>1, <3>1, <4>1, <4>2 DEF InTransaction
      <3> QED BY <2>1, <3>2, <3>3
    <2>13. NeverCountedTwice'
      <3> SUFFICES ASSUME NEW h \in Hits
                   PROVE  /\ daily[h] + (IF Live(h)' THEN 1 ELSE 0) <= 1
                          /\ monthly[h] + (IF Live(h)' THEN 1 ELSE 0) <= 1
                          /\ landings[h] + (IF Live(h)' THEN 1 ELSE 0) <= 1
        BY <1>k DEF NeverCountedTwice, permanentVars
      <3>1. h # h0 => (Live(h)' <=> Live(h))
        BY <2>1, <2>5 DEF Live
      <3>2. h = h0 => daily[h] = 0 /\ monthly[h] = 0 /\ landings[h] = 0
        BY <2>2, <2>4 DEF HitInv
      <3> QED BY <3>1, <3>2 DEF NeverCountedTwice
    <2>14. NothingIsLost'
      <3> SUFFICES ASSUME NEW h \in folded' \ straggled'
                   PROVE  \/ Live(h)'
                          \/ daily[h] = 1 /\ monthly[h] = 1 /\ landings[h] = 1
        BY <1>k DEF NothingIsLost, permanentVars
      <3>1. CASE h = h0
        BY <2>1, <2>5, <3>1 DEF Live
      <3>2. CASE h # h0
        <4>1. h \in folded \ straggled
          BY <2>1, <2>8, <3>2
        <4>2. Live(h) => Live(h)'
          BY <2>1 DEF Live
        <4> QED BY <4>1, <4>2 DEF NothingIsLost
      <3> QED BY <3>1, <3>2
    <2> QED BY <1>t, <2>9, <2>10, <2>11, <2>12, <2>13, <2>14
  <1>7. ASSUME (\E site \in Replaced : Replace(site)) \/ EndReplace
        PROVE  IInv'
    <2>1. UNCHANGED <<clock, req, hits, visits, lockedVisits, lockedPresence, folded>>
      BY <1>7 DEF Replace, EndReplace
    <2> QED BY <1>t, <1>k, <1>s, <2>1, RequestStep
  <1> QED
    BY <1>1, <1>2, <1>3, <1>4, <1>5, <1>6, <1>7 DEF IngestStep, IngestNext, Handle

\* The tables start empty.
LEMMA InitAccounts == Init => IInv
  <1> SUFFICES ASSUME Init PROVE IInv
    OBVIOUS
  <1>1. TypeOK
    BY InitTyped
  <1>2. AccountingInv
    <2>1. LockInv
      BY VisitorRollupAssumption
         DEF Init, IngestInit, RollupInit, LockInv, InTransaction
    <2>2. TxInv /\ LossInv
      BY DEF Init, IngestInit, RollupInit, TxInv, Erased, NoTx, LossInv
    <2>3. HitInv
      BY DEF Init, IngestInit, RollupInit, HitInv
    <2>4. EndedInv
      BY DEF Init, IngestInit, RollupInit, EndedInv, NoTx
    <2> QED BY <2>1, <2>2, <2>3, <2>4 DEF AccountingInv
  <1>3. NeverCountedTwice /\ NothingIsLost
    BY DEF Init, IngestInit, RollupInit, NeverCountedTwice, NothingIsLost, Live
  <1> QED BY <1>1, <1>2, <1>3 DEF IInv

\* The induction holds in every reachable state.
THEOREM AccountingHolds == Spec => []IInv
  <1>1. IInv /\ [Next]_vars => IInv'
    <2> SUFFICES ASSUME IInv, [Next]_vars PROVE IInv'
      OBVIOUS
    <2>1. CASE UNCHANGED vars
      <3>1. TypeOK'
        BY <2>1 DEF vars, ingestVars, rollupVars, permanentVars, IInv, TypeOK,
                    IngestTypeOK, RequestsTyped, CountersTyped, TxTyped
      <3>2. \A r \in Runners : job'[r].now <= clock
        BY <2>1 DEF vars, rollupVars, IInv, AccountingInv, EndedInv
      <3> QED BY <2>1, <3>1, <3>2, QuietStep
              DEF vars, ingestVars, rollupVars, permanentVars
    <2> QED BY <2>1, RollupAccounts, IngestAccounts DEF Next
  <1> QED BY InitAccounts, <1>1, PTL DEF Spec

\* No interleaving of requests, overlapping invocations and crashes adds a
\* pageview to visitor_daily or visitor_period twice, or while it is live.
THEOREM CountedAtMostOnce == Spec => []NeverCountedTwice
  <1>1. IInv => NeverCountedTwice
    BY DEF IInv
  <1> QED BY AccountingHolds, <1>1, PTL

\* A folded pageview stays live until all three tables have it, stragglers
\* aside.
THEOREM CountedAtLeastOnce == Spec => []NothingIsLost
  <1>1. IInv => NothingIsLost
    BY DEF IInv
  <1> QED BY AccountingHolds, <1>1, PTL

\* The bookkeeping of the open transaction is sound in every reachable state.
THEOREM TransactionsAccount == Spec => []AccountingInv
  <1>1. IInv => AccountingInv
    BY DEF IInv
  <1> QED BY AccountingHolds, <1>1, PTL

\* Visitor state disappears only after its month has ended.
THEOREM OpenMonthsAreKept == Spec => OpenMonthIsNeverRolledUp
  <1>1. IInv /\ [Next]_vars =>
          [\A v \in visits \ visits' : Ended(Period(v.at), clock)]_vars
    <2> SUFFICES ASSUME IInv, Next, NEW v \in visits \ visits'
                 PROVE  Ended(Period(v.at), clock)
      OBVIOUS
    <2>1. CASE IngestStep
      BY <2>1 DEF IngestStep, IngestNext, Handle, Receive, DeriveKey, KeyFails,
         StoreEvent, FoldVisit, RecordPresence, HandlerFails, RestartProcess,
         Replace, EndReplace, Tick
    <2>2. CASE RollupNext
      <3>1. PICK r \in Runners : Start(r) \/ DeadlinePasses(r) \/ Work(r) \/ Crash(r)
        BY <2>2 DEF RollupNext
      <3>2. CASE Commit(r)
        <4>1. v \in lockedVisits
          BY <3>2 DEF Commit
        <4>2. UnitOf(v) = tx.unit
          BY <4>1 DEF IInv, AccountingInv, TxInv
        <4>3. tx.unit # NoUnit /\ tx.unit.period = Period(v.at)
          BY <4>2, RealUnits DEF UnitOf
        <4> QED BY <4>3 DEF IInv, AccountingInv, EndedInv
      <3>3. CASE ~Commit(r)
        BY <3>1, <3>3 DEF Work, Start, DeadlinePasses, ExpireBatch, ExpireBusy,
           ExpireOver, BeginUnit, StopUnits, EndUnits, SumDaily, SumMonthly,
           SumLandings, SumScopes, EraseScopes, EraseVisits, EraseSalts,
           BeginFinalSalts, SkipFinalSalts, CountRemaining, Verdict, Crash,
           ingestVars
      <3> QED BY <3>2, <3>3
    <2> QED BY <2>1, <2>2 DEF Next
  <1> QED BY AccountingHolds, <1>1, PTL DEF Spec, OpenMonthIsNeverRolledUp

-----------------------------------------------------------------------------
(***************************************************************************)
(* The rollup implements the ledger: under the refinement mapping of       *)
(* VisitorRollup a fold is Ledger!Open, the commit of a unit is            *)
(* Ledger!Close of the rows it deletes, and every other step - statements, *)
(* crashes, requests, midnights - changes nothing the ledger knows.  The   *)
(* accounting invariant says what a commit finds.                          *)
(***************************************************************************)

\* What the ledger sees of the state.
Seen == <<folded, visits, daily, monthly, landings, straggled>>

\* A step that changes nothing the ledger sees is a stutter of the ledger.
LEMMA UnseenSteps ==
  ASSUME UNCHANGED Seen
  PROVE  UNCHANGED Ledger!ledgerVars
  BY DEF Seen, Ledger!ledgerVars, Live, TimesIn

\* A fold takes up a pageview that was never taken up before.
LEMMA FoldOpens ==
  ASSUME IInv, IngestStep, NEW s \in Slots, FoldVisit(s)
  PROVE  Ledger!Next
  <1> DEFINE h0 == req[s].hit
             new == [hit |-> req[s].hit, site |-> req[s].site,
                     at |-> req[s].at, key |-> req[s].key]
  <1>1. /\ visits' = visits \cup {new} /\ folded' = folded \cup {h0}
        /\ req[s] # NoRequest /\ req[s].phase = "stored"
    BY DEF FoldVisit, NoRequest
  <1>2. req[s] \in Request /\ h0 \in Hits
    BY <1>1 DEF IInv, TypeOK, IngestTypeOK, RequestsTyped, Request
  <1>3. h0 \notin folded
    BY <1>1 DEF IInv, AccountingInv, HitInv
  <1>4. straggled' \in {straggled, straggled \cup {h0}}
    <2>1. \A h \in Straggling : h = h0
      BY <1>1 DEF Straggling
    <2> QED BY <2>1 DEF IngestStep
  <1>5. {h \in Hits : Live(h)}' = {h \in Hits : Live(h)} \cup {h0}
    <2>n. new.hit = h0
      OBVIOUS
    <2> HIDE DEF new, h0
    <2>1. \A h \in Hits : Live(h)' <=> Live(h) \/ h = h0
      BY <1>1, <2>n DEF Live
    <2> QED BY <1>2, <2>1
  <1>6. UNCHANGED [h \in Hits |-> [t \in {"daily", "monthly", "landings"} |-> TimesIn(h, t)]]
    BY DEF IngestStep, permanentVars, TimesIn
  <1>7. Ledger!Open(h0)
    BY <1>1, <1>3, <1>4, <1>5, <1>6 DEF Ledger!Open
  <1> QED BY <1>2, <1>7 DEF Ledger!Next

\* A commit closes exactly the pageviews whose rows it deletes.
LEMMA CommitCloses ==
  ASSUME IInv, IInv', NEW r \in Runners, Commit(r)
  PROVE  Ledger!Next
  <1> DEFINE H == {v.hit : v \in lockedVisits}
             L == {h \in Hits : Live(h)}
             T == {"daily", "monthly", "landings"}
             Entered == [h \in Hits |-> [t \in T |-> TimesIn(h, t)]]
  <1>1. /\ lock = r /\ lock # Nobody /\ job[lock].pc = "commit"
        /\ tx.daily \cup tx.monthly \cup tx.landings \subseteq lockedVisits
        /\ lockedVisits \subseteq visits
    <2>1. lock = r /\ r # Nobody
      BY VisitorRollupAssumption DEF Commit, IInv, AccountingInv, LockInv, InTransaction
    <2> QED BY <2>1 DEF Commit, IInv, AccountingInv, TxInv, Erased, TypeOK, IngestTypeOK
  <1>2. visits' = visits \ lockedVisits /\ folded' = folded /\ straggled' = straggled
    BY DEF Commit
  <1>3. \A v \in visits : v.hit \in Hits /\ v.hit \in folded
    BY DEF IInv, TypeOK, IngestTypeOK, Visit, AccountingInv, HitInv
  <1>4. \A v, w \in visits : v.hit = w.hit => v = w
    BY DEF IInv, AccountingInv, HitInv
  <1>5. H \subseteq L /\ H \subseteq Hits /\ H \subseteq folded
    BY <1>1, <1>3 DEF Live
  <1>6. L' = L \ H
    <2>1. \A h \in Hits : Live(h)' <=> Live(h) /\ h \notin H
      BY <1>1, <1>2, <1>4 DEF Live
    <2> QED BY <2>1
  <1>7. \A h \in H : ~Live(h)'
    BY <1>5, <1>6
  <1>8. /\ daily' = Added(daily, tx.daily)
        /\ monthly' = Added(monthly, tx.monthly)
        /\ landings' = Added(landings, tx.landings)
    BY DEF Commit
  <1>9. ASSUME NEW h \in Hits, h \notin H, NEW t \in T PROVE TimesIn(h, t)' = TimesIn(h, t)
    <2>1. \A v \in tx.daily \cup tx.monthly \cup tx.landings : v.hit # h
      BY <1>1, <1>9
    <2>2. daily[h] \in Nat /\ monthly[h] \in Nat /\ landings[h] \in Nat
      BY DEF IInv, TypeOK, CountersTyped
    <2>3. daily'[h] = daily[h] /\ monthly'[h] = monthly[h] /\ landings'[h] = landings[h]
      BY <1>8, <2>1, <2>2 DEF Added
    <2> QED BY <2>3 DEF TimesIn
  <1>10. ASSUME NEW h \in H, NEW t \in T PROVE TimesIn(h, t)' \in {0, 1}
    <2>1. h \in Hits
      BY <1>5
    <2>2. /\ daily'[h] \in Nat /\ monthly'[h] \in Nat /\ landings'[h] \in Nat
          /\ daily'[h] <= 1 /\ monthly'[h] <= 1 /\ landings'[h] <= 1
      BY <1>7, <2>1 DEF IInv, TypeOK, CountersTyped, NeverCountedTwice
    <2> QED BY <2>2 DEF TimesIn
  <1>11. ASSUME NEW h \in H, h \notin straggled, NEW t \in T PROVE TimesIn(h, t)' = 1
    <2>1. h \in folded' \ straggled'
      BY <1>2, <1>5, <1>11
    <2>2. daily'[h] = 1 /\ monthly'[h] = 1 /\ landings'[h] = 1
      BY <1>7, <2>1 DEF IInv, NothingIsLost
    <2> QED BY <2>2 DEF TimesIn
  <1> DEFINE missing == [h \in H \cap straggled |-> {t \in T : TimesIn(h, t)' = 0}]
  <1>12. missing \in [H \cap straggled -> SUBSET T]
    OBVIOUS
  <1>13. Entered' = [h \in Hits |->
                     IF h \notin H THEN Entered[h]
                     ELSE IF h \in straggled
                          THEN [t \in T |-> IF t \in missing[h] THEN 0 ELSE 1]
                          ELSE [t \in T |-> 1]]
    <2>1. ASSUME NEW h \in Hits
          PROVE  [t \in T |-> TimesIn(h, t)'] =
                    IF h \notin H THEN [t \in T |-> TimesIn(h, t)]
                    ELSE IF h \in straggled
                         THEN [t \in T |-> IF t \in missing[h] THEN 0 ELSE 1]
                         ELSE [t \in T |-> 1]
      <3>1. CASE h \notin H
        BY <1>9, <3>1
      <3>2. CASE h \in H /\ h \in straggled
        <4>1. missing[h] = {t \in T : TimesIn(h, t)' = 0}
          BY <3>2
        <4>2. \A t \in T : TimesIn(h, t)' = IF t \in missing[h] THEN 0 ELSE 1
          BY <1>10, <3>2, <4>1
        <4> QED BY <3>2, <4>2
      <3>3. CASE h \in H /\ h \notin straggled
        BY <1>11, <3>3
      <3> QED BY <3>1, <3>2, <3>3
    <2> QED BY <2>1
  <1>14. Ledger!Close(H)
    BY <1>2, <1>5, <1>6, <1>12, <1>13
       DEF Ledger!Close, Ledger!Once, Ledger!Tables
  <1> QED BY <1>5, <1>14 DEF Ledger!Next

\* However its statements, crashes and overlapping runs interleave with
\* requests, the rollup implements the ledger: see LedgerIsKept.
THEOREM RollupKeepsLedger == Spec => LedgerIsKept
  <1>1. Init => Ledger!Init
    <2> SUFFICES ASSUME Init PROVE Ledger!Init
      OBVIOUS
    <2>1. folded = {} /\ straggled = {} /\ visits = {}
      BY DEF Init, IngestInit, RollupInit
    <2>2. \A h \in Hits : daily[h] = 0 /\ monthly[h] = 0 /\ landings[h] = 0
      BY DEF Init, RollupInit
    <2> QED BY <2>1, <2>2 DEF Ledger!Init, Ledger!Never, Ledger!Tables, Live, TimesIn
  <1>2. IInv /\ IInv' /\ [Next]_vars => [Ledger!Next]_(Ledger!ledgerVars)
    <2> SUFFICES ASSUME IInv, IInv', [Next]_vars
                 PROVE  Ledger!Next \/ UNCHANGED Ledger!ledgerVars
      OBVIOUS
    <2>1. CASE UNCHANGED vars
      BY <2>1, UnseenSteps DEF vars, ingestVars, rollupVars, permanentVars, Seen
    <2>2. CASE IngestStep
      <3>1. ASSUME NEW s \in Slots, FoldVisit(s) PROVE Ledger!Next
        BY <2>2, <3>1, FoldOpens
      <3>2. CASE \A s \in Slots : ~FoldVisit(s)
        <4>1. visits' = visits /\ folded' = folded
          BY <2>2, <3>2 DEF IngestStep, IngestNext, Handle, Receive, DeriveKey, KeyFails,
             StoreEvent, RecordPresence, HandlerFails, RestartProcess,
         Replace, EndReplace, Tick
        <4>2. straggled' = straggled
          BY <2>2, <4>1 DEF IngestStep, Straggling
        <4> QED BY <2>2, <4>1, <4>2, UnseenSteps DEF IngestStep, permanentVars, Seen
      <3> QED BY <3>1, <3>2
    <2>3. CASE RollupNext
      <3>1. PICK r \in Runners : Start(r) \/ DeadlinePasses(r) \/ Work(r) \/ Crash(r)
        BY <2>3 DEF RollupNext
      <3>2. CASE Commit(r)
        BY <3>2, CommitCloses
      <3>3. CASE ~Commit(r)
        <4>1. UNCHANGED <<folded, visits, permanentVars, straggled>>
          BY <3>1, <3>3 DEF Work, Start, DeadlinePasses, ExpireBatch, ExpireBusy,
             ExpireOver, BeginUnit, StopUnits, EndUnits, SumDaily, SumMonthly,
             SumLandings, SumScopes, EraseScopes, EraseVisits, EraseSalts,
             BeginFinalSalts, SkipFinalSalts, CountRemaining, Verdict, Crash,
             ingestVars
        <4> QED BY <4>1, UnseenSteps DEF permanentVars, Seen
      <3> QED BY <3>2, <3>3
    <2> QED BY <2>1, <2>2, <2>3 DEF Next
  <1> QED BY AccountingHolds, <1>1, <1>2, PTL DEF Spec, LedgerIsKept, Ledger!Spec

-----------------------------------------------------------------------------
(***************************************************************************)
(* Why a visitor is counted once a month although digests are destroyed:   *)
(* for any number of processes that cache salts, of requests in flight, of *)
(* overlapping invocations and of crashes, the digests of a month are made *)
(* with one salt, which outlives them.                                     *)
(*                                                                         *)
(* The argument: while the month lasts, whoever asks for its salt gets the *)
(* row's (SaltInv), so what is stored is comparable (TraceInv).  Once it   *)
(* has ended, a request that still writes marks its unit late; for the     *)
(* other units nothing is added after the transaction has looked, so it    *)
(* deletes all that it counted (ErasureInv) and destroys a salt that no    *)
(* digest needs (DeadSaltInv).                                             *)
(***************************************************************************)

(***************************************************************************)
(* Which steps write what.                                                 *)
(***************************************************************************)

\* The months of the run are numbered from 0.
LEMMA PeriodsAreNumbers ==
  /\ \A d \in Nat : Period(d) \in Nat
  /\ \A p \in Periods : p \in Nat
  <1>1. TicksPerPeriod \in Nat \ {0}
    BY VisitorIngestAssumption
  <1>2. \A d \in Nat : Period(d) \in Nat
    BY <1>1 DEF Period
  <1> QED BY <1>2, VisitorIngestAssumption DEF Periods, Times

\* A month that has ended stays ended (_period_ended with a later clock).
LEMMA EndedMonotone ==
  ASSUME NEW p \in Nat, NEW d \in Nat, NEW e \in Nat, d <= e, Ended(p, d)
  PROVE  Ended(p, e)
  BY PeriodMonotone, PeriodsAreNumbers DEF Ended

\* Of a maintenance run's statements, only COMMIT changes the tables of visitor
\* state, the permanent tables and the salts.
LEMMA RollupWrites ==
  ASSUME RollupNext, \A r \in Runners : ~Commit(r)
  PROVE  UNCHANGED <<clock, salt, saltsMade, cache, req, visits, presence,
                     folded, late, monthVisitors, scopeVisitors>>
  BY DEF RollupNext, Work, Start, DeadlinePasses, ExpireBatch, ExpireBusy,
     ExpireOver, BeginUnit, StopUnits, EndUnits, SumDaily, SumMonthly,
     SumLandings, SumScopes, EraseScopes, EraseVisits, EraseSalts,
     BeginFinalSalts, SkipFinalSalts, CountRemaining, Verdict, Crash,
     ingestVars, permanentVars

\* Requests never touch the open transaction or the permanent tables.
LEMMA IngestWrites ==
  ASSUME IngestStep
  PROVE  UNCHANGED <<lockedVisits, lockedPresence, monthVisitors,
                     scopeVisitors, job, lock, tx, due>>
  BY DEF IngestStep, IngestNext, Handle, Receive, DeriveKey, KeyFails,
     StoreEvent, FoldVisit, RecordPresence, HandlerFails, RestartProcess,
         Replace, EndReplace, Tick, permanentVars

\* Which ingestion step writes the salts, the visits, the presence rows and the
\* clock.
LEMMA IngestFootprint ==
  ASSUME IngestStep
  PROVE  /\ (\A s \in Slots : ~DeriveKey(s)) => UNCHANGED <<salt, saltsMade>>
         /\ (\A s \in Slots : ~FoldVisit(s)) => UNCHANGED visits
         /\ (\A s \in Slots : ~RecordPresence(s)) => UNCHANGED presence
         /\ (\A s \in Slots : ~FoldVisit(s) /\ ~RecordPresence(s))
              => UNCHANGED late
         /\ ~Tick => UNCHANGED clock
  BY ZenonT(40) DEF IngestStep, IngestNext, Handle, Receive, DeriveKey, KeyFails,
     StoreEvent, FoldVisit, RecordPresence, HandlerFails, RestartProcess,
         Replace, EndReplace, Tick

\* The dashboards' split lies after the retention cutoff, and does not move
\* back (queries/visitors.py, _retention_split).
LEMMA SplitIsPastTheCutoff ==
  ASSUME TypeOK
  PROVE  EventLower \in Int /\ clock - Retention < EventLower
  <1> DEFINE c == clock - Retention
             n == c \div TicksPerPeriod
  <1>1. c \in Int /\ TicksPerPeriod \in Nat \ {0}
    BY VisitorIngestAssumption, VisitorRollupAssumption
       DEF TypeOK, IngestTypeOK, Times
  <1>2. n \in Int /\ c < TicksPerPeriod * (n + 1)
    BY <1>1
  <1>3. EventLower = TicksPerPeriod * (n + 1)
    BY DEF EventLower, Period
  <1> QED BY <1>1, <1>2, <1>3

LEMMA SplitTyped ==
  ASSUME TypeOK'
  PROVE  EventLower' \in Int
  <1>1. clock' - Retention \in Int /\ TicksPerPeriod \in Nat \ {0}
    BY VisitorIngestAssumption, VisitorRollupAssumption
       DEF TypeOK, IngestTypeOK, Times
  <1> QED BY <1>1 DEF EventLower, Period

LEMMA SplitNeverMovesBack ==
  ASSUME TypeOK, clock' = clock + 1
  PROVE  EventLower <= EventLower'
  <1> DEFINE m == (clock - Retention) \div TicksPerPeriod
             n == (clock' - Retention) \div TicksPerPeriod
  <1>1. /\ clock - Retention \in Int /\ clock' - Retention \in Int
        /\ clock - Retention <= clock' - Retention
        /\ TicksPerPeriod \in Nat \ {0}
    BY VisitorIngestAssumption, VisitorRollupAssumption
       DEF TypeOK, IngestTypeOK, Times
  <1>2. m \in Int /\ n \in Int /\ m <= n
    BY <1>1
  <1>3. TicksPerPeriod * (m + 1) <= TicksPerPeriod * (n + 1)
    <2> HIDE DEF m, n
    <2>1. ASSUME NEW k \in Nat PROVE TicksPerPeriod * k \in Nat
      BY <1>1, <2>1
    <2>2. n - m \in Nat /\ TicksPerPeriod * (n - m) \in Nat
      BY <1>2, <2>1
    <2>3. TicksPerPeriod * (n + 1)
            = TicksPerPeriod * (m + 1) + TicksPerPeriod * (n - m)
      BY <1>1, <1>2
    <2>4. TicksPerPeriod * (m + 1) \in Int
      BY <1>1, <1>2
    <2> QED BY <2>2, <2>3, <2>4
  <1>4. EventLower = TicksPerPeriod * (m + 1)
    BY DEF EventLower, Period
  <1>5. EventLower' = TicksPerPeriod * (n + 1)
    BY DEF EventLower, Period
  <1> HIDE DEF m, n
  <1> QED BY <1>3, <1>4, <1>5

\* Every step but the clock's keeps the counters of visitor_daily growing, and
\* erases no digest but expired ones.
LEMMA DigestFootprint ==
  ASSUME IInv, Next
  PROVE  /\ \A h \in Hits : daily[h] <= daily'[h]
         /\ \A e \in events \ lockedEvents :
               e \in events' \/ e.at < clock - Retention
  <1>d. daily \in [Hits -> Nat]
    BY DEF IInv, TypeOK, CountersTyped
  <1>1. CASE IngestStep
    <2>1. daily' = daily
      BY <1>1 DEF IngestStep, permanentVars
    <2>2. events \ lockedEvents \subseteq events'
      BY <1>1 DEF IngestStep, IngestNext, Handle, Receive, DeriveKey, KeyFails,
         StoreEvent, FoldVisit, RecordPresence, HandlerFails, RestartProcess,
         Replace, EndReplace, Tick
    <2> QED BY <1>d, <2>1, <2>2
  <1>2. CASE RollupNext
    <2>1. PICK r \in Runners : Start(r) \/ DeadlinePasses(r) \/ Work(r) \/ Crash(r)
      BY <1>2 DEF RollupNext
    <2>2. CASE ExpireBatch(r)
      <3>1. PICK B \in Batches(job[r]) :
              events' = (events \ B) \cup {[f EXCEPT !.key = NoKey] : f \in B}
        BY <2>2 DEF ExpireBatch
      <3>2. \A e \in B : e.at < job[r].now - Retention
        BY <3>1 DEF Batches, Expired
      <3>3. job[r].now <= clock
        BY DEF IInv, AccountingInv, EndedInv
      <3>4. /\ \A e \in events : e.at \in Nat
            /\ clock \in Nat /\ job[r].now \in Nat /\ Retention \in Nat
        BY VisitorIngestAssumption, VisitorRollupAssumption
           DEF IInv, TypeOK, IngestTypeOK, Event, Times, Job
      <3>5. daily' = daily
        BY <2>2 DEF ExpireBatch, permanentVars
      <3> QED BY <1>d, <3>1, <3>2, <3>3, <3>4, <3>5
    <2>3. CASE Commit(r)
      <3>1. events' = events /\ daily' = Added(daily, tx.daily)
        BY <2>3 DEF Commit
      <3> QED BY <1>d, <3>1 DEF Added
    <2>4. CASE ~ExpireBatch(r) /\ ~Commit(r)
      <3>1. UNCHANGED <<events, daily>>
        BY <2>1, <2>4 DEF Work, Start, DeadlinePasses, ExpireBusy,
           ExpireOver, BeginUnit, StopUnits, EndUnits, SumDaily, SumMonthly,
           SumLandings, SumScopes, EraseScopes, EraseVisits, EraseSalts,
           BeginFinalSalts, SkipFinalSalts, CountRemaining, Verdict, Crash,
           ingestVars, permanentVars
      <3> QED BY <1>d, <3>1
    <2> QED BY <2>2, <2>3, <2>4
  <1> QED BY <1>1, <1>2 DEF Next

\* The clock moves alone, one tick at a time.
LEMMA ClockSteps ==
  ASSUME Next, clock' # clock
  PROVE  clock' = clock + 1 /\ folded' = folded /\ straggled' = straggled
  <1>1. CASE IngestStep
    <2>1. Tick
      BY <1>1, IngestFootprint
    <2> QED BY <1>1, <2>1 DEF Tick, IngestStep, Straggling
  <1>2. CASE RollupNext
    <2>1. clock' = clock
      BY <1>2 DEF RollupNext, Work, Start, DeadlinePasses, ExpireBatch,
         ExpireBusy, ExpireOver, BeginUnit, StopUnits, EndUnits, SumDaily,
         SumMonthly, SumLandings, SumScopes, EraseScopes, EraseVisits,
         EraseSalts, BeginFinalSalts, SkipFinalSalts, Commit, CountRemaining,
         Verdict, Crash, ingestVars
    <2> QED BY <2>1
  <1> QED BY <1>1, <1>2 DEF Next

\* No step of ingestion or maintenance hides a pageview that the dashboards
\* show, a --replace aside: retention stays behind their split between digests
\* and permanent totals, and what the split passes is live or totalled.
THEOREM ShownPageviewsStay == Spec => WhatIsShownStays
  <1>1. IInv /\ IInv' /\ [Next]_vars =>
          [\A e \in events \ lockedEvents :
              Shown(e) => \/ Shown(e)'
                          \/ /\ clock' # clock
                             /\ Live(e.hit)' \/ e.hit \notin folded \ straggled]_vars
    <2> SUFFICES ASSUME IInv, IInv', Next, NEW e \in events \ lockedEvents,
                        Shown(e)
                 PROVE  \/ Shown(e)'
                        \/ /\ clock' # clock
                           /\ Live(e.hit)' \/ e.hit \notin folded \ straggled
      OBVIOUS
    <2>1. /\ e.hit \in Hits /\ e.at \in Int
          /\ clock \in Int /\ Retention \in Int
      BY VisitorIngestAssumption, VisitorRollupAssumption
         DEF IInv, TypeOK, IngestTypeOK, Event, Times
    <2>2. /\ EventLower \in Int /\ clock - Retention < EventLower
          /\ EventLower' \in Int
      BY SplitIsPastTheCutoff, SplitTyped DEF IInv
    <2>3. /\ daily[e.hit] <= daily'[e.hit]
          /\ e \in events' \/ e.at < clock - Retention
      BY <2>1, DigestFootprint
    <2>4. daily[e.hit] \in Nat /\ daily'[e.hit] \in Nat /\ daily'[e.hit] <= 1
      <3>1. daily[e.hit] \in Nat /\ daily'[e.hit] \in Nat
        BY <2>1 DEF IInv, TypeOK, CountersTyped
      <3>2. daily'[e.hit] + (IF Live(e.hit)' THEN 1 ELSE 0) <= 1
        BY <2>1, Zenon DEF IInv, NeverCountedTwice
      <3> QED BY <3>1, <3>2
    <2>5. daily[e.hit] = 1 => daily'[e.hit] = 1
      BY <2>3, <2>4
    <2>s. clock' = clock => EventLower' = EventLower
      BY DEF EventLower, Period
    <2>6. CASE ShownAsTotal(e)
      <3>1. EventLower <= EventLower'
        <4>1. CASE clock' = clock
          BY <2>2, <2>s, <4>1
        <4>2. CASE clock' # clock
          BY <4>2, SplitNeverMovesBack, ClockSteps DEF IInv
        <4> QED BY <4>1, <4>2
      <3> QED BY <2>1, <2>2, <2>5, <2>6, <3>1 DEF Shown, ShownAsTotal
    <2>7. CASE ShownAsEvent(e)
      <3>1. e \in events'
        BY <2>1, <2>2, <2>3, <2>7 DEF ShownAsEvent
      <3>2. CASE EventLower' <= e.at
        BY <2>7, <3>1, <3>2 DEF Shown, ShownAsEvent
      <3>3. CASE e.at < EventLower'
        <4>1. clock' # clock
          BY <2>1, <2>2, <2>7, <2>s, <3>3 DEF ShownAsEvent
        <4>2. CASE e.hit \in folded \ straggled
          <5>1. e.hit \in folded' /\ e.hit \notin straggled'
            BY <2>1, <4>1, <4>2, ClockSteps
          <5>2. Live(e.hit)' \/ daily'[e.hit] = 1
            BY <5>1 DEF IInv, NothingIsLost
          <5> QED BY <3>3, <4>1, <5>2 DEF Shown, ShownAsTotal
        <4> QED BY <4>1, <4>2
      <3> QED BY <2>1, <2>2, <3>2, <3>3
    <2> QED BY <2>6, <2>7 DEF Shown
  <1> QED BY AccountingHolds, <1>1, PTL DEF Spec, WhatIsShownStays

\* The types the arguments below use.
LEMMA DigestTypes ==
  ASSUME TypeOK
  PROVE  /\ clock \in Nat
         /\ salt \in [Periods -> Nat] /\ saltsMade \in Nat
         /\ cache \in [Processes -> [Periods -> Nat]]
         /\ req \in [Slots -> Request \cup {NoRequest}]
         /\ visits \subseteq Visit /\ presence \subseteq Presence
         /\ \A v \in visits : Period(v.at) \in Periods
  BY PeriodType, VisitorIngestAssumption
     DEF TypeOK, IngestTypeOK, RequestsTyped, Visit, Times

\* get_or_create_salt answers with the process' copy or the shared row, and
\* draws a new salt only when neither is there.
LEMMA SaltForNew ==
  ASSUME TypeOK, SaltInv, NEW c \in Processes, NEW p \in Periods
  PROVE  LET x == SaltFor(c, p) IN
         /\ x \in Nat \ {0}
         /\ x > saltsMade => salt[p] = 0 /\ x = saltsMade + 1
         /\ x <= saltsMade => x = cache[c][p] \/ x = salt[p]
         /\ x <= saltsMade /\ ~Ended(p, clock) => x = salt[p]
  BY DigestTypes DEF SaltFor, SaltInv

\* While a month lasts, its salt is drawn once and every copy agrees with it.
LEMMA SaltsAgree ==
  ASSUME IInv, DigestInv, [Next]_vars
  PROVE  SaltInv'
  <1> USE DEF DigestInv
  <1>t. TypeOK
    BY DEF IInv
  <1>1. CASE UNCHANGED <<clock, salt, saltsMade, cache, req>>
    BY <1>1 DEF SaltInv, Ended, Period
  <1>2. ASSUME NEW r \in Runners, Commit(r) PROVE SaltInv'
    <2>1. /\ salt' = [p \in Periods |-> IF p \in tx.salts THEN 0 ELSE salt[p]]
          /\ UNCHANGED <<clock, saltsMade, cache, req>>
      BY <1>2 DEF Commit
    <2>2. \A p \in Periods : ~Ended(p, clock) => salt'[p] = salt[p]
      BY <2>1 DEF DeadSaltInv
    <2>3. \A p \in Periods : salt'[p] <= saltsMade
      BY <2>1, <1>t, DigestTypes DEF SaltInv
    <2>4. \A s \in Slots : req[s] # NoRequest => Period(req[s].at) \in Periods
      BY <1>t, DigestTypes, PeriodType DEF Request
    <2> QED BY <2>1, <2>2, <2>3, <2>4 DEF SaltInv, Ended, Period
  <1>3. ASSUME NEW s \in Slots, DeriveKey(s), UNCHANGED clock PROVE SaltInv'
    <2> DEFINE q == req[s]
               m == Period(q.at)
               x == SaltFor(q.process, m)
               k == [visitor |-> q.visitor, site |-> q.site, salt |-> x]
    <2>1. q \in Request /\ q # NoRequest
      BY <1>t, <1>3, DigestTypes DEF DeriveKey, NeedsKey, NoRequest
    <2>2. q.process \in Processes /\ m \in Periods
      BY <2>1, PeriodType DEF Request
    <2>3. /\ x \in Nat \ {0}
          /\ x > saltsMade => salt[m] = 0 /\ x = saltsMade + 1
          /\ x <= saltsMade => x = cache[q.process][m] \/ x = salt[m]
          /\ x <= saltsMade /\ ~Ended(m, clock) => x = salt[m]
      BY <1>t, <2>2, SaltForNew
    <2>4. /\ cache' = Remember(q.process, m, x)
          /\ salt' = IF x > saltsMade THEN [salt EXCEPT ![m] = x] ELSE salt
          /\ saltsMade' = IF x > saltsMade THEN x ELSE saltsMade
          /\ req' = [req EXCEPT ![s] =
                       IF q.kind = "beacon" THEN NoRequest
                       ELSE IF q.phase = "received"
                            THEN [q EXCEPT !.phase = "keyed", !.key = k]
                            ELSE [q EXCEPT !.key = k]]
      BY <1>3 DEF DeriveKey
    <2> HIDE DEF q, m, x
    <2>5. /\ salt' \in [Periods -> Nat] /\ saltsMade' \in Nat
          /\ saltsMade <= saltsMade' /\ x <= saltsMade'
          /\ ~Ended(m, clock) => salt'[m] = x
          /\ \A p \in Periods : p # m => salt'[p] = salt[p]
          /\ \A p \in Periods : salt'[p] # salt[p] => salt[p] = 0
          /\ \A p \in Periods : salt'[p] <= saltsMade'
      BY <1>t, <2>2, <2>3, <2>4, DigestTypes DEF SaltInv
    <2>6. \A c \in Processes, p \in Periods :
            \/ cache'[c][p] = 0
            \/ cache'[c][p] = cache[c][p]
            \/ p = m /\ cache'[c][p] = x
      BY <1>t, <2>2, <2>4, DigestTypes DEF Remember
    <2>7. ASSUME NEW c \in Processes, NEW p \in Periods
          PROVE  /\ cache'[c][p] <= saltsMade'
                 /\ cache'[c][p] # 0 /\ ~Ended(p, clock) => cache'[c][p] = salt'[p]
      <3>1. CASE cache'[c][p] = 0
        BY <2>5, <3>1
      <3>2. CASE cache'[c][p] = cache[c][p]
        BY <1>t, <2>5, <3>2, DigestTypes DEF SaltInv
      <3>3. CASE p = m /\ cache'[c][p] = x
        BY <2>5, <3>3
      <3> QED BY <2>6, <3>1, <3>2, <3>3
    <2>8. ASSUME NEW t \in Slots, req'[t] # NoRequest, req'[t].key # NoKey
          PROVE  /\ req'[t].key.site = req'[t].site
                 /\ ~Ended(Period(req'[t].at), clock)
                      => req'[t].key.salt = salt'[Period(req'[t].at)]
      <3>1. CASE t = s
        <4>1. /\ req'[s].key = k /\ req'[s].site = q.site
              /\ req'[s].at = q.at
          BY <1>t, <2>1, <2>4, <2>8, <3>1, DigestTypes DEF Request
        <4> QED BY <2>5, <3>1, <4>1 DEF m
      <3>2. CASE t # s
        <4>1. req'[t] = req[t]
          BY <1>t, <2>4, <3>2, DigestTypes
        <4>2. req[t] \in Request /\ Period(req[t].at) \in Periods
          BY <1>t, <2>8, <4>1, DigestTypes, PeriodType DEF Request
        <4>3. req[t].key.salt # 0
          BY <2>8, <4>1, <4>2 DEF Request, Key
        <4> QED BY <2>5, <2>8, <4>1, <4>2, <4>3 DEF SaltInv
      <3> QED BY <3>1, <3>2
    <2> QED BY <1>3, <2>5, <2>7, <2>8 DEF SaltInv, Ended, Period
  <1>4. CASE Tick
    <2>1. UNCHANGED <<salt, saltsMade, cache, req>> /\ clock' = clock + 1
      BY <1>4 DEF Tick
    <2>2. \A p \in Periods : Ended(p, clock) => Ended(p, clock')
      BY <1>t, <2>1, DigestTypes, PeriodsAreNumbers, EndedMonotone
    <2>3. \A s \in Slots : req[s] # NoRequest => Period(req[s].at) \in Periods
      BY <1>t, DigestTypes, PeriodType DEF Request
    <2> QED BY <2>1, <2>2, <2>3 DEF SaltInv, Ended, Period
  <1>5. CASE /\ UNCHANGED <<clock, salt, saltsMade>>
             /\ \A c \in Processes : \A p \in Periods :
                   cache'[c][p] = 0 \/ cache'[c][p] = cache[c][p]
             /\ \A s \in Slots : req'[s] # NoRequest /\ req'[s].key # NoKey =>
                   /\ req[s] # NoRequest /\ req[s].key = req'[s].key
                   /\ req[s].site = req'[s].site /\ req[s].at = req'[s].at
    BY <1>5, <1>t, DigestTypes DEF SaltInv, Ended, Period
  <1>6. CASE IngestStep
    <2>1. ASSUME NEW s \in Slots, Receive(s) PROVE SaltInv'
      <3>1. /\ UNCHANGED <<clock, salt, saltsMade, cache>>
            /\ req'[s].key = NoKey
            /\ \A t \in Slots \ {s} : req'[t] = req[t]
        BY <2>1, <1>t, DigestTypes DEF Receive
      <3> QED BY <1>5, <3>1
    <2>2. ASSUME NEW s \in Slots,
                 KeyFails(s) \/ StoreEvent(s) \/ FoldVisit(s)
                   \/ RecordPresence(s) \/ HandlerFails(s)
          PROVE  SaltInv'
      <3>1. /\ UNCHANGED <<clock, salt, saltsMade, cache>>
            /\ req[s] # NoRequest
        BY <2>2 DEF KeyFails, StoreEvent, FoldVisit, RecordPresence,
                    HandlerFails, NoRequest
      <3>2. req[s] \in Request
        BY <1>t, <3>1, DigestTypes
      <3>3. \/ req' = [req EXCEPT ![s] = NoRequest]
            \/ \E ph \in {"keyed", "folded"} :
                  req' = [req EXCEPT ![s].phase = ph]
            \/ req' = [req EXCEPT ![s].phase = "stored", ![s].key = NoKey]
        BY <2>2 DEF KeyFails, StoreEvent, FoldVisit, RecordPresence, HandlerFails
      <3>4. /\ \A t \in Slots \ {s} : req'[t] = req[t]
            /\ req'[s] # NoRequest =>
                  /\ req'[s].key = req[s].key \/ req'[s].key = NoKey
                  /\ req'[s].site = req[s].site /\ req'[s].at = req[s].at
        BY <1>t, <3>2, <3>3, DigestTypes DEF Request
      <3> QED BY <1>5, <3>1, <3>4
    <2>3. ASSUME NEW c \in Processes, RestartProcess(c) PROVE SaltInv'
      <3>1. UNCHANGED <<clock, salt, saltsMade>>
        BY <2>3 DEF RestartProcess
      <3>2. \A d \in Processes : \A p \in Periods :
              cache'[d][p] = 0 \/ cache'[d][p] = cache[d][p]
        BY <1>t, <2>3, DigestTypes DEF RestartProcess
      <3>3. \A t \in Slots : req'[t] = req[t] \/ req'[t] = NoRequest
        BY <1>t, <2>3, DigestTypes DEF RestartProcess
      <3> QED BY <1>5, <3>1, <3>2, <3>3
    <2>4. ASSUME NEW s \in Slots, DeriveKey(s) PROVE SaltInv'
      BY <1>3, <2>4 DEF DeriveKey
    <2>5. CASE (\E site \in Replaced : Replace(site)) \/ EndReplace
      BY <1>1, <2>5 DEF Replace, EndReplace
    <2> QED BY <1>4, <1>6, <2>1, <2>2, <2>3, <2>4, <2>5
            DEF IngestStep, IngestNext, Handle
  <1>7. CASE RollupNext
    <2>1. CASE \A r \in Runners : ~Commit(r)
      BY <1>1, <1>7, <2>1, RollupWrites
    <2> QED BY <1>2, <2>1
  <1>8. CASE UNCHANGED vars
    BY <1>1, <1>8 DEF vars, ingestVars
  <1> QED BY <1>6, <1>7, <1>8 DEF Next

\* A trace names a unit and carries a digest.
LEMMA TraceTypes ==
  ASSUME TypeOK
  PROVE  \A t \in Traces : /\ t.unit \in Units /\ t.unit.period \in Periods
                           /\ t.key \in Key /\ t.key.salt # 0
  <1>1. \A v \in visits : UnitOf(v) \in Units /\ v.key \in Key
    BY PeriodType DEF TypeOK, IngestTypeOK, Visit, UnitOf, Units
  <1>2. \A n \in presence : ScopeUnit(n) \in Units /\ n.key \in Key
    BY DEF TypeOK, IngestTypeOK, Presence, ScopeUnit, Units
  <1> QED BY <1>1, <1>2 DEF Traces, Units, Key

\* The digests stored before a write are the only ones beside its own.
LEMMA NewTrace ==
  ASSUME NEW unit, NEW key, Traces' \subseteq Traces \cup {[unit |-> unit, key |-> key]},
         UNCHANGED <<clock, salt>>, late \subseteq late',
         TypeOK, TypeOK', TraceInv, unit \in Units, key \in Key,
         key.site = unit.site,
         ~Ended(unit.period, clock) => key.salt = salt[unit.period],
         Ended(unit.period, clock) => unit \in late'
  PROVE  TraceInv'
  <1> DEFINE new == [unit |-> unit, key |-> key]
  <1>1. ASSUME NEW t \in Traces'
        PROVE  /\ t.key.site = t.unit.site
               /\ ~Ended(t.unit.period, clock) \/ Punctual(t.unit.period)'
                    => t.key.salt = salt[t.unit.period]
               /\ \A w \in Traces' : w.unit = t.unit /\ t.unit \notin late'
                                        => w.key.salt = t.key.salt
    <2>1. Punctual(t.unit.period)' => Punctual(t.unit.period)
      BY DEF Punctual
    <2>2. CASE t \in Traces
      <3>1. ASSUME NEW w \in Traces', w.unit = t.unit, t.unit \notin late'
            PROVE  w.key.salt = t.key.salt
        <4>1. CASE w \in Traces
          BY <2>2, <3>1, <4>1 DEF TraceInv
        <4>2. CASE w = new
          BY <2>2, <3>1, <4>2 DEF TraceInv
        <4> QED BY <4>1, <4>2
      <3> QED BY <2>1, <2>2, <3>1 DEF TraceInv
    <2>3. CASE t = new
      <3>1. Ended(unit.period, clock) => ~Punctual(unit.period)'
        BY DEF Punctual, Units
      <3>2. ASSUME NEW w \in Traces', w.unit = unit, unit \notin late'
            PROVE  w.key.salt = key.salt
        <4>1. CASE w \in Traces
          BY <3>2, <4>1 DEF TraceInv
        <4>2. CASE w = new
          BY <4>2
        <4> QED BY <4>1, <4>2
      <3> QED BY <2>3, <3>1, <3>2
    <2> QED BY <2>2, <2>3
  <1> QED BY <1>1 DEF TraceInv, Ended, Period

\* Of the requests, only the two upserts leave traces.
LEMMA FoldTraces ==
  ASSUME NEW s \in Slots, FoldVisit(s)
  PROVE  Traces' = Traces \cup {[unit |-> UnitOf(req[s]), key |-> req[s].key]}
  BY DEF FoldVisit, Traces, UnitOf

\* The scope row of a visitor leaves the trace of its request.
LEMMA PresenceTraces ==
  ASSUME NEW s \in Slots, RecordPresence(s)
  PROVE  Traces' = Traces \cup {[unit |-> UnitOf(req[s]), key |-> req[s].key]}
  BY DEF RecordPresence, Traces, UnitOf, ScopeUnit

\* Digests of one month and site stay comparable.
LEMMA TracesAgree ==
  ASSUME IInv, DigestInv, [Next]_vars, TypeOK'
  PROVE  TraceInv'
  <1> USE DEF DigestInv
  <1>t. TypeOK
    BY DEF IInv
  <1>1. CASE UNCHANGED <<clock, salt, visits, presence, late>>
    BY <1>1 DEF TraceInv, Traces, Punctual, Ended, Period
  <1>2. ASSUME NEW r \in Runners, Commit(r) PROVE TraceInv'
    <2>1. /\ salt' = [p \in Periods |-> IF p \in tx.salts THEN 0 ELSE salt[p]]
          /\ visits' = visits \ lockedVisits
          /\ presence' = presence \ lockedPresence
          /\ UNCHANGED <<clock, late>>
      BY <1>2 DEF Commit
    <2>2. Traces' \subseteq Traces
      BY <2>1 DEF Traces
    <2>3. ASSUME NEW t \in Traces',
                 ~Ended(t.unit.period, clock) \/ Punctual(t.unit.period)
          PROVE  t.unit.period \notin tx.salts
      <3>1. ASSUME t.unit.period \in tx.salts PROVE FALSE
        <4>1. /\ \A v \in visits' : Period(v.at) # t.unit.period
              /\ \A n \in presence' : n.period # t.unit.period
          BY <2>1, <2>3, <3>1 DEF DeadSaltInv
        <4> QED BY <4>1 DEF Traces, UnitOf, ScopeUnit
      <3> QED BY <3>1
    <2>4. \A t \in Traces' : t.unit.period \in Periods
      BY <1>t, <2>2, TraceTypes
    <2> QED BY <2>1, <2>2, <2>3, <2>4 DEF TraceInv, Punctual, Ended, Period
  <1>3. ASSUME NEW s \in Slots, FoldVisit(s) \/ RecordPresence(s)
        PROVE  TraceInv'
    <2>1. /\ Traces' = Traces \cup {[unit |-> UnitOf(req[s]), key |-> req[s].key]}
          /\ UNCHANGED <<clock, salt>>
          /\ late' = MarkLate(req[s])
      BY <1>3, FoldTraces, PresenceTraces DEF FoldVisit, RecordPresence
    <2>2. req[s] \in Request /\ req[s] # NoRequest /\ req[s].key \in Key
      BY <1>3, <1>t DEF FoldVisit, RecordPresence, TypeOK, IngestTypeOK,
                        RequestsTyped, NoRequest, Request
    <2>3. UnitOf(req[s]) \in Units
      BY <2>2, PeriodType DEF Request, UnitOf, Units
    <2>4. /\ UnitOf(req[s]).period = Period(req[s].at)
          /\ UnitOf(req[s]).site = req[s].site
      BY DEF UnitOf
    <2>5. req[s].key # NoKey
      BY <2>2 DEF Key, NoKey
    <2>6. /\ req[s].key.site = req[s].site
          /\ ~Ended(Period(req[s].at), clock)
               => req[s].key.salt = salt[Period(req[s].at)]
      BY <2>2, <2>5 DEF SaltInv
    <2>7. /\ late \subseteq late'
          /\ Ended(Period(req[s].at), clock) => UnitOf(req[s]) \in late'
      BY <2>1 DEF MarkLate
    <2> QED BY <1>t, <2>1, <2>2, <2>3, <2>4, <2>6, <2>7, NewTrace
  <1>4. ASSUME NEW s \in Slots, DeriveKey(s),
               UNCHANGED <<clock, visits, presence, late>>
        PROVE  TraceInv'
    <2> DEFINE m == Period(req[s].at)
    <2>1. req[s] \in Request
      BY <1>t, <1>4, DigestTypes DEF DeriveKey, NeedsKey, NoRequest
    <2>2. req[s].process \in Processes /\ m \in Periods
      BY <2>1, PeriodType DEF Request
    <2>3. /\ SaltFor(req[s].process, m) \in Nat
          /\ SaltFor(req[s].process, m) > saltsMade => salt[m] = 0
      BY <1>t, <2>2, SaltForNew
    <2>4. \A p \in Periods : salt'[p] # salt[p] => salt[p] = 0
      BY <1>t, <1>4, <2>2, <2>3, DigestTypes DEF DeriveKey
    <2>5. Traces' = Traces
      BY <1>4 DEF Traces
    <2>6. \A t \in Traces : salt'[t.unit.period] # salt[t.unit.period]
            => t.key.salt # salt[t.unit.period]
      BY <1>t, <2>4, TraceTypes
    <2> QED BY <1>4, <2>5, <2>6 DEF TraceInv, Punctual, Ended, Period
  <1>5. CASE Tick
    <2>1. UNCHANGED <<salt, visits, presence, late>> /\ clock' = clock + 1
      BY <1>5 DEF Tick
    <2>2. \A p \in Periods : Ended(p, clock) => Ended(p, clock')
      BY <1>t, <2>1, DigestTypes, PeriodsAreNumbers, EndedMonotone
    <2>3. Traces' = Traces /\ \A t \in Traces : t.unit.period \in Periods
      BY <1>t, <2>1, TraceTypes DEF Traces
    <2> QED BY <2>1, <2>2, <2>3 DEF TraceInv, Punctual, Ended, Period
  <1>6. CASE IngestStep
    <2>1. CASE \E s \in Slots : DeriveKey(s)
      BY <1>4, <2>1 DEF DeriveKey
    <2>2. CASE \E s \in Slots : FoldVisit(s) \/ RecordPresence(s)
      BY <1>3, <2>2
    <2> QED BY <1>1, <1>5, <1>6, <2>1, <2>2, IngestFootprint
  <1>7. CASE RollupNext
    <2>1. CASE \A r \in Runners : ~Commit(r)
      BY <1>1, <1>7, <2>1, RollupWrites
    <2> QED BY <1>2, <2>1
  <1>8. CASE UNCHANGED vars
    BY <1>1, <1>8 DEF vars, ingestVars
  <1> QED BY <1>6, <1>7, <1>8 DEF Next

\* A request that writes to a month already over marks its unit late.
LEMMA LateWrites ==
  ASSUME IInv, IngestStep
  PROVE  /\ late \subseteq late'
         /\ \A v \in visits' \ visits :
               Ended(Period(v.at), clock) => UnitOf(v) \in late'
         /\ \A n \in presence' \ presence :
               Ended(n.period, clock) => ScopeUnit(n) \in late'
  <1>1. late \subseteq late'
    BY DEF IngestStep, IngestNext, Handle, Receive, DeriveKey, KeyFails,
       StoreEvent, FoldVisit, RecordPresence, HandlerFails, RestartProcess,
         Replace, EndReplace, Tick, MarkLate
  <1>2. ASSUME NEW v \in visits' \ visits, Ended(Period(v.at), clock)
        PROVE  UnitOf(v) \in late'
    <2>1. PICK s \in Slots : FoldVisit(s)
      BY <1>2, IngestFootprint
    <2>2. v.site = req[s].site /\ v.at = req[s].at
      BY <1>2, <2>1 DEF FoldVisit
    <2> QED BY <1>2, <2>1, <2>2 DEF FoldVisit, MarkLate, UnitOf
  <1>3. ASSUME NEW n \in presence' \ presence, Ended(n.period, clock)
        PROVE  ScopeUnit(n) \in late'
    <2>1. PICK s \in Slots : RecordPresence(s)
      BY <1>3, IngestFootprint
    <2>2. n.site = req[s].site /\ n.period = Period(req[s].at)
      BY <1>3, <2>1 DEF RecordPresence
    <2> QED BY <1>3, <2>1, <2>2 DEF RecordPresence, MarkLate, UnitOf, ScopeUnit
  <1> QED BY <1>1, <1>2, <1>3

\* Requests and midnight leave the months that have ended in that state.
LEMMA EndedStays ==
  ASSUME IInv, IngestStep, NEW p \in Periods, Ended(p, clock)
  PROVE  Ended(p, clock')
  <1>1. clock \in Nat /\ (clock' = clock \/ clock' = clock + 1)
    BY DigestTypes, IngestFootprint DEF IInv, Tick
  <1> QED BY <1>1, PeriodsAreNumbers, EndedMonotone

\* A unit is never the placeholder of a transaction without one.
LEMMA RealScopes == \A n : ScopeUnit(n) # NoUnit
  BY DEF ScopeUnit, NoUnit

\* A salt on its way out is not needed by what its transaction leaves: what a
\* later request adds, it marks late.
LEMMA DeadSaltsStayDead ==
  ASSUME IInv, DigestInv, [Next]_vars, TypeOK'
  PROVE  DeadSaltInv'
  <1> USE DEF DigestInv
  <1>t. TypeOK
    BY DEF IInv
  <1>p. \A p \in tx.salts : p \in Periods
    BY <1>t DEF TypeOK, TxTyped, Tx
  <1>1. CASE IngestStep
    <2>1. UNCHANGED <<lockedVisits, lockedPresence, job, lock, tx>>
      BY <1>1, IngestWrites
    <2>2. ASSUME NEW p \in tx.salts
          PROVE  /\ Ended(p, clock')
                 /\ Punctual(p)' =>
                       /\ \A v \in visits' \ lockedVisits : Period(v.at) # p
                       /\ \A n \in presence' \ lockedPresence : n.period # p
      <3>1. Ended(p, clock) /\ Ended(p, clock')
        BY <1>p, <1>1, EndedStays DEF DeadSaltInv
      <3>2. ASSUME Punctual(p)'
            PROVE  /\ \A v \in visits' \ lockedVisits : Period(v.at) # p
                   /\ \A n \in presence' \ lockedPresence : n.period # p
        <4>1. Punctual(p)
          BY <3>2, <1>1, LateWrites DEF Punctual
        <4>2. /\ \A v \in visits \ lockedVisits : Period(v.at) # p
              /\ \A n \in presence \ lockedPresence : n.period # p
          BY <4>1 DEF DeadSaltInv
        <4>3. ASSUME NEW v \in visits' \ visits PROVE Period(v.at) # p
          <5>1. v.site \in Sites
            BY DEF TypeOK, IngestTypeOK, Visit
          <5> QED BY <3>1, <3>2, <5>1, <1>1, LateWrites DEF Punctual, UnitOf
        <4>4. ASSUME NEW n \in presence' \ presence PROVE n.period # p
          <5>1. n.site \in Sites
            BY DEF TypeOK, IngestTypeOK, Presence
          <5> QED BY <3>1, <3>2, <5>1, <1>1, LateWrites DEF Punctual, ScopeUnit
        <4> QED BY <4>2, <4>3, <4>4
      <3> QED BY <3>1, <3>2
    <2> QED BY <2>1, <2>2 DEF DeadSaltInv, Ended, Period
  <1>2. ASSUME NEW j \in Job, NEW P, j.now <= clock
        PROVE  \A p \in DeadSalts(j, P) :
                 /\ Ended(p, clock)
                 /\ \A v \in visits \ lockedVisits : Period(v.at) # p
                 /\ \A n \in presence \ lockedPresence : n.period # p
    <2>1. j.now \in Nat /\ clock \in Nat
      BY <1>t, DigestTypes, VisitorIngestAssumption DEF Job, Times
    <2> QED BY <1>2, <2>1, PeriodsAreNumbers, EndedMonotone DEF DeadSalts
  <1>3. CASE RollupNext
    <2>1. PICK r \in Runners : Start(r) \/ DeadlinePasses(r) \/ Work(r) \/ Crash(r)
      BY <1>3 DEF RollupNext
    <2>j. job \in [Runners -> Job] /\ job[r] \in Job /\ job[r].now <= clock
      BY <1>t DEF TypeOK, IInv, AccountingInv, EndedInv
    <2>2. CASE EraseSalts(r)
      <3>1. /\ tx'.salts = DeadSalts(job[r], {tx.unit.period})
            /\ job[r].pc = "salts" /\ job'[r].pc = "commit" /\ lock' = lock
            /\ UNCHANGED <<clock, visits, presence, lockedVisits,
                           lockedPresence, late>>
        BY <1>t, <2>2, <2>j DEF EraseSalts, Goto, ingestVars, TypeOK, TxTyped, Tx
      <3>2. lock = r /\ lock # Nobody
        BY <3>1, VisitorRollupAssumption
           DEF IInv, AccountingInv, LockInv, InTransaction
      <3> QED BY <1>2, <2>j, <3>1, <3>2 DEF DeadSaltInv, Ended, Period
    <2>3. CASE BeginFinalSalts(r)
      <3>1. /\ tx'.salts = DeadSalts(job[r], job[r].sel.periods)
            /\ lock' = r /\ lock' # Nobody /\ job'[r].pc = "commit"
            /\ UNCHANGED <<clock, visits, presence, lockedVisits,
                           lockedPresence, late>>
        BY <2>3, <2>j, VisitorRollupAssumption
           DEF BeginFinalSalts, Goto, ingestVars, NoTx
      <3> QED BY <1>2, <2>j, <3>1 DEF DeadSaltInv, Ended, Period
    <2>4. CASE tx'.salts = {}
      BY <2>4 DEF DeadSaltInv
    <2>5. CASE \/ Commit(r) \/ (Crash(r) /\ lock = r)
      <3>1. tx' = NoTx
        BY <2>5 DEF Commit, Crash
      <3> QED BY <2>4, <3>1 DEF NoTx
    <2>6. CASE \/ SumDaily(r) \/ SumMonthly(r) \/ SumLandings(r)
               \/ SumScopes(r)
      <3>1. job[r].pc \in {"daily", "monthly", "landings", "scopes"}
        BY <2>6 DEF SumDaily, SumMonthly, SumLandings, SumScopes
      <3>2. lock = r
        BY <3>1 DEF IInv, AccountingInv, LockInv, InTransaction
      <3>3. tx'.salts = tx.salts
        BY <1>t, <2>6 DEF SumDaily, SumMonthly, SumLandings, SumScopes,
                          TypeOK, TxTyped, Tx
      <3>4. tx.salts = {}
        BY <3>1, <3>2 DEF DeadSaltInv
      <3> QED BY <2>4, <3>3, <3>4
    <2>7. CASE EraseScopes(r) \/ EraseVisits(r)
      <3>1. job[r].pc \in {"erase_scopes", "erase"} /\ tx' = tx
        BY <2>7 DEF EraseScopes, EraseVisits
      <3>2. lock = r
        BY <3>1 DEF IInv, AccountingInv, LockInv, InTransaction
      <3>3. tx.salts = {}
        BY <3>1, <3>2 DEF DeadSaltInv
      <3> QED BY <2>4, <3>1, <3>3
    <2>8. CASE BeginUnit(r)
      <3>1. \/ tx'.salts = {}
            \/ tx' = tx
        BY <2>8 DEF BeginUnit, NoTx
      <3>2. tx.salts = {}
        BY <2>8 DEF BeginUnit, DeadSaltInv
      <3> QED BY <2>4, <3>1, <3>2
    <2>9. CASE \/ Start(r) \/ DeadlinePasses(r) \/ ExpireBatch(r)
               \/ ExpireBusy(r) \/ ExpireOver(r) \/ StopUnits(r)
               \/ EndUnits(r) \/ SkipFinalSalts(r) \/ CountRemaining(r)
               \/ Verdict(r) \/ (Crash(r) /\ lock # r)
      <3>1. UNCHANGED <<clock, visits, presence, lockedVisits, lockedPresence,
                        late, lock, tx>>
        BY <2>9 DEF Start, DeadlinePasses, ExpireBatch, ExpireBusy, ExpireOver,
           StopUnits, EndUnits, SkipFinalSalts, CountRemaining, Verdict, Crash,
           ingestVars
      <3>2. \A s \in Runners \ {r} : job'[s] = job[s]
        BY <2>9, <2>j DEF Start, DeadlinePasses, ExpireBatch, ExpireBusy,
           ExpireOver, StopUnits, EndUnits, SkipFinalSalts, CountRemaining,
           Verdict, Crash, Goto, Conclude
      <3>4. job[r].pc # "commit" \/ job'[r].pc = job[r].pc
        <4>1. CASE Crash(r) /\ lock # r
          BY <4>1 DEF IInv, AccountingInv, LockInv, InTransaction
        <4>2. CASE DeadlinePasses(r)
          BY <4>2, <2>j DEF DeadlinePasses, Job
        <4> QED BY <2>9, <4>1, <4>2 DEF Start, ExpireBatch, ExpireBusy,
                ExpireOver, StopUnits, EndUnits, SkipFinalSalts,
                CountRemaining, Verdict
      <3>3. lock \in Runners \cup {Nobody}
        BY <1>t DEF TypeOK
      <3> QED BY <3>1, <3>2, <3>3, <3>4 DEF DeadSaltInv, Punctual, Ended, Period
    <2> QED BY <2>1, <2>2, <2>3, <2>5, <2>6, <2>7, <2>8, <2>9 DEF Work
  <1>4. CASE UNCHANGED vars
    BY <1>4 DEF vars, ingestVars, rollupVars, DeadSaltInv, Punctual, Ended, Period
  <1> QED BY <1>1, <1>3, <1>4 DEF Next

\* What the open transaction has deleted stays all there is of its unit, unless
\* a request was late.
LEMMA UnitsAreEmptied ==
  ASSUME IInv, DigestInv, [Next]_vars, TypeOK'
  PROVE  ErasureInv'
  <1> USE DEF DigestInv
  <1>t. TypeOK
    BY DEF IInv
  <1>1. CASE IngestStep
    <2>1. UNCHANGED <<lockedVisits, lockedPresence, job, lock, tx>>
      BY <1>1, IngestWrites
    <2>2. presence \subseteq presence'
      BY <1>1, IngestFootprint DEF RecordPresence
    <2>3. ASSUME lock # Nobody, tx.unit \notin late'
          PROVE  /\ OfUnit(tx.unit)' = OfUnit(tx.unit)
                 /\ PresenceOf(tx.unit)' = PresenceOf(tx.unit)
      <3>1. visits \subseteq visits'
        BY <1>1, IngestFootprint DEF FoldVisit
      <3>2. ASSUME NEW v \in visits' \ visits PROVE UnitOf(v) # tx.unit
        <4>1. ASSUME UnitOf(v) = tx.unit PROVE FALSE
          <5>1. tx.unit # NoUnit /\ Ended(Period(v.at), clock)
            BY <4>1, RealUnits DEF IInv, AccountingInv, EndedInv, UnitOf
          <5> QED BY <1>1, <2>3, <4>1, <5>1, LateWrites
        <4> QED BY <4>1
      <3>3. ASSUME NEW n \in presence' \ presence PROVE ScopeUnit(n) # tx.unit
        <4>1. ASSUME ScopeUnit(n) = tx.unit PROVE FALSE
          <5>1. tx.unit # NoUnit /\ Ended(n.period, clock)
            BY <4>1, RealScopes DEF IInv, AccountingInv, EndedInv, ScopeUnit
          <5> QED BY <1>1, <2>3, <4>1, <5>1, LateWrites
        <4> QED BY <4>1
      <3> QED BY <2>1, <2>2, <3>1, <3>2, <3>3 DEF OfUnit, PresenceOf
    <2>4. late \subseteq late'
      BY <1>1, LateWrites
    <2> QED BY <2>1, <2>2, <2>3, <2>4 DEF ErasureInv
  <1>2. CASE RollupNext
    <2>1. PICK r \in Runners : Start(r) \/ DeadlinePasses(r) \/ Work(r) \/ Crash(r)
      BY <1>2 DEF RollupNext
    <2>j. job \in [Runners -> Job] /\ job[r] \in Job
      BY <1>t DEF TypeOK
    <2>q. ASSUME job[r].pc \in InTransaction PROVE lock = r /\ lock # Nobody
      BY <2>q, VisitorRollupAssumption DEF IInv, AccountingInv, LockInv
    <2>2. CASE BeginUnit(r) /\ lock' # Nobody
      <3>1. PICK u : /\ lock' = r
                     /\ tx' = [NoTx EXCEPT !.unit = u]
                     /\ job' = [job EXCEPT ![r].pc = "daily",
                                           ![r].todo = @ \ {u}]
        BY <2>2 DEF BeginUnit
      <3>2. tx'.scopes = {}
        BY <3>1 DEF NoTx
      <3>3. job'[r].pc = "daily"
        BY <3>1, <2>j DEF Job
      <3> QED BY <3>1, <3>2, <3>3 DEF ErasureInv
    <2>3. CASE SumDaily(r) \/ SumMonthly(r) \/ SumLandings(r) \/ SumScopes(r)
      <3>1. /\ job[r].pc \in InTransaction
            /\ UNCHANGED <<visits, presence, lock>>
        BY <2>3 DEF SumDaily, SumMonthly, SumLandings, SumScopes, ingestVars,
                    InTransaction
      <3>2. job'[r].pc \in {"monthly", "landings", "scopes", "erase_scopes"}
        BY <2>3, <2>j DEF SumDaily, SumMonthly, SumLandings, SumScopes, Goto, Job
      <3>3. /\ tx'.unit = tx.unit
            /\ tx'.scopes = tx.scopes \/ tx'.scopes = PresenceOf(tx.unit)
        BY <1>t, <2>3 DEF SumDaily, SumMonthly, SumLandings, SumScopes,
                          TypeOK, TxTyped, Tx
      <3> QED BY <2>q, <3>1, <3>2, <3>3 DEF ErasureInv, PresenceOf
    <2>4. CASE EraseScopes(r)
      <3>1. /\ job'[r].pc = "erase" /\ job[r].pc \in InTransaction
            /\ UNCHANGED <<visits, presence, lock, tx, late>>
            /\ lockedPresence' = PresenceOf(tx.unit)
        BY <2>4, <2>j DEF EraseScopes, Goto, InTransaction
      <3> QED BY <2>q, <3>1 DEF ErasureInv, PresenceOf
    <2>5. CASE EraseVisits(r)
      <3>1. /\ job'[r].pc = "salts" /\ job[r].pc = "erase"
            /\ UNCHANGED <<visits, presence, lock, tx, late, lockedPresence>>
            /\ lockedVisits' = OfUnit(tx.unit)
        BY <2>5, <2>j DEF EraseVisits, Goto
      <3>2. lock = r /\ lock # Nobody
        BY <2>q, <3>1 DEF InTransaction
      <3> QED BY <3>1, <3>2 DEF ErasureInv, PresenceOf, OfUnit
    <2>6. CASE EraseSalts(r)
      <3>1. /\ job'[r].pc = "commit" /\ job[r].pc = "salts"
            /\ UNCHANGED <<visits, presence, lock, late, lockedVisits,
                           lockedPresence>>
            /\ tx'.unit = tx.unit /\ tx'.scopes = tx.scopes
        BY <1>t, <2>6, <2>j DEF EraseSalts, Goto, ingestVars, TypeOK, TxTyped, Tx
      <3>2. lock = r /\ lock # Nobody
        BY <2>q, <3>1 DEF InTransaction
      <3> QED BY <3>1, <3>2 DEF ErasureInv, PresenceOf, OfUnit
    <2>7. CASE BeginFinalSalts(r)
      <3>1. tx'.unit = NoUnit /\ tx'.scopes = {}
        BY <2>7 DEF BeginFinalSalts, NoTx
      <3> QED BY <3>1, RealUnits, RealScopes DEF ErasureInv, OfUnit, PresenceOf
    <2>8. CASE Commit(r) \/ (Crash(r) /\ lock = r)
      <3>1. tx'.scopes = {} /\ lock' = Nobody
        BY <2>8 DEF Commit, Crash, NoTx
      <3> QED BY <3>1 DEF ErasureInv
    <2>9. CASE \/ Start(r) \/ DeadlinePasses(r) \/ ExpireBatch(r)
               \/ ExpireBusy(r) \/ ExpireOver(r) \/ StopUnits(r)
               \/ EndUnits(r) \/ SkipFinalSalts(r) \/ CountRemaining(r)
               \/ Verdict(r) \/ (Crash(r) /\ lock # r)
               \/ (BeginUnit(r) /\ lock' = Nobody)
      <3>1. UNCHANGED <<visits, presence, lockedVisits, lockedPresence,
                        late, lock, tx>>
        BY <2>9, VisitorRollupAssumption
           DEF Start, DeadlinePasses, ExpireBatch, ExpireBusy, ExpireOver,
           StopUnits, EndUnits, SkipFinalSalts, CountRemaining, Verdict, Crash,
           BeginUnit, ingestVars
      <3>2. \A s \in Runners \ {r} : job'[s] = job[s]
        BY <2>9, <2>j DEF Start, DeadlinePasses, ExpireBatch, ExpireBusy,
           ExpireOver, StopUnits, EndUnits, SkipFinalSalts, CountRemaining,
           Verdict, Crash, BeginUnit, Goto, Conclude
      <3>4. job[r].pc \notin InTransaction \/ job'[r].pc = job[r].pc
        <4>1. CASE Crash(r) /\ lock # r
          BY <4>1 DEF IInv, AccountingInv, LockInv
        <4>2. CASE DeadlinePasses(r)
          BY <4>2, <2>j DEF DeadlinePasses, Job
        <4> QED BY <2>9, <4>1, <4>2 DEF Start, ExpireBatch, ExpireBusy,
                ExpireOver, StopUnits, EndUnits, SkipFinalSalts,
                CountRemaining, Verdict, BeginUnit, InTransaction
      <3>5. lock # Nobody => job'[lock].pc = job[lock].pc
        BY <3>2, <3>4, HolderWorks
      <3> QED BY <3>1, <3>5 DEF ErasureInv, OfUnit, PresenceOf
    <2> QED BY <2>1, <2>2, <2>3, <2>4, <2>5, <2>6, <2>7, <2>8, <2>9 DEF Work
  <1>3. CASE UNCHANGED vars
    BY <1>3 DEF vars, ingestVars, rollupVars, ErasureInv, OfUnit, PresenceOf
  <1> QED BY <1>1, <1>2, <1>3 DEF Next

\* At most one digest of a visitor is live in a unit that nobody was late for.
OneDigestEach ==
    \A u \in Units \ late, x \in Visitors :
        /\ Cardinality(KeysOf(OfUnit(u), x)) \in {0, 1}
        /\ Cardinality(KeysOf(PresenceOf(u), x)) \in {0, 1}

\* Comparable digests of one visitor are one digest.
LEMMA OneDigest == TypeOK /\ TraceInv => OneDigestEach
  <1> SUFFICES ASSUME TypeOK, TraceInv, NEW u \in Units \ late,
                      NEW x \in Visitors
               PROVE  /\ Cardinality(KeysOf(OfUnit(u), x)) \in {0, 1}
                      /\ Cardinality(KeysOf(PresenceOf(u), x)) \in {0, 1}
    BY DEF OneDigestEach
  <1>1. ASSUME NEW v \in visits, NEW w \in visits, v.key.visitor = x,
               w.key.visitor = x, UnitOf(v) = u, UnitOf(w) = u
        PROVE  v.key = w.key
    <2>1. /\ [unit |-> u, key |-> v.key] \in Traces
          /\ [unit |-> u, key |-> w.key] \in Traces
      BY <1>1 DEF Traces
    <2>2. v.key.site = u.site /\ w.key.site = u.site /\ v.key.salt = w.key.salt
      BY <2>1 DEF TraceInv
    <2>3. v.key \in Key /\ w.key \in Key
      BY DEF TypeOK, IngestTypeOK, Visit
    <2> QED BY <1>1, <2>2, <2>3 DEF Key
  <1>2. ASSUME NEW v \in presence, NEW w \in presence, v.key.visitor = x,
               w.key.visitor = x, ScopeUnit(v) = u, ScopeUnit(w) = u
        PROVE  v.key = w.key
    <2>1. /\ [unit |-> u, key |-> v.key] \in Traces
          /\ [unit |-> u, key |-> w.key] \in Traces
      BY <1>2 DEF Traces
    <2>2. v.key.site = u.site /\ w.key.site = u.site /\ v.key.salt = w.key.salt
      BY <2>1 DEF TraceInv
    <2>3. v.key \in Key /\ w.key \in Key
      BY DEF TypeOK, IngestTypeOK, Presence
    <2> QED BY <1>2, <2>2, <2>3 DEF Key
  <1>3. ASSUME NEW K, \A k, l \in K : k = l PROVE Cardinality(K) \in {0, 1}
    <2>1. CASE K = {}
      BY <2>1, FS_EmptySet
    <2>2. CASE K # {}
      <3>1. PICK k \in K : TRUE
        BY <2>2
      <3>2. K = {k}
        BY <1>3
      <3> QED BY <3>2, FS_Singleton
    <2> QED BY <2>1, <2>2
  <1>4. \A k, l \in KeysOf(OfUnit(u), x) : k = l
    BY <1>1 DEF KeysOf, OfUnit
  <1>5. \A k, l \in KeysOf(PresenceOf(u), x) : k = l
    BY <1>2 DEF KeysOf, PresenceOf
  <1> QED BY <1>3, <1>4, <1>5

\* Nobody enters the permanent tables of a month that lasts.
LEMMA OpenMonthsStayEmpty ==
  ASSUME IInv, DigestInv, [Next]_vars, TypeOK'
  PROVE  OpenMonthInv'
  <1>t. TypeOK
    BY DEF IInv
  <1>p. \A u \in Units : u.period \in Periods
    BY DEF Units
  <1>1. CASE UNCHANGED <<clock, monthVisitors, scopeVisitors>>
    BY <1>1 DEF DigestInv, OpenMonthInv, Ended, Period
  <1>2. CASE IngestStep
    <2>1. UNCHANGED <<monthVisitors, scopeVisitors>>
      BY <1>2, IngestWrites
    <2>2. \A u \in Units : Ended(u.period, clock) => Ended(u.period, clock')
      BY <1>2, <1>p, EndedStays
    <2> QED BY <2>1, <2>2 DEF DigestInv, OpenMonthInv, Ended, Period
  <1>3. ASSUME NEW r \in Runners, Commit(r) PROVE OpenMonthInv'
    <2>1. /\ monthVisitors' = Counted(monthVisitors, tx.unit, tx.monthly)
          /\ scopeVisitors' = Counted(scopeVisitors, tx.unit, tx.scopes)
          /\ clock' = clock
      BY <1>3 DEF Commit
    <2>2. ASSUME NEW u \in Units, NEW x \in Visitors, ~Ended(u.period, clock)
          PROVE  monthVisitors'[u][x] = 0 /\ scopeVisitors'[u][x] = 0
      <3>1. u # tx.unit
        BY <2>2, RealUnits DEF IInv, AccountingInv, EndedInv
      <3>2. monthVisitors[u][x] = 0 /\ scopeVisitors[u][x] = 0
        BY <2>2 DEF DigestInv, OpenMonthInv
      <3> QED BY <2>1, <3>1, <3>2 DEF Counted
    <2> QED BY <2>1, <2>2 DEF OpenMonthInv, Ended, Period
  <1>4. CASE RollupNext
    <2>1. CASE \A r \in Runners : ~Commit(r)
      BY <1>1, <1>4, <2>1, RollupWrites
    <2> QED BY <1>3, <2>1
  <1>5. CASE UNCHANGED vars
    BY <1>1, <1>5 DEF vars, ingestVars, rollupVars, permanentVars
  <1> QED BY <1>2, <1>4, <1>5 DEF Next

\* Fewer rows have no more digests of a visitor.
LEMMA FewerKeys ==
  ASSUME NEW R, NEW S, IsFiniteSet(S), R \subseteq S, NEW x
  PROVE  Cardinality(KeysOf(R, x)) <= Cardinality(KeysOf(S, x))
  <1> DEFINE T == {w \in S : w.key.visitor = x}
             f == [v \in T |-> v.key]
  <1>1. IsFiniteSet(T)
    BY FS_Subset
  <1>2. f \in Surjection(T, KeysOf(S, x))
    BY DEF Surjection, KeysOf
  <1>3. IsFiniteSet(KeysOf(S, x))
    BY <1>1, <1>2, FS_Surjection
  <1>4. KeysOf(R, x) \subseteq KeysOf(S, x)
    BY DEF KeysOf
  <1> QED BY <1>3, <1>4, FS_Subset

\* Whoever is counted in the permanent tables is not live any more.
LEMMA NobodyCountedTwice ==
  ASSUME IInv, DigestInv, CountedOncePerMonth, [Next]_vars, TypeOK',
         TraceInv', OpenMonthInv'
  PROVE  CountedOncePerMonth'
  <1>t. TypeOK
    BY DEF IInv
  <1>f. ASSUME NEW R, IsFiniteSet(R), NEW x
        PROVE  Cardinality(KeysOf(R, x)) \in Nat
    BY <1>f, KeysFinite
  <1>1. CASE UNCHANGED <<visits, presence, late, monthVisitors, scopeVisitors>>
    BY <1>1 DEF CountedOncePerMonth, OfUnit, PresenceOf, KeysOf
  <1>2. CASE IngestStep
    <2>1. UNCHANGED <<monthVisitors, scopeVisitors>>
      BY <1>2, IngestWrites
    <2>2. ASSUME NEW u \in Units \ late', NEW x \in Visitors
          PROVE  /\ monthVisitors[u][x] + Cardinality(KeysOf(OfUnit(u)', x)) <= 1
                 /\ scopeVisitors[u][x] + Cardinality(KeysOf(PresenceOf(u)', x)) <= 1
      <3>1. u \notin late
        BY <1>2, LateWrites
      <3>2. /\ Cardinality(KeysOf(OfUnit(u)', x)) \in {0, 1}
            /\ Cardinality(KeysOf(PresenceOf(u)', x)) \in {0, 1}
        <4>1. OneDigestEach'
          BY OneDigest, PTL
        <4> QED BY <4>1 DEF OneDigestEach, KeysOf
      <3>3. CASE ~Ended(u.period, clock)
        <4>1. monthVisitors[u][x] = 0 /\ scopeVisitors[u][x] = 0
          BY <3>3 DEF DigestInv, OpenMonthInv
        <4> QED BY <3>2, <4>1
      <3>4. CASE Ended(u.period, clock)
        <4>1. OfUnit(u)' = OfUnit(u)
          BY <1>2, <2>2, <3>4, LateWrites, IngestFootprint
             DEF OfUnit, UnitOf, FoldVisit
        <4>2. PresenceOf(u)' = PresenceOf(u)
          BY <1>2, <2>2, <3>4, LateWrites, IngestFootprint
             DEF PresenceOf, ScopeUnit, RecordPresence
        <4> QED BY <3>1, <4>1, <4>2 DEF CountedOncePerMonth
      <3> QED BY <3>3, <3>4
    <2> QED BY <2>1, <2>2 DEF CountedOncePerMonth, KeysOf
  <1>3. ASSUME NEW r \in Runners, Commit(r) PROVE CountedOncePerMonth'
    <2>1. /\ monthVisitors' = Counted(monthVisitors, tx.unit, tx.monthly)
          /\ scopeVisitors' = Counted(scopeVisitors, tx.unit, tx.scopes)
          /\ visits' = visits \ lockedVisits
          /\ presence' = presence \ lockedPresence
          /\ late' = late /\ job[r].pc = "commit"
      BY <1>3 DEF Commit
    <2>2. lock = r /\ lock # Nobody
      BY <2>1, VisitorRollupAssumption
         DEF IInv, AccountingInv, LockInv, InTransaction
    <2>3. ASSUME NEW u \in Units \ late, NEW x \in Visitors
          PROVE  /\ monthVisitors'[u][x] + Cardinality(KeysOf(OfUnit(u)', x)) <= 1
                 /\ scopeVisitors'[u][x] + Cardinality(KeysOf(PresenceOf(u)', x)) <= 1
      <3> DEFINE live == Cardinality(KeysOf(OfUnit(u), x))
                 seen == Cardinality(KeysOf(PresenceOf(u), x))
      <3>1. /\ OfUnit(u)' \subseteq OfUnit(u) /\ IsFiniteSet(OfUnit(u))
            /\ PresenceOf(u)' \subseteq PresenceOf(u) /\ IsFiniteSet(PresenceOf(u))
        BY <1>t, <2>1, UnitRowsTyped DEF OfUnit, PresenceOf
      <3>2. /\ live \in Nat /\ seen \in Nat
            /\ monthVisitors[u][x] \in Nat /\ scopeVisitors[u][x] \in Nat
            /\ monthVisitors[u][x] + live <= 1
            /\ scopeVisitors[u][x] + seen <= 1
        BY <1>t, <1>f, <3>1 DEF CountedOncePerMonth, TypeOK, CountersTyped
      <3>3. CASE u # tx.unit
        <4>1. /\ monthVisitors'[u][x] = monthVisitors[u][x] + 0
              /\ scopeVisitors'[u][x] = scopeVisitors[u][x] + 0
          BY <2>1, <3>3 DEF Counted
        <4>2. /\ Cardinality(KeysOf(OfUnit(u)', x)) <= live
              /\ Cardinality(KeysOf(PresenceOf(u)', x)) <= seen
          BY <3>1, FewerKeys
        <4>3. /\ IsFiniteSet(OfUnit(u)') /\ IsFiniteSet(PresenceOf(u)')
          BY <3>1, FS_Subset
        <4>4. /\ Cardinality(KeysOf(OfUnit(u)', x)) \in Nat
              /\ Cardinality(KeysOf(PresenceOf(u)', x)) \in Nat
          BY <1>f, <4>3
        <4> QED BY <3>2, <4>1, <4>2, <4>4
      <3>4. CASE u = tx.unit
        <4>1. /\ monthVisitors'[u][x]
                   = monthVisitors[u][x] + Cardinality(KeysOf(tx.monthly, x))
              /\ scopeVisitors'[u][x]
                   = scopeVisitors[u][x] + Cardinality(KeysOf(tx.scopes, x))
          BY <2>1, <3>4 DEF Counted
        <4>2. tx.monthly \subseteq OfUnit(u) /\ tx.scopes \subseteq PresenceOf(u)
          BY <3>4 DEF IInv, AccountingInv, TxInv, DigestInv, ErasureInv,
                      OfUnit, PresenceOf
        <4>3. /\ Cardinality(KeysOf(tx.monthly, x)) <= live
              /\ Cardinality(KeysOf(tx.scopes, x)) <= seen
          BY <3>1, <4>2, FewerKeys
        <4>4. /\ Cardinality(KeysOf(tx.monthly, x)) \in Nat
              /\ Cardinality(KeysOf(tx.scopes, x)) \in Nat
          BY <1>t, <1>f DEF TypeOK, TxTyped
        <4>5. OfUnit(u)' = {} /\ PresenceOf(u)' = {}
          BY <2>1, <2>2, <2>3, <3>4 DEF DigestInv, ErasureInv, OfUnit, PresenceOf
        <4>6. KeysOf({}, x) = {}
          BY DEF KeysOf
        <4>7. Cardinality(KeysOf(OfUnit(u)', x)) = 0
              /\ Cardinality(KeysOf(PresenceOf(u)', x)) = 0
          BY <4>5, <4>6, FS_EmptySet
        <4> HIDE DEF live, seen
        <4> QED BY <3>2, <4>1, <4>3, <4>4, <4>7
      <3> QED BY <3>3, <3>4
    <2> QED BY <2>1, <2>3 DEF CountedOncePerMonth, KeysOf
  <1>4. CASE RollupNext
    <2>1. CASE \A r \in Runners : ~Commit(r)
      BY <1>1, <1>4, <2>1, RollupWrites
    <2> QED BY <1>3, <2>1
  <1>5. CASE UNCHANGED vars
    BY <1>1, <1>5 DEF vars, ingestVars, rollupVars, permanentVars
  <1> QED BY <1>2, <1>4, <1>5 DEF Next

\* Empty tables hold no digests.
LEMMA InitDigests == Init => DigestInv /\ CountedOncePerMonth
  <1> SUFFICES ASSUME Init PROVE DigestInv /\ CountedOncePerMonth
    OBVIOUS
  <1> USE DEF Init, IngestInit, RollupInit
  <1>1. SaltInv
    BY DEF SaltInv
  <1>2. TraceInv
    BY DEF TraceInv, Traces
  <1>3. DeadSaltInv /\ ErasureInv
    BY DEF DeadSaltInv, ErasureInv, NoTx
  <1>4. OpenMonthInv
    BY DEF OpenMonthInv
  <1>7. \A u \in Units, x \in Visitors :
          monthVisitors[u][x] = 0 /\ scopeVisitors[u][x] = 0
    BY Zenon
  <1>5. \A u, x : KeysOf(OfUnit(u), x) = {} /\ KeysOf(PresenceOf(u), x) = {}
    BY DEF KeysOf, OfUnit, PresenceOf
  <1>6. CountedOncePerMonth
    <2> SUFFICES ASSUME NEW u \in Units, NEW x \in Visitors
                 PROVE  /\ monthVisitors[u][x] + Cardinality(KeysOf(OfUnit(u), x)) <= 1
                        /\ scopeVisitors[u][x] + Cardinality(KeysOf(PresenceOf(u), x)) <= 1
      BY DEF CountedOncePerMonth
    <2>1. monthVisitors[u][x] = 0 /\ scopeVisitors[u][x] = 0
      BY <1>7
    <2>2. KeysOf(OfUnit(u), x) = {} /\ KeysOf(PresenceOf(u), x) = {}
      BY <1>5
    <2>3. /\ Cardinality(KeysOf(OfUnit(u), x)) = 0
          /\ Cardinality(KeysOf(PresenceOf(u), x)) = 0
      BY <2>2, FS_EmptySet
    <2> QED BY <2>1, <2>3
  <1> QED BY <1>1, <1>2, <1>3, <1>4, <1>6 DEF DigestInv

\* The salts, the digests in flight and in the tables, and the open
\* transaction fit together in every reachable state.
THEOREM DigestsHold == Spec => [](DigestInv /\ CountedOncePerMonth)
  <1> DEFINE J == DigestInv /\ CountedOncePerMonth
  <1>1. IInv /\ TypeOK' /\ J /\ [Next]_vars => J'
    <2> SUFFICES ASSUME IInv, TypeOK', DigestInv, CountedOncePerMonth, [Next]_vars
                 PROVE  DigestInv' /\ CountedOncePerMonth'
      OBVIOUS
    <2>1. SaltInv' /\ TraceInv' /\ DeadSaltInv' /\ ErasureInv' /\ OpenMonthInv'
      BY SaltsAgree, TracesAgree, DeadSaltsStayDead, UnitsAreEmptied,
         OpenMonthsStayEmpty
    <2> QED BY <2>1, NobodyCountedTwice DEF DigestInv
  <1>2. Init => J
    BY InitDigests
  <1> HIDE DEF J
  <1>3. Spec => []J
    BY <1>1, <1>2, AccountingHolds, RollupTypeCorrect, PTL DEF Spec
  <1> QED BY <1>3 DEF J

\* A month's digests were all made with the salt its next request will get, as
\* long as no request outlived the month: salts are never destroyed too early.
THEOREM SaltsAreKept == Spec => []SaltOutlivesItsState
  <1>1. DigestInv => SaltOutlivesItsState
    <2> SUFFICES ASSUME DigestInv, NEW v \in visits, Punctual(Period(v.at))
                 PROVE  v.key.salt = salt[Period(v.at)]
      BY DEF SaltOutlivesItsState, Punctual
    <2>1. [unit |-> UnitOf(v), key |-> v.key] \in Traces
      BY DEF Traces
    <2> QED BY <2>1 DEF DigestInv, TraceInv, UnitOf
  <1> QED BY DigestsHold, <1>1, PTL

\* visitor_period counts a visitor once a month and site, whichever process
\* answered and however often maintenance was interrupted.
THEOREM VisitorsCountOnce == Spec => []CountedOncePerMonth
  BY DigestsHold, PTL

(***************************************************************************)
(* Why "completed" can be believed: what an invocation saw done cannot be  *)
(* undone, since a request is too young to write what had expired when the *)
(* invocation started.                                                     *)
(***************************************************************************)

\* Requests are younger than the retention of digests.
LEMMA RequestsAreYoung ==
  ASSUME IInv, LatenessInv, [Next]_vars
  PROVE  LatenessInv'
  <1>t. /\ clock \in Nat /\ req \in [Slots -> Request \cup {NoRequest}]
        /\ MaxLateness \in Nat
    BY DigestTypes, VisitorIngestAssumption DEF IInv
  <1>1. CASE UNCHANGED <<clock, req>>
    BY <1>1 DEF LatenessInv
  <1>2. CASE /\ clock' = clock
             /\ \A s \in Slots : req'[s] # NoRequest =>
                   \/ req'[s].at = clock
                   \/ req[s] # NoRequest /\ req'[s].at = req[s].at
    BY <1>2, <1>t DEF LatenessInv
  <1>3. CASE IngestStep
    <2>1. ASSUME NEW s \in Slots, Receive(s) PROVE LatenessInv'
      <3>1. /\ clock' = clock /\ req'[s].at = clock
            /\ \A t \in Slots \ {s} : req'[t] = req[t]
        BY <1>t, <2>1 DEF Receive
      <3> QED BY <1>2, <3>1
    <2>2. ASSUME NEW s \in Slots, Handle(s) PROVE LatenessInv'
      <3>1. clock' = clock /\ req[s] # NoRequest
        BY <2>2 DEF Handle, DeriveKey, NeedsKey, KeyFails, StoreEvent,
           FoldVisit, RecordPresence, HandlerFails, NoRequest
      <3>2. req[s] \in Request
        BY <1>t, <3>1
      <3>3. \/ req' = [req EXCEPT ![s] = NoRequest]
            \/ \E ph, k : req' = [req EXCEPT ![s] =
                                    [req[s] EXCEPT !.phase = ph, !.key = k]]
            \/ \E ph : req' = [req EXCEPT ![s] = [req[s] EXCEPT !.phase = ph]]
            \/ \E k : req' = [req EXCEPT ![s] = [req[s] EXCEPT !.key = k]]
        BY <2>2 DEF Handle, DeriveKey, KeyFails, StoreEvent, FoldVisit,
           RecordPresence, HandlerFails
      <3>4. /\ \A t \in Slots \ {s} : req'[t] = req[t]
            /\ req'[s] # NoRequest => req'[s].at = req[s].at
        BY <1>t, <3>2, <3>3, ZenonT(40) DEF Request
      <3> QED BY <1>2, <3>1, <3>4
    <2>3. ASSUME NEW c \in Processes, RestartProcess(c) PROVE LatenessInv'
      <3>1. clock' = clock /\ \A t \in Slots : req'[t] \in {req[t], NoRequest}
        BY <1>t, <2>3 DEF RestartProcess
      <3> QED BY <1>2, <3>1
    <2>4. CASE Tick
      <3>1. ASSUME NEW s \in Slots, req[s] # NoRequest
            PROVE  clock + 1 <= req[s].at + MaxLateness
        <4>1. req[s].at \in Nat
          BY <1>t, <3>1, VisitorIngestAssumption DEF Request, Times
        <4> QED BY <1>t, <2>4, <3>1, <4>1 DEF Tick
      <3> QED BY <2>4, <3>1 DEF Tick, LatenessInv
    <2>5. CASE (\E site \in Replaced : Replace(site)) \/ EndReplace
      BY <2>5 DEF Replace, EndReplace, LatenessInv
    <2> QED BY <1>3, <2>1, <2>2, <2>3, <2>4, <2>5 DEF IngestStep, IngestNext
  <1>4. CASE RollupNext
    <2>1. CASE \A r \in Runners : ~Commit(r)
      BY <1>1, <1>4, <2>1, RollupWrites
    <2>2. ASSUME NEW r \in Runners, Commit(r) PROVE LatenessInv'
      BY <1>1, <2>2 DEF Commit
    <2> QED BY <2>1, <2>2
  <1>5. CASE UNCHANGED vars
    BY <1>1, <1>5 DEF vars, ingestVars
  <1> QED BY <1>3, <1>4, <1>5 DEF Next

\* Beside its start, an invocation keeps its clock and selection, and no
\* statement of it creates a row or a digest.
LEMMA RunsOnlyRemove ==
  ASSUME TypeOK, NEW r \in Runners,
         DeadlinePasses(r) \/ Work(r) \/ Crash(r)
  PROVE  /\ due' = due /\ folded' = folded /\ visits' \subseteq visits
         /\ \A e \in events' : e \in events \/ e.key = NoKey
         /\ \A s \in Runners \ {r} : job'[s] = job[s]
         /\ job'[r].sel = job[r].sel /\ job'[r].now = job[r].now
  <1>j. job \in [Runners -> Job] /\ job[r] \in Job
    BY DEF TypeOK
  <1>1. due' = due /\ folded' = folded /\ visits' \subseteq visits
    BY DEF Work, DeadlinePasses, ExpireBatch, ExpireBusy,
       ExpireOver, BeginUnit, StopUnits, EndUnits, SumDaily, SumMonthly,
       SumLandings, SumScopes, EraseScopes, EraseVisits, EraseSalts, Commit,
       BeginFinalSalts, SkipFinalSalts, CountRemaining, Verdict, Crash,
       ingestVars
  <1>2. \A e \in events' : e \in events \/ e.key = NoKey
    <2>1. CASE ExpireBatch(r)
      <3>1. PICK B \in Batches(job[r]) :
              events' = (events \ B) \cup {[e EXCEPT !.key = NoKey] : e \in B}
        BY <2>1 DEF ExpireBatch
      <3>2. B \subseteq Event
        BY DEF Batches, Expired, TypeOK, IngestTypeOK
      <3>3. \A e \in Event : [e EXCEPT !.key = NoKey].key = NoKey
        BY DEF Event
      <3> QED BY <3>1, <3>2, <3>3
    <2>2. CASE ~ExpireBatch(r)
      BY <2>2 DEF Work, DeadlinePasses, ExpireBusy,
         ExpireOver, BeginUnit, StopUnits, EndUnits, SumDaily, SumMonthly,
         SumLandings, SumScopes, EraseScopes, EraseVisits, EraseSalts, Commit,
         BeginFinalSalts, SkipFinalSalts, CountRemaining, Verdict, Crash,
         ingestVars
    <2> QED BY <2>1, <2>2
  <1>3. CASE \E ph : Goto(r, ph)
    BY <1>1, <1>2, <1>3, <1>j DEF Goto, Job
  <1>4. CASE \E st : Conclude(r, st)
    BY <1>1, <1>2, <1>4, <1>j DEF Conclude, Job
  <1>5. CASE DeadlinePasses(r)
    BY <1>1, <1>2, <1>5, <1>j DEF DeadlinePasses, Job
  <1>6. CASE BeginUnit(r)
    BY <1>1, <1>2, <1>6, <1>j DEF BeginUnit, Job
  <1>7. CASE CountRemaining(r)
    BY <1>1, <1>2, <1>7, <1>j DEF CountRemaining, Job
  <1>8. CASE Verdict(r)
    BY <1>1, <1>2, <1>8, <1>j DEF Verdict, Job
  <1>9. CASE Crash(r)
    BY <1>1, <1>2, <1>9, <1>j DEF Crash, Job
  <1>10. CASE job' = job
    BY <1>1, <1>2, <1>10
  <1>11. CASE \/ ExpireBatch(r) \/ ExpireBusy(r) \/ ExpireOver(r)
              \/ StopUnits(r) \/ EndUnits(r)
              \/ SumDaily(r) \/ SumMonthly(r) \/ SumLandings(r)
              \/ SumScopes(r) \/ EraseScopes(r) \/ EraseVisits(r) \/ EraseSalts(r)
              \/ BeginFinalSalts(r) \/ SkipFinalSalts(r) \/ Commit(r)
    <2>1. \/ \E ph : Goto(r, ph)
          \/ \E st : Conclude(r, st)
          \/ job' = job
      BY <1>11 DEF ExpireBatch, ExpireBusy, ExpireOver, StopUnits, EndUnits,
         SumDaily, SumMonthly, SumLandings, SumScopes, EraseScopes, EraseVisits,
         EraseSalts, Commit, BeginFinalSalts, SkipFinalSalts
    <2> QED BY <2>1, <1>1, <1>2, <1>3, <1>4, <1>10
  <1> QED BY <1>5, <1>6, <1>7, <1>8, <1>9, <1>11 DEF Work

\* A row that appears is of a pageview that was not due before.
LEMMA NewRowsAreNew ==
  ASSUME IInv, IngestStep
  PROVE  /\ folded \subseteq folded' /\ visits \subseteq visits'
         /\ \A v \in visits' \ visits : v.hit \notin folded
  <1>1. CASE \E s \in Slots : FoldVisit(s)
    <2>1. PICK s \in Slots : FoldVisit(s)
      BY <1>1
    <2>2. req[s] # NoRequest /\ req[s].phase = "stored"
      BY <2>1 DEF FoldVisit, NoRequest
    <2>3. req[s].hit \notin folded
      BY <2>2 DEF IInv, AccountingInv, HitInv
    <2> QED BY <2>1, <2>3 DEF FoldVisit
  <1>2. CASE \A s \in Slots : ~FoldVisit(s)
    <2>1. visits' = visits
      BY <1>2, IngestFootprint
    <2>2. folded' = folded
      BY <1>2 DEF IngestStep, IngestNext, Handle, Receive, DeriveKey, KeyFails,
         StoreEvent, RecordPresence, HandlerFails, RestartProcess,
         Replace, EndReplace, Tick
    <2> QED BY <2>1, <2>2
  <1> QED BY <1>1, <1>2

\* What was due stays a ripe row of the invocation's selection, or is gone.
LEMMA DueStaysDue ==
  ASSUME IInv, DueInv, [Next]_vars
  PROVE  DueInv'
  <1>t. TypeOK /\ job \in [Runners -> Job] /\ due \in [Runners -> SUBSET Hits]
    BY DEF IInv, TypeOK
  <1>1. CASE IngestStep
    <2>1. due' = due /\ job' = job
      BY <1>1, IngestWrites
    <2> QED BY <1>1, <2>1, NewRowsAreNew DEF DueInv, Ended, Period
  <1>2. ASSUME NEW r \in Runners, Start(r) PROVE DueInv'
    <2>0. PICK sel \in Selections :
            /\ \E dry \in BOOLEAN :
                 LET j == [pc |-> IF dry THEN "verdict" ELSE "expire",
                           now |-> clock, sel |-> sel, todo |-> {},
                           over |-> FALSE,
                           status |-> IF dry THEN "dry_run" ELSE "completed",
                           behind |-> FALSE]
                 IN  job' = [job EXCEPT ![r] = [j EXCEPT !.todo = PendingUnits(j)]]
            /\ due' = [due EXCEPT ![r] =
                         {v.hit : v \in {w \in visits :
                                    /\ w.site \in sel.sites
                                    /\ Period(w.at) \in sel.periods
                                    /\ Ended(Period(w.at), clock)}}]
      BY <1>2 DEF Start
    <2>1. job'[r].sel = sel /\ job'[r].now = clock
      BY <1>t, <2>0
    <2>2. \A s \in Runners \ {r} : job'[s] = job[s] /\ due'[s] = due[s]
      BY <1>t, <2>0
    <2>3. UNCHANGED <<visits, folded>>
      BY <1>2 DEF Start, ingestVars
    <2>4. /\ due'[r] \subseteq folded
          /\ \A v \in visits : v.hit \in due'[r] =>
                /\ v.site \in sel.sites
                /\ Period(v.at) \in sel.periods
                /\ Ended(Period(v.at), clock)
      <3>1. due'[r] = {v.hit : v \in {w \in visits :
                                    /\ w.site \in sel.sites
                                    /\ Period(w.at) \in sel.periods
                                    /\ Ended(Period(w.at), clock)}}
        BY <1>t, <2>0
      <3> QED BY <3>1 DEF IInv, AccountingInv, HitInv
    <2> QED BY <2>1, <2>2, <2>3, <2>4 DEF DueInv, Ended, Period
  <1>3. ASSUME NEW r \in Runners, DeadlinePasses(r) \/ Work(r) \/ Crash(r)
        PROVE  DueInv'
    <2>1. /\ due' = due /\ folded' = folded /\ visits' \subseteq visits
          /\ \A s \in Runners : /\ job'[s].sel = job[s].sel
                                /\ job'[s].now = job[s].now
      BY <1>3, <1>t, RunsOnlyRemove
    <2> QED BY <2>1 DEF DueInv, Ended, Period
  <1>4. CASE UNCHANGED vars
    BY <1>4 DEF vars, ingestVars, rollupVars, DueInv, Ended, Period
  <1> QED BY <1>1, <1>2, <1>3, <1>4 DEF Next, RollupNext

\* A verdict "completed" stays true: the due rows do not come back, and what
\* a request can still store is younger than the cutoff.
LEMMA VerdictsLast ==
  ASSUME IInv, CompletionInv, [Next]_vars, TypeOK'
  PROVE  VerdictInv'
  <1> USE DEF CompletionInv
  <1>t. TypeOK /\ job \in [Runners -> Job] /\ due \in [Runners -> SUBSET Hits]
    BY DEF IInv, TypeOK
  <1>1. CASE IngestStep
    <2>1. due' = due /\ job' = job
      BY <1>1, IngestWrites
    <2>2. \A r \in Runners : \A h \in due[r] : ~Live(h) => ~Live(h)'
      BY <1>1, NewRowsAreNew DEF Live, DueInv
    <2>3. ASSUME NEW r \in Runners, NEW e \in events' \ events
          PROVE  ~(e.at < job[r].now - Retention)
      <3>1. PICK s \in Slots : StoreEvent(s)
        BY <1>1, <2>3 DEF IngestStep, IngestNext, Handle, Receive, DeriveKey,
           KeyFails, FoldVisit, RecordPresence, HandlerFails, RestartProcess,
         Replace, EndReplace, Tick
      <3>2. e.at = req[s].at /\ req[s] # NoRequest
        BY <2>3, <3>1 DEF StoreEvent, NoRequest
      <3>3. req[s] \in Request
        BY <1>t, <3>2, DigestTypes
      <3>4. clock <= e.at + MaxLateness /\ job[r].now <= clock
        BY <3>2 DEF LatenessInv, IInv, AccountingInv, EndedInv
      <3>5. /\ e.at \in Nat /\ clock \in Nat /\ job[r].now \in Nat
            /\ MaxLateness \in Nat /\ Retention \in Nat
            /\ MaxLateness <= Retention
        BY <1>t, <3>2, <3>3, DigestTypes, VisitorIngestAssumption,
           VisitorRollupAssumption DEF Request, Times, Job
      <3> QED BY <3>4, <3>5
    <2>4. \A r \in Runners : Expired(job[r]) = {} => Expired(job[r])' = {}
      BY <2>1, <2>3 DEF Expired
    <2> QED BY <2>1, <2>2, <2>4 DEF VerdictInv, Expired
  <1>2. ASSUME NEW r \in Runners,
               /\ \A h \in Hits : Live(h)' => Live(h)
               /\ \A e \in events' : e \in events \/ e.key = NoKey
               /\ \A s \in Runners \ {r} : job'[s] = job[s] /\ due'[s] = due[s],
               job'[r].status = "completed" =>
                 /\ job'[r].pc = "idle"
                       \/ (job'[r].pc = "verdict" /\ ~job'[r].behind) =>
                    \A h \in due'[r] : ~Live(h)
                 /\ job'[r].pc = "idle" =>
                      Expired(job[r]) = {} /\ job'[r].now = job[r].now
                                           /\ job'[r].sel = job[r].sel
        PROVE  VerdictInv'
    <2>d. due' \in [Runners -> SUBSET Hits]
      BY DEF TypeOK
    <2>1. ASSUME NEW s \in Runners, job'[s].status = "completed"
          PROVE  /\ job'[s].pc = "idle"
                       \/ (job'[s].pc = "verdict" /\ ~job'[s].behind) =>
                    \A h \in due'[s] : ~Live(h)'
                 /\ job'[s].pc = "idle" => Expired(job[s])' = {}
      <3>1. CASE s = r
        BY <1>2, <2>d, <2>1, <3>1 DEF Expired
      <3>2. CASE s # r
        BY <1>2, <2>d, <2>1, <3>2 DEF VerdictInv, Expired
      <3> QED BY <3>1, <3>2
    <2> QED BY <2>1 DEF VerdictInv, Expired
  <1>3. ASSUME NEW r \in Runners, Start(r) PROVE VerdictInv'
    <2>1. /\ \A s \in Runners \ {r} : job'[s] = job[s] /\ due'[s] = due[s]
          /\ UNCHANGED <<visits, events>>
      BY <1>3, <1>t DEF Start, ingestVars
    <2>2. job'[r].status = "completed" => job'[r].pc = "expire"
      BY <1>3, <1>t DEF Start
    <2> QED BY <1>2, <2>1, <2>2 DEF Live
  <1>4. ASSUME NEW r \in Runners, DeadlinePasses(r) \/ Work(r) \/ Crash(r)
        PROVE  VerdictInv'
    <2>1. /\ due' = due /\ visits' \subseteq visits
          /\ \A e \in events' : e \in events \/ e.key = NoKey
          /\ \A s \in Runners \ {r} : job'[s] = job[s]
          /\ job'[r].sel = job[r].sel /\ job'[r].now = job[r].now
      BY <1>4, <1>t, RunsOnlyRemove
    <2>2. \A h \in Hits : Live(h)' => Live(h)
      BY <2>1 DEF Live
    <2>j. job[r] \in Job
      BY <1>t
    <2>3. CASE CountRemaining(r)
      <3>1. /\ job'[r].pc = "verdict"
            /\ job'[r].behind = (PendingUnits(job[r]) # {})
        BY <2>3, <1>t DEF CountRemaining, Job
      <3>2. ASSUME NEW v \in visits, v.hit \in due[r]
            PROVE  UnitOf(v) \in PendingUnits(job[r])
        BY <3>2 DEF DueInv, PendingUnits, UnitOf
      <3> QED BY <1>2, <2>1, <2>2, <3>1, <3>2, ZenonT(40) DEF Live
    <2>4. CASE Verdict(r)
      <3>1. /\ job[r].pc = "verdict" /\ job'[r].pc = "idle"
            /\ job'[r].status = "completed" =>
                  /\ job[r].status = "completed" /\ ~job[r].behind
                  /\ Expired(job[r]) = {}
        <4>1. job'[r] = [job[r] EXCEPT
                           !.pc = "idle",
                           !.status = IF @ = "completed"
                                         /\ (job[r].behind \/ Expired(job[r]) # {})
                                      THEN "budget_exhausted" ELSE @]
          BY <2>4, <1>t DEF Verdict
        <4>2. job'[r].pc = "idle"
          BY <2>j, <4>1 DEF Job
        <4>3. CASE job[r].status = "completed"
                      /\ (job[r].behind \/ Expired(job[r]) # {})
          <5>1. job'[r] = [job[r] EXCEPT !.pc = "idle", !.status = "budget_exhausted"]
            BY <4>1, <4>3, Zenon
          <5>2. job'[r].status = "budget_exhausted"
            BY <2>j, <5>1 DEF Job
          <5> QED BY <2>4, <4>2, <5>2 DEF Verdict
        <4>4. CASE ~(job[r].status = "completed"
                      /\ (job[r].behind \/ Expired(job[r]) # {}))
          <5>1. job'[r] = [job[r] EXCEPT !.pc = "idle"]
            BY <2>j, <4>1, <4>4 DEF Job
          <5>2. job'[r].status = job[r].status
            BY <2>j, <5>1 DEF Job
          <5> QED BY <2>4, <4>2, <4>4, <5>2, Zenon DEF Verdict
        <4> QED BY <4>3, <4>4
      <3>2. job'[r].status = "completed" => \A h \in due'[r] : ~Live(h)
        BY <2>1, <3>1 DEF VerdictInv
      <3> QED BY <1>2, <2>1, <2>2, <3>1, <3>2
    <2>5. CASE Crash(r)
      <3>1. job'[r].status = "error"
        BY <2>5, <1>t DEF Crash, Job
      <3> QED BY <1>2, <2>1, <2>2, <3>1
    <2>6. CASE ~(CountRemaining(r) \/ Verdict(r) \/ Crash(r))
      <3>1. job'[r].pc \notin {"idle", "verdict"}
        <4>1. CASE \E ph \in Phases \ {"idle", "verdict"} : Goto(r, ph)
          BY <4>1, <1>t, <2>j DEF Goto, Job
        <4>2. CASE \E st : Conclude(r, st)
          BY <4>2, <1>t, <2>j DEF Conclude, Job
        <4>3. CASE job' = job /\ job[r].pc \notin {"idle", "verdict"}
          BY <4>3
        <4>4. CASE DeadlinePasses(r)
          BY <4>4, <1>t, <2>j DEF DeadlinePasses, Job
        <4>5. CASE BeginUnit(r)
          BY <4>5, <1>t, <2>j DEF BeginUnit, Job
        <4>6. CASE ExpireBatch(r) \/ ExpireBusy(r) \/ ExpireOver(r)
                    \/ StopUnits(r) \/ EndUnits(r) \/ SumDaily(r)
                    \/ SumMonthly(r) \/ SumLandings(r) \/ SumScopes(r)
          BY <4>6, <4>1, <4>2, <4>3
             DEF ExpireBatch, ExpireBusy, ExpireOver, StopUnits, EndUnits,
                 SumDaily, SumMonthly, SumLandings, SumScopes, Phases,
                 InTransaction
        <4>7. CASE \/ EraseScopes(r) \/ EraseVisits(r) \/ EraseSalts(r)
                   \/ BeginFinalSalts(r) \/ SkipFinalSalts(r) \/ Commit(r)
          BY <4>7, <4>1, <4>2 DEF EraseScopes, EraseVisits, EraseSalts, Commit,
             BeginFinalSalts, SkipFinalSalts, Phases, InTransaction
        <4> QED BY <1>4, <2>6, <4>4, <4>5, <4>6, <4>7 DEF Work
      <3> QED BY <1>2, <2>1, <2>2, <3>1
    <2> QED BY <2>3, <2>4, <2>5, <2>6
  <1>5. CASE UNCHANGED vars
    BY <1>5 DEF vars, ingestVars, rollupVars, VerdictInv, Expired, Live
  <1> QED BY <1>1, <1>3, <1>4, <1>5 DEF Next, RollupNext

\* Every verdict rests on what the invocation saw.
THEOREM CompletionHolds == Spec => []CompletionInv
  <1>1. Init => CompletionInv
    BY DEF Init, IngestInit, RollupInit, CompletionInv, LatenessInv, DueInv,
           VerdictInv
  <1>2. IInv /\ TypeOK' /\ CompletionInv /\ [Next]_vars => CompletionInv'
    <2> SUFFICES ASSUME IInv, TypeOK', CompletionInv, [Next]_vars
                 PROVE  LatenessInv' /\ DueInv' /\ VerdictInv'
      BY DEF CompletionInv
    <2> QED BY RequestsAreYoung, DueStaysDue, VerdictsLast DEF CompletionInv
  <1> QED BY <1>1, <1>2, AccountingHolds, RollupTypeCorrect, PTL DEF Spec

\* An invocation reports "completed" only if all that was ripe when it started
\* is in visitor_daily and the digests that had expired are gone, whatever
\* other invocations and requests did meanwhile.
THEOREM CompletedIsThorough == Spec => []CompletedRunsAreThorough
  <1>1. IInv /\ CompletionInv => CompletedRunsAreThorough
    <2> SUFFICES ASSUME IInv, CompletionInv, NEW r \in Runners,
                        job[r].pc = "idle", job[r].status = "completed"
                 PROVE  /\ \A h \in due[r] \ straggled : ~Live(h) /\ daily[h] = 1
                        /\ \A e \in events :
                              e.site \in job[r].sel.sites /\ e.key # NoKey =>
                                  e.at >= job[r].now - Retention
      BY DEF CompletedRunsAreThorough
    <2>1. /\ \A h \in due[r] : ~Live(h) /\ h \in folded
          /\ Expired(job[r]) = {}
      BY DEF CompletionInv, VerdictInv, DueInv
    <2>2. \A h \in due[r] \ straggled : daily[h] = 1
      BY <2>1 DEF IInv, NothingIsLost
    <2>3. /\ Retention \in Nat
          /\ job[r].now \in Nat /\ \A e \in events : e.at \in Nat
      BY VisitorRollupAssumption, VisitorIngestAssumption
         DEF IInv, TypeOK, IngestTypeOK, Event, Times, Job
    <2> QED BY <2>1, <2>2, <2>3 DEF Expired
  <1> QED BY AccountingHolds, CompletionHolds, <1>1, PTL
=============================================================================
