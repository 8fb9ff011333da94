----------------------------- MODULE ImportJobs -----------------------------
(* Umami imports (apps/core/services.py): jobs started from the settings page,  *)
(* which run in a thread of a web worker and report to a row that is polled,    *)
(* and the commands an operator runs.  Several may run at once; nothing stops   *)
(* a second import of the same site.  One action per statement; what an open    *)
(* transaction has inserted is in "wrote" until it commits.                     *)
EXTENDS Naturals, FiniteSets, Sequences

CONSTANTS
    Jobs,         \* imports
    Sites,        \* target websites here
    Foreign,      \* the website in Umami
    SourceRows,   \* rows Umami may have: [table, id, at, role]
    LiveIds,      \* ids of events that the tracker stores here
    FlushEvery,   \* rows between two progress writes
    MaxTime       \* bound of the clock

VARIABLES
    source,       \* rows Umami has so far (external; it keeps collecting)
    rows,         \* committed rows here: [table, id, at, site, role]
    jobs,         \* each import: its job row, its thread and its open transaction
    time          \* now

importVars == <<source, rows, jobs, time>>

NoJob == [phase |-> "none"]
NoRole == "-"
Tables(full) == IF full THEN <<"users", "websites", "events">> ELSE <<"events">>

TableOf(j) == Head(jobs[j].tables)
Running(j) == jobs[j].phase \notin {"none", "ended", "failed", "killed"}

\* _where_clause: both filters apply to events only
Matches(j, r) == r.table = "events" => r.at >= jobs[j].since
Selected(j, table) == {r \in source : r.table = table /\ Matches(j, r)}

\* only an explicit admin becomes one
ImportedRole(r) == IF r.table # "users" THEN NoRole ELSE IF r.role = "admin" THEN "admin" ELSE "user"

\* a row as it is stored: remapped to the target, roles in this vocabulary
Imported(job, r) ==
    [table |-> r.table, id |-> r.id, at |-> r.at, role |-> ImportedRole(r),
     site |-> IF r.table = "events" THEN job.target ELSE Foreign]

\* a row with its primary key, whichever website it belongs to
Taken(r, set) == \E s \in set : s.table = r.table /\ s.id = r.id

-----------------------------------------------------------------------------
(* Starting.  "Foreign" as a target keeps each row's website.  "skipped" and    *)
(* "lost" are history: the rows another website's rows kept out, and those      *)
(* --replace deleted.                                                           *)

NewJob(phase, status, target, since, replace, full) ==
    [phase |-> phase, status |-> status, target |-> target, since |-> since,
     replace |-> replace, tables |-> Tables(full), total |-> 0, reported |-> 0,
     flushed |-> 0, done |-> 0, pending |-> 0, left |-> {}, wrote |-> {},
     range |-> {}, took |-> {}, skipped |-> {}, lost |-> {}, intact |-> TRUE]

\* UmamiImportForm, start_umami_import_job: one site onto one site, events only
StartJob(j) ==
    \E target \in Sites, since \in {0, 2}, replace \in BOOLEAN :
        /\ jobs[j] = NoJob
        /\ jobs' = [jobs EXCEPT ![j] = NewJob("begin", "pending", target, since, replace, FALSE)]
        /\ UNCHANGED <<source, rows, time>>

\* importumamidata: --replace needs a target
StartDataCommand(j) ==
    \E target \in Sites \cup {Foreign}, since \in {0, 2}, replace \in BOOLEAN :
        /\ jobs[j] = NoJob
        /\ replace => target # Foreign
        /\ jobs' = [jobs EXCEPT ![j] = NewJob("connect", "command", target, since, replace, FALSE)]
        /\ UNCHANGED <<source, rows, time>>

\* importumami --include-config: every table in _TABLES_ORDER, nothing is replaced
StartFullCommand(j) ==
    \E since \in {0, 2}, skipEvents \in BOOLEAN :
        /\ jobs[j] = NoJob
        /\ jobs' = [jobs EXCEPT ![j] =
              [NewJob("connect", "command", Foreign, since, FALSE, TRUE) EXCEPT
                 !.tables = SelectSeq(Tables(TRUE), LAMBDA t : ~(skipEvents /\ t = "events"))]]
        /\ UNCHANGED <<source, rows, time>>

Tracked(j) == jobs[j].status # "command"

\* run_umami_import_job: the row says running before the connection is tried
MarkRunning(j) ==
    /\ jobs[j].phase = "begin"
    /\ jobs' = [jobs EXCEPT ![j].phase = "connect", ![j].status = "running"]
    /\ UNCHANGED <<source, rows, time>>

Connect(j) ==
    /\ jobs[j].phase = "connect"
    /\ jobs' = [jobs EXCEPT ![j].phase = IF jobs[j].replace THEN "range" ELSE "table"]
    /\ UNCHANGED <<source, rows, time>>

-----------------------------------------------------------------------------
(* --replace: the range of the source's events is read, then what it covers is *)
(* deleted at the target, in a statement that commits by itself.               *)

ReadRange(j) ==
    /\ jobs[j].phase = "range"
    /\ LET at == {r.at : r \in Selected(j, "events")}
       IN jobs' = [jobs EXCEPT
              ![j].range = {t \in 0..MaxTime : \E lo, hi \in at : lo <= t /\ t <= hi},
              ![j].phase = IF at = {} THEN "table" ELSE "delete"]
    /\ UNCHANGED <<source, rows, time>>

Covered(j) ==
    {r \in rows : r.table = "events" /\ r.site = jobs[j].target /\ r.at \in jobs[j].range}

DeleteCovered(j) ==
    /\ jobs[j].phase = "delete"
    /\ rows' = rows \ Covered(j)
    /\ jobs' = [k \in Jobs |->
          IF k = j THEN [jobs[k] EXCEPT !.phase = "table", !.lost = Covered(j)]
          ELSE IF (Running(k) \/ jobs[k].phase = "ended") /\ jobs[k].target = jobs[j].target
               THEN [jobs[k] EXCEPT !.intact = FALSE]
          ELSE jobs[k]]
    /\ UNCHANGED <<source, time>>

-----------------------------------------------------------------------------
(* Copying one table: count, announce, then all batches in one transaction.    *)

\* _copy_table up to add_task: an empty table is skipped
CountTable(j) ==
    /\ jobs[j].phase = "table"
    /\ jobs[j].tables # <<>>
    /\ LET n == Cardinality(Selected(j, TableOf(j)))
       IN jobs' = IF n = 0 THEN [jobs EXCEPT ![j].tables = Tail(@)]
                  ELSE [jobs EXCEPT ![j].total = @ + n, ![j].phase = "open"]
    /\ UNCHANGED <<source, rows, time>>

\* the transaction begins and the source is read: it may have grown
OpenTable(j) ==
    /\ jobs[j].phase = "open"
    /\ jobs' = [jobs EXCEPT
          ![j].left = Selected(j, TableOf(j)), ![j].wrote = {},
          ![j].took = @ \cup Selected(j, TableOf(j)), ![j].phase = "copy"]
    /\ UNCHANGED <<source, rows, time>>

\* a row that another open transaction has inserted must be waited for
Waits(j, r) == \E k \in Jobs \ {j} : Running(k) /\ Taken(r, jobs[k].wrote)

\* DBProgress.update and flush: an UPDATE of the job row inside the transaction
Progress(job) ==
    LET due == job.pending + 1 >= FlushEvery
    IN [job EXCEPT !.done = @ + 1, !.pending = IF due THEN 0 ELSE @ + 1,
                   !.flushed = IF due THEN job.done + 1 ELSE @]

Added(job, r) == IF Taken(r, rows) THEN {} ELSE {Imported(job, r)}
KeptOut(job, r) == IF Taken(r, rows) /\ Imported(job, r) \notin rows THEN {r} ELSE {}

\* one INSERT ... ON CONFLICT DO NOTHING: the key alone decides, a row of another
\* website keeps this one out, and the row counts as done
Insert(job, r) ==
    Progress([job EXCEPT !.left = @ \ {r}, !.wrote = @ \cup Added(job, r),
                         !.skipped = @ \cup KeptOut(job, r)])

\* a batch of one row
CopyRow(j) ==
    /\ jobs[j].phase = "copy"
    /\ \E r \in jobs[j].left :
          /\ ~Waits(j, r)
          /\ jobs' = [jobs EXCEPT ![j] = Insert(@, r)]
    /\ UNCHANGED <<source, rows, time>>

\* the commit shows the rows and the progress written inside
CommitTable(j) ==
    /\ jobs[j].phase = "copy" /\ jobs[j].left = {}
    /\ rows' = rows \cup jobs[j].wrote
    /\ jobs' = [jobs EXCEPT
          ![j].wrote = {}, ![j].reported = IF Tracked(j) THEN jobs[j].flushed ELSE 0,
          ![j].tables = Tail(@), ![j].phase = "table"]
    /\ UNCHANGED <<source, time>>

\* the last flush, then success with imported_rows = total_rows
FlushLast(j) ==
    /\ jobs[j].phase = "table" /\ jobs[j].tables = <<>>
    /\ jobs' = [jobs EXCEPT
          ![j].reported = IF Tracked(j) THEN jobs[j].done ELSE 0, ![j].phase = "succeed"]
    /\ UNCHANGED <<source, rows, time>>

Succeed(j) ==
    /\ jobs[j].phase = "succeed"
    /\ jobs' = [jobs EXCEPT
          ![j].status = IF Tracked(j) THEN "success" ELSE @,
          ![j].reported = IF Tracked(j) THEN jobs[j].total ELSE 0, ![j].phase = "ended"]
    /\ UNCHANGED <<source, rows, time>>

\* a failing table is skipped and the import goes on
FailTableOnly(j) ==
    /\ jobs[j].phase = "copy"
    /\ jobs' = [jobs EXCEPT
          ![j].wrote = {}, ![j].left = {}, ![j].tables = Tail(@), ![j].phase = "table"]
    /\ UNCHANGED <<source, rows, time>>

\* what is left of an import that did not finish: its job row
Stop(j, phase, status) ==
    [phase |-> phase, status |-> IF Tracked(j) THEN status ELSE "command",
     reported |-> jobs[j].reported]

\* any statement may raise: an open transaction is rolled back, the row says error
Fail(j) ==
    /\ Running(j)
    /\ jobs' = [jobs EXCEPT ![j] = Stop(j, "failed", "error")]
    /\ UNCHANGED <<source, rows, time>>

\* a worker restarts: its thread dies without a word and the job row stays as it is
KillWorker(j) ==
    /\ Running(j)
    /\ jobs' = [jobs EXCEPT ![j] = Stop(j, "killed", @.status)]
    /\ UNCHANGED <<source, rows, time>>

-----------------------------------------------------------------------------
(* Around: the tracker stores events, Umami collects, time passes.             *)

StoreLive ==
    /\ \E i \in LiveIds, s \in Sites :
          /\ ~\E r \in rows : r.id = i
          /\ rows' = rows \cup {[table |-> "events", id |-> i, at |-> time, role |-> NoRole, site |-> s]}
    /\ UNCHANGED <<source, jobs, time>>

SourceGrows ==
    /\ \E r \in SourceRows \ source :
          r.at = time /\ source' = source \cup {r}
    /\ UNCHANGED <<rows, jobs, time>>

TimePasses ==
    /\ time < MaxTime
    /\ time' = time + 1
    /\ UNCHANGED <<source, rows, jobs>>

InitImports ==
    /\ source = {r \in SourceRows : r.at <= 1}
    /\ rows = {}
    /\ jobs = [j \in Jobs |-> NoJob]
    /\ time = 1

NextImports ==
    \/ \E j \in Jobs :
          \/ StartJob(j) \/ StartDataCommand(j) \/ StartFullCommand(j)
          \/ MarkRunning(j) \/ Connect(j) \/ ReadRange(j) \/ DeleteCovered(j)
          \/ CountTable(j) \/ OpenTable(j) \/ CopyRow(j) \/ CommitTable(j)
          \/ FlushLast(j) \/ Succeed(j) \/ Fail(j) \/ KillWorker(j)
    \/ StoreLive \/ SourceGrows \/ TimePasses

ImportsSpec == InitImports /\ [][NextImports]_importVars

-----------------------------------------------------------------------------
(* A job that says success has put every row it read here, for its website,     *)
(* unless a row of another website had its key when it was copied, or a later   *)
(* --replace onto the same website deleted rows since.  Beside those, what      *)
(* --replace removed without anything in its place is always the work of a job  *)
(* that says error, or that died.                                               *)
SuccessMeansComplete ==
    \A j \in Jobs :
        jobs[j].phase = "ended" /\ jobs[j].intact =>
            \A r \in jobs[j].took \ jobs[j].skipped : Imported(jobs[j], r) \in rows

(* "... so the imported data overwrites (rather than adds to) the rows it       *)
(* covers" (replace_target_data): where a job that says success has deleted     *)
(* rows of its website, what it read is there.                                  *)
OverwrittenIsImported ==
    \A j \in Jobs :
        jobs[j].phase = "ended" /\ jobs[j].intact /\ jobs[j].lost # {} =>
            \A r \in jobs[j].took : Imported(jobs[j], r) \in rows

-----------------------------------------------------------------------------
(* The inductive invariant behind SuccessMeansComplete.                         *)

Phases == {"begin", "connect", "range", "delete", "table", "open", "copy", "succeed", "ended"}

\* a job that has not been stopped has all the fields of a new one
JobFields ==
    {"phase", "status", "target", "since", "replace", "tables", "total", "reported",
     "flushed", "done", "pending", "left", "wrote", "range", "took", "skipped", "lost",
     "intact"}
Whole(job) == job = [f \in JobFields |-> job[f]]

JobsTyped ==
    /\ jobs = [j \in Jobs |-> jobs[j]]
    /\ \A j \in Jobs :
          \/ jobs[j].phase \in {"none", "failed", "killed"}
          \/ jobs[j].phase \in Phases /\ Whole(jobs[j])

\* what a job has read is here, or kept out, or still on its way in its open
\* transaction; before the first table it has read nothing
CopiesInv ==
    \A j \in Jobs : jobs[j].phase \in Phases =>
        /\ jobs[j].phase \in {"begin", "connect", "range", "delete"} => jobs[j].took = {}
        /\ jobs[j].intact =>
              \A r \in jobs[j].took \ jobs[j].skipped :
                  LET row == Imported(jobs[j], r)
                  IN  \/ row \in rows
                      \/ jobs[j].phase = "copy" /\ (r \in jobs[j].left \/ row \in jobs[j].wrote)
=============================================================================
