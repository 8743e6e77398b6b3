------------------------------ MODULE Delivery ------------------------------
(***************************************************************************)
(* Delivery of the staged audience of a run to a CRM target.               *)
(*                                                                         *)
(* Every call of execute_delivery_for_run (delivery_runner.py) is one      *)
(* execution.  It draws a fresh uuid4 as its delivery_job_id, so an        *)
(* execution is identified with its job, and a retry is a new execution    *)
(* with the same request.  Executions come from three orchestrators that   *)
(* share no lock: the API's worker threads, Airflow tasks and the CLI.     *)
(*                                                                         *)
(* Each call of delivery_store is one Postgres transaction of its own, and *)
(* one action here.  The two transactions that insert one row per customer *)
(* (the delivery records of the CSV path; the outbox and record rows of    *)
(* the atomic path) take a step per row, since a row another open          *)
(* transaction has inserted makes ON CONFLICT DO NOTHING wait for it.      *)
(***************************************************************************)
EXTENDS Integers, FiniteSets, Sequences

CONSTANTS
  Runs,        \* audience runs (run_id)
  StagingRuns, \* the runs whose export target writes audience_export_staging
  Customers,   \* customers, as integers in the order (rank, customer_id)
  Jobs,        \* executions, and so delivery_job_ids
  NoJob,       \* owner of a key that no row has
  MaxFaults    \* bound: calls that raise or processes that die

ASSUME CustomersAssumption == Customers \subseteq Int /\ IsFiniteSet(Customers)
ASSUME RunsAssumption == StagingRuns \subseteq Runs /\ StagingRuns # {}
ASSUME JobsAssumption == NoJob \notin Jobs
ASSUME FaultsAssumption == MaxFaults \in Nat

Csv     == "crm_csv_file"
Outbox  == "crm_postgres_outbox"
Planned == "crm_api_future"

Selectable == {Csv, Outbox}      \* implementation_status "implemented"
Targets    == Selectable \cup {Planned}
Requests   == [run : Runs, target : Targets]

VARIABLES
  stage,      \* run -> how far the run that feeds the delivery has got
  staging,    \* run -> customers in audience_export_staging
  pc,         \* job -> the next call of the execution
  req,        \* job -> the requested run and target, once it is accepted
  rows,       \* job -> staged_rows, the staging snapshot it read
  todo,       \* job -> rows its open transaction has still to insert
  ins,        \* job -> customers its insert loop inserted (rowcount > 0)
  recs,       \* job -> record rows of its open outbox transaction
  job,        \* audience_delivery_job, by delivery_job_id
  attempts,   \* audience_delivery_attempt: job -> sequence of attempt_status
  record,     \* audience_delivery_record: UNIQUE (run, target, customer) -> job
  outbox,     \* audience_crm_postgres_outbox: UNIQUE (run, customer) -> job
  artifact,   \* job -> customers in its CSV file
  faults      \* faults so far

vars == << stage, staging, pc, req, rows, todo, ins, recs, job, attempts,
           record, outbox, artifact, faults >>
local  == << req, rows, todo, ins, recs >>
stored == << job, attempts, record, outbox, artifact >>
source == << stage, staging >>

-----------------------------------------------------------------------------
(* Types *)

Statuses == {"pending", "materialized", "delivered", "failed",
             "skipped_conflict", "skipped_no_source_rows"}
Final == {"delivered", "failed", "skipped_conflict", "skipped_no_source_rows"}

JobRow == [status : Statuses \cup {"absent"}, source : Nat, materialized : Nat,
           delivered : Nat, skipped : Nat]
NoRow == [status |-> "absent", source |-> 0, materialized |-> 0,
          delivered |-> 0, skipped |-> 0]

CsvTry == {"materializing", "marking", "mark_logging", "csv_inserting",
           "completing", "final_logging"}
OutboxTxn == {"outbox_inserting", "recording", "committing"}
Calls == {"fetching", "creating", "logging", "skipping", "skip_logging",
          "failing", "fail_logging", "outbox_failing"} \cup CsvTry \cup OutboxTxn
Ended == {"done", "raised", "crashed"}
Inserting == {"csv_inserting"} \cup OutboxTxn

TypeOK ==
  /\ stage \in [Runs -> {"absent", "audited", "exported"}]
  /\ staging \in [Runs -> SUBSET Customers]
  /\ pc \in [Jobs -> {"idle"} \cup Calls \cup Ended]
  /\ req \in [Jobs -> [run : StagingRuns, target : Selectable]]
  /\ rows \in [Jobs -> SUBSET Customers]
  /\ todo \in [Jobs -> SUBSET Customers]
  /\ ins \in [Jobs -> SUBSET Customers]
  /\ recs \in [Jobs -> SUBSET Customers]
  /\ job \in [Jobs -> JobRow]
  /\ attempts \in [Jobs -> Seq(Statuses)]
  /\ record \in [Runs -> [Selectable -> [Customers -> Jobs \cup {NoJob}]]]
  /\ outbox \in [Runs -> [Customers -> Jobs \cup {NoJob}]]
  /\ artifact \in [Jobs -> SUBSET Customers]
  /\ faults \in 0..MaxFaults

\* What req holds before an execution is accepted; nothing reads it.
AnyAccepted == [run |-> CHOOSE r \in StagingRuns : TRUE, target |-> Csv]

Init ==
  /\ stage = [r \in Runs |-> "absent"]
  /\ staging = [r \in Runs |-> {}]
  /\ pc = [j \in Jobs |-> "idle"]
  /\ req = [j \in Jobs |-> AnyAccepted]
  /\ rows = [j \in Jobs |-> {}]
  /\ todo = [j \in Jobs |-> {}]
  /\ ins = [j \in Jobs |-> {}]
  /\ recs = [j \in Jobs |-> {}]
  /\ job = [j \in Jobs |-> NoRow]
  /\ attempts = [j \in Jobs |-> << >>]
  /\ record = [r \in Runs |-> [t \in Selectable |-> [c \in Customers |-> NoJob]]]
  /\ outbox = [r \in Runs |-> [c \in Customers |-> NoJob]]
  /\ artifact = [j \in Jobs |-> {}]
  /\ faults = 0

-----------------------------------------------------------------------------
(* The run that feeds the delivery: the audit transaction commits the      *)
(* audience_run row, a later transaction the staging rows.                 *)

Audit(r) ==
  /\ stage[r] = "absent"
  /\ stage' = [stage EXCEPT ![r] = "audited"]
  /\ UNCHANGED << staging, pc, faults, local, stored >>

Export(r) ==
  /\ r \in StagingRuns
  /\ stage[r] = "audited"
  /\ stage' = [stage EXCEPT ![r] = "exported"]
  /\ \E approved \in SUBSET Customers :
       staging' = [staging EXCEPT ![r] = approved]
  /\ UNCHANGED << pc, faults, local, stored >>

-----------------------------------------------------------------------------
(* How a call ends.  It returns; or it raises after its transaction was    *)
(* committed (the acknowledgement was lost); or it raises without effect.  *)
(* A raised exception goes to the handler of the block the call is in.     *)

Goto(j, next) == pc' = [pc EXCEPT ![j] = next]

Handler(p) ==
  CASE p \in CsvTry    -> "failing"
    [] p \in OutboxTxn -> "outbox_failing"
    [] OTHER           -> "raised"

Raise(j) ==
  /\ faults < MaxFaults
  /\ faults' = faults + 1
  /\ Goto(j, Handler(pc[j]))

Returns(j, next) == (Goto(j, next) /\ UNCHANGED faults) \/ Raise(j)

Run(j) == req[j].run
Target(j) == req[j].target

\* The table whose unique key the insert loop of job j runs into.
KeyTable(j) == IF Target(j) = Outbox THEN outbox[Run(j)] ELSE record[Run(j)][Csv]

Own(table, S, j) == [c \in Customers |-> IF c \in S THEN j ELSE table[c]]

\* Another execution of the same request holds an uncommitted row of c.
Holds(k, j, c) ==
  /\ k # j
  /\ req[k] = req[j]
  /\ pc[k] \in Inserting
  /\ c \in ins[k]

\* Mutant: the insert does not wait for the transactions that are still open.
BlockedNever(j, c) == FALSE

Blocked(j, c) == \E k \in Jobs : Holds(k, j, c)

\* Mutant: the insert loop does not visit the rows in sorted order.
NextRowsUnsorted(S) == S

\* sort_staged_rows: rows are visited by rank, then customer_id.
NextRows(S) == {c \in S : \A d \in S : c <= d}

WaitsFor(j, k) ==
  /\ pc[j] \in {"csv_inserting", "outbox_inserting"}
  /\ \E c \in NextRows(todo[j]) : Holds(k, j, c)

-----------------------------------------------------------------------------
(* Before a job row exists.  A refused request raises and leaves nothing:  *)
(* a planned target, no audience_run row, an export target that writes no  *)
(* staging.                                                                *)

Accepts(r, t) == t \in Selectable /\ stage[r] # "absent" /\ r \in StagingRuns

Begin(j) ==
  /\ pc[j] = "idle"
  /\ \E r \in Runs, t \in Targets :
       IF Accepts(r, t)
       THEN req' = [req EXCEPT ![j] = [run |-> r, target |-> t]] /\ Goto(j, "fetching")
       ELSE UNCHANGED req /\ Goto(j, "raised")
  /\ UNCHANGED << faults, rows, todo, ins, recs, source, stored >>

FetchStagedRows(j) ==
  /\ pc[j] = "fetching"
  /\ rows' = [rows EXCEPT ![j] = staging[Run(j)]]
  /\ todo' = [todo EXCEPT ![j] = staging[Run(j)]]
  /\ Goto(j, IF Target(j) = Csv THEN "creating"
             ELSE IF staging[Run(j)] = {} THEN "committing" ELSE "outbox_inserting")
  /\ UNCHANGED << faults, req, ins, recs, source, stored >>

-----------------------------------------------------------------------------
(* The calls of delivery_store that touch one job row or one attempt row.  *)

SetJob(j, row) == job' = [job EXCEPT ![j] = row]
Log(j, status) == attempts' = [attempts EXCEPT ![j] = Append(@, status)]

LogAndReturn(j, status, next) ==
  /\ Log(j, status)
  /\ Returns(j, next)
  /\ UNCHANGED << job, record, outbox, artifact, local, source >>

CompleteDeliveryJob(j, status, delivered, skipped) ==
  /\ SetJob(j, [job[j] EXCEPT !.status = status, !.delivered = delivered,
                              !.skipped = skipped])
  /\ UNCHANGED << attempts, record, outbox, artifact, local, source >>

\* Mutant: the subtraction is the wrong way round.
RowsSkippedSwapped(j) == Cardinality(ins[j]) - Cardinality(rows[j])

RowsSkipped(j) == Cardinality(rows[j]) - Cardinality(ins[j])

FinalStatus(j) ==
  CASE rows[j] = {}                 -> "skipped_no_source_rows"
    [] rows[j] # {} /\ ins[j] = {}  -> "skipped_conflict"
    [] rows[j] # {} /\ ins[j] # {}  -> "delivered"

-----------------------------------------------------------------------------
(* The CSV path of execute_delivery_for_run.                               *)

CreateDeliveryJob(j) ==
  /\ pc[j] = "creating"
  /\ SetJob(j, [NoRow EXCEPT !.status = "pending"])
  /\ Returns(j, "logging")
  /\ UNCHANGED << attempts, record, outbox, artifact, local, source >>

LogPending(j) ==
  /\ pc[j] = "logging"
  /\ LogAndReturn(j, "pending", IF rows[j] = {} THEN "skipping" ELSE "materializing")

SkipNoSourceRows(j) ==
  /\ pc[j] = "skipping"
  /\ CompleteDeliveryJob(j, "skipped_no_source_rows", 0, 0)
  /\ Returns(j, "skip_logging")

LogSkipped(j) ==
  /\ pc[j] = "skip_logging"
  /\ LogAndReturn(j, "skipped_no_source_rows", "done")

\* Mutant: the CSV path is scoped by run and not by delivery_job_id.
WritersOfRunPath(j) == {k \in Jobs : req[k] = req[j]}

\* The executions whose CSV file is the one that j writes.
WritersOfPath(j) == {j}

WriteFile(j, customers) ==
  artifact' = [k \in Jobs |-> IF k \in WritersOfPath(j) THEN customers ELSE artifact[k]]

\* The file is written row by row; an error leaves the rows written so far.
MaterializeCsv(j) ==
  /\ pc[j] = "materializing"
  /\ \/ WriteFile(j, rows[j]) /\ Returns(j, "marking")
     \/ \E last \in rows[j] :
          WriteFile(j, {c \in rows[j] : c < last}) /\ Raise(j)
  /\ UNCHANGED << job, attempts, record, outbox, local, source >>

MarkMaterialized(j) ==
  /\ pc[j] = "marking"
  /\ SetJob(j, [job[j] EXCEPT !.status = "materialized",
                              !.source = Cardinality(rows[j]),
                              !.materialized = Cardinality(rows[j])])
  /\ Returns(j, "mark_logging")
  /\ UNCHANGED << attempts, record, outbox, artifact, local, source >>

LogMaterialized(j) ==
  /\ pc[j] = "mark_logging"
  /\ LogAndReturn(j, "materialized", "csv_inserting")

\* Mutant: a row another transaction holds counts as a conflict at once.
InsertRowNoWait(j) ==
  /\ pc[j] \in {"csv_inserting", "outbox_inserting"}
  /\ \E c \in NextRows(todo[j]) :
       /\ todo' = [todo EXCEPT ![j] = @ \ {c}]
       /\ ins' = [ins EXCEPT ![j] = IF KeyTable(j)[c] = NoJob /\ ~Blocked(j, c)
                                    THEN @ \cup {c} ELSE @]
  /\ UNCHANGED << faults, pc, req, rows, recs, source, stored >>

\* INSERT ... ON CONFLICT DO NOTHING of one row of either path: it waits for
\* a transaction that holds the key, then inserts or, if a row is committed,
\* skips.
InsertRow(j) ==
  /\ pc[j] \in {"csv_inserting", "outbox_inserting"}
  /\ \E c \in NextRows(todo[j]) :
       /\ ~Blocked(j, c)
       /\ todo' = [todo EXCEPT ![j] = @ \ {c}]
       /\ ins' = [ins EXCEPT ![j] = IF KeyTable(j)[c] = NoJob THEN @ \cup {c} ELSE @]
  /\ UNCHANGED << faults, pc, req, rows, recs, source, stored >>

CommitRecords(j) ==
  /\ pc[j] = "csv_inserting"
  /\ todo[j] = {}
  /\ record' = [record EXCEPT ![Run(j)][Csv] = Own(@, ins[j], j)]
  /\ Returns(j, "completing")
  /\ UNCHANGED << job, attempts, outbox, artifact, local, source >>

CompleteJob(j) ==
  /\ pc[j] = "completing"
  /\ CompleteDeliveryJob(j, FinalStatus(j), Cardinality(ins[j]), RowsSkipped(j))
  /\ Returns(j, "final_logging")

LogFinal(j) ==
  /\ pc[j] = "final_logging"
  /\ LogAndReturn(j, FinalStatus(j), "done")

\* The except block: neither call is guarded, a second exception leaves it.
FailJob(j) ==
  /\ pc[j] = "failing"
  /\ CompleteDeliveryJob(j, "failed", 0, 0)
  /\ Returns(j, "fail_logging")

LogFailed(j) ==
  /\ pc[j] = "fail_logging"
  /\ LogAndReturn(j, "failed", "raised")

-----------------------------------------------------------------------------
(* execute_crm_postgres_outbox_delivery_atomic: one transaction.           *)

\* Mutant: the outbox rows are committed before the record rows are inserted.
OutboxRowsInsertedCommitted(j) ==
  /\ pc[j] = "outbox_inserting"
  /\ todo[j] = {}
  /\ outbox' = [outbox EXCEPT ![Run(j)] = Own(@, ins[j], j)]
  /\ Goto(j, "recording")
  /\ UNCHANGED << faults, job, attempts, record, artifact, local, source >>

OutboxRowsInserted(j) ==
  /\ pc[j] = "outbox_inserting"
  /\ todo[j] = {}
  /\ Goto(j, "recording")
  /\ UNCHANGED << faults, local, source, stored >>

Rollback(j) ==
  /\ todo' = [todo EXCEPT ![j] = {}]
  /\ ins' = [ins EXCEPT ![j] = {}]
  /\ recs' = [recs EXCEPT ![j] = {}]

\* One record row per customer whose outbox row was inserted; the code
\* raises when the two counts differ.
InsertRecords(j) ==
  /\ pc[j] = "recording"
  /\ LET fresh == {c \in ins[j] : record[Run(j)][Outbox][c] = NoJob} IN
     IF Cardinality(fresh) = Cardinality(ins[j])
     THEN recs' = [recs EXCEPT ![j] = fresh] /\ Goto(j, "committing") /\ UNCHANGED << todo, ins >>
     ELSE Rollback(j) /\ Goto(j, "outbox_failing")
  /\ UNCHANGED << faults, req, rows, source, stored >>

OutboxTrail(j) ==
  IF rows[j] = {} THEN << "pending", "skipped_no_source_rows" >>
                  ELSE << "pending", "materialized", FinalStatus(j) >>

CommitOutbox(j) ==
  /\ pc[j] = "committing"
  /\ SetJob(j, [status |-> FinalStatus(j),
                source |-> Cardinality(rows[j]), materialized |-> Cardinality(rows[j]),
                delivered |-> Cardinality(recs[j]), skipped |-> RowsSkipped(j)])
  /\ attempts' = [attempts EXCEPT ![j] = OutboxTrail(j)]
  /\ outbox' = [outbox EXCEPT ![Run(j)] = Own(@, ins[j], j)]
  /\ record' = [record EXCEPT ![Run(j)][Outbox] = Own(@, recs[j], j)]
  /\ Returns(j, "done")
  /\ UNCHANGED << artifact, local, source >>

\* Mutant: ON CONFLICT (delivery_job_id) DO NOTHING.
RecordOutboxFailureDoNothing(j) ==
  /\ pc[j] = "outbox_failing"
  /\ SetJob(j, IF job[j] = NoRow
               THEN [NoRow EXCEPT !.status = "failed", !.source = Cardinality(rows[j])]
               ELSE job[j])
  /\ Log(j, "failed")
  /\ Returns(j, "raised")
  /\ UNCHANGED << record, outbox, artifact, local, source >>

\* A new transaction inserts the job as failed or, when the commit whose
\* acknowledgement was lost has stored it, overwrites its status alone.  An
\* exception here is swallowed, then the first one is raised again.
RecordOutboxFailure(j) ==
  /\ pc[j] = "outbox_failing"
  /\ SetJob(j, IF job[j] = NoRow
               THEN [NoRow EXCEPT !.status = "failed", !.source = Cardinality(rows[j])]
               ELSE [job[j] EXCEPT !.status = "failed"])
  /\ Log(j, "failed")
  /\ Returns(j, "raised")
  /\ UNCHANGED << record, outbox, artifact, local, source >>

-----------------------------------------------------------------------------
(* Faults.                                                                 *)

\* A call raises without effect; an open transaction is rolled back.
CallRaises(j) ==
  /\ pc[j] \in Calls
  /\ Raise(j)
  /\ Rollback(j)
  /\ UNCHANGED << req, rows, source, stored >>

\* The process of the execution dies: the database rolls its transaction back.
Crash(j) ==
  /\ pc[j] \in Calls
  /\ faults < MaxFaults
  /\ faults' = faults + 1
  /\ Goto(j, "crashed")
  /\ Rollback(j)
  /\ UNCHANGED << req, rows, source, stored >>

-----------------------------------------------------------------------------
(* Specification                                                           *)

CsvStep(j) ==
  \/ CreateDeliveryJob(j) \/ LogPending(j) \/ SkipNoSourceRows(j) \/ LogSkipped(j)
  \/ MaterializeCsv(j) \/ MarkMaterialized(j) \/ LogMaterialized(j)
  \/ CommitRecords(j) \/ CompleteJob(j) \/ LogFinal(j)
  \/ FailJob(j) \/ LogFailed(j)

OutboxStep(j) ==
  \/ OutboxRowsInserted(j) \/ InsertRecords(j) \/ CommitOutbox(j)
  \/ RecordOutboxFailure(j)

Step(j) == FetchStagedRows(j) \/ InsertRow(j) \/ CsvStep(j) \/ OutboxStep(j)

Next ==
  \/ \E r \in Runs : Audit(r) \/ Export(r)
  \/ \E j \in Jobs : Begin(j) \/ Step(j) \/ CallRaises(j) \/ Crash(j)

Spec == Init /\ [][Next]_vars

\* A thread or task that has begun runs on; nothing makes a request begin.
FairSpec == Spec /\ \A j \in Jobs : WF_vars(Step(j))

-----------------------------------------------------------------------------
(* Safety                                                                  *)

Delivers(j) == job[j].status \in {"delivered", "skipped_conflict"}

DeliveredBy(j) == {c \in Customers : record[Run(j)][Target(j)][c] = j}

\* When a job ends delivered or skipped_conflict, every customer staged for its
\* run has a delivery record for its target, written by it or by another job:
\* a conflict is only ever a row that is committed, and the staging snapshot
\* the job read was all of the run's export (delivery_runner.py, lines 145-161).
FinishedJobLeavesNobodyOut ==
  \A j \in Jobs : Delivers(j) =>
    \A c \in staging[Run(j)] : record[Run(j)][Target(j)][c] # NoJob

\* The counts of a finished job row are those of the delivery records it owns,
\* and every source row is either delivered by it or skipped as a conflict.
CountsMatchRecords ==
  \A j \in Jobs : Delivers(j) =>
    /\ job[j].delivered = Cardinality(DeliveredBy(j))
    /\ job[j].delivered + job[j].skipped = job[j].source
    /\ (job[j].status = "delivered") <=> (job[j].delivered > 0)

\* Outbox and delivery-record rows correspond one to one and name the same job
\* (AUDIT.md: no outbox/record divergence on partial failure).
OutboxMatchesRecords ==
  \A r \in Runs : outbox[r] = record[r][Outbox]

\* Every customer a CSV job claims to have delivered is in that job's file.
ArtifactCoversRecords ==
  \A j \in Jobs : Target(j) = Csv => DeliveredBy(j) \subseteq artifact[j]

LastAttempt(j) == attempts[j][Len(attempts[j])]

\* The attempt trail of an atomic job, and of a CSV execution that returned,
\* ends in the status of the job row.
TrailEndsInStatus ==
  \A j \in Jobs :
    job[j] # NoRow /\ (Target(j) = Outbox \/ pc[j] = "done") =>
      attempts[j] # << >> /\ LastAttempt(j) = job[j].status

\* Insert loops never wait for one another in a circle, since they visit the
\* customers in one order.
NoWaitCycle ==
  \A S \in SUBSET Jobs :
    S # {} => \E j \in S : \A k \in S : ~WaitsFor(j, k)

-----------------------------------------------------------------------------
(* What a step may never do                                                *)

\* A delivery record is never taken over by another job or withdrawn.
RecordsAreKept ==
  [][\A r \in Runs, t \in Selectable, c \in Customers :
       record[r][t][c] # NoJob => record'[r][t][c] = record[r][t][c]]_vars

-----------------------------------------------------------------------------
(* The ledger of delivered customers that the above implements             *)

Verdict(j) ==
  CASE Delivers(j)                              -> "complete"
    [] job[j].status = "skipped_no_source_rows" -> "empty"
    [] job[j].status = "failed"                 -> "failed"
    [] OTHER                                    -> "open"

Ledger == INSTANCE DeliveryLedger WITH
            Targets <- Selectable, audience <- staging, owner <- record,
            verdict <- [j \in Jobs |-> Verdict(j)]

\* Executions with their faults, rivals and retries keep one ledger: each
\* commit takes exactly the customers nobody had delivered, and a job row says
\* delivered or skipped_conflict only when the whole audience is delivered.
KeepsLedger == Ledger!Spec

-----------------------------------------------------------------------------
(* Liveness                                                                *)

\* A delivery that began ends, whatever its rivals and whatever faults occur.
EveryExecutionEnds ==
  \A j \in Jobs : (pc[j] = "fetching") ~> (pc[j] \in Ended)

=============================================================================
