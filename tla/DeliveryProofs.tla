--------------------------- MODULE DeliveryProofs ---------------------------
(* Theorems about Delivery for any runs, customers, executions and faults. *)
EXTENDS Delivery, FiniteSetTheorems, WellFoundedInduction, TLAPS

USE DEF Csv, Outbox, Planned

-----------------------------------------------------------------------------
(* Type correctness                                                        *)

LEMMA InitType == Init => TypeOK
  BY RunsAssumption, FaultsAssumption DEF Init, TypeOK, AnyAccepted, Targets, Selectable,
     JobRow, NoRow, Calls, Ended

\* The control points that the handlers and returns lead to.
Points == {"idle"} \cup Calls \cup Ended

LEMMA RaiseType ==
  ASSUME TypeOK, NEW j \in Jobs, Raise(j)
  PROVE  pc' \in [Jobs -> Points] /\ faults' \in 0..MaxFaults
  BY FaultsAssumption
     DEF TypeOK, Raise, Goto, Handler, Points, Calls, Ended, CsvTry, OutboxTxn

LEMMA ReturnsType ==
  ASSUME TypeOK, NEW j \in Jobs, NEW next \in Points, Returns(j, next)
  PROVE  pc' \in [Jobs -> Points] /\ faults' \in 0..MaxFaults
  BY RaiseType DEF TypeOK, Returns, Goto, Points

LEMMA CountType ==
  ASSUME TypeOK, NEW j \in Jobs
  PROVE  /\ Cardinality(rows[j]) \in Nat
         /\ Cardinality(ins[j]) \in Nat
         /\ Cardinality(recs[j]) \in Nat
  <1>1. IsFiniteSet(rows[j]) /\ IsFiniteSet(ins[j]) /\ IsFiniteSet(recs[j])
    BY CustomersAssumption, FS_Subset DEF TypeOK
  <1> QED BY <1>1, FS_CardinalityType

LEMMA OwnType ==
  ASSUME NEW j \in Jobs, NEW S,
         NEW table \in [Customers -> Jobs \cup {NoJob}]
  PROVE  Own(table, S, j) \in [Customers -> Jobs \cup {NoJob}]
  BY DEF Own

LEMMA FinalStatusType == ASSUME NEW j PROVE FinalStatus(j) \in Statuses
  BY DEF FinalStatus, Statuses

LEMMA LogType ==
  ASSUME TypeOK, NEW j \in Jobs, NEW status \in Statuses, NEW next \in Points,
         LogAndReturn(j, status, next)
  PROVE  TypeOK'
  <1>1. pc' \in [Jobs -> Points] /\ faults' \in 0..MaxFaults
    BY ReturnsType DEF LogAndReturn
  <1>2. attempts' \in [Jobs -> Seq(Statuses)]
    BY DEF LogAndReturn, Log, TypeOK
  <1> QED BY <1>1, <1>2 DEF LogAndReturn, TypeOK, Points, local, source

LEMMA CompleteType ==
  ASSUME TypeOK, NEW j \in Jobs, NEW status \in Statuses, NEW next \in Points,
         NEW delivered \in Nat, NEW skipped \in Nat,
         CompleteDeliveryJob(j, status, delivered, skipped), Returns(j, next)
  PROVE  TypeOK'
  <1>1. pc' \in [Jobs -> Points] /\ faults' \in 0..MaxFaults
    BY ReturnsType
  <1>2. job' \in [Jobs -> JobRow]
    BY DEF CompleteDeliveryJob, SetJob, TypeOK, JobRow
  <1> QED BY <1>1, <1>2 DEF CompleteDeliveryJob, TypeOK, Points, local, source

\* The rows an insert loop skipped are counted by subtraction: never below zero.
LEMMA SkippedType ==
  ASSUME TypeOK, NEW j \in Jobs, ins[j] \subseteq rows[j]
  PROVE  RowsSkipped(j) \in Nat
  <1>1. IsFiniteSet(rows[j])
    BY CustomersAssumption, FS_Subset DEF TypeOK
  <1>2. Cardinality(ins[j]) <= Cardinality(rows[j])
    BY <1>1, FS_Subset
  <1> QED BY <1>2, CountType DEF RowsSkipped

-----------------------------------------------------------------------------
(* The snapshot an execution works on                                      *)

\* An execution has read nothing or all of the run's export, and its open
\* transaction only holds rows of that snapshot.
Snapshot ==
  /\ \A r \in Runs : stage[r] # "exported" => staging[r] = {}
  /\ \A j \in Jobs :
       /\ pc[j] \in {"idle", "fetching"} => rows[j] = {}
       /\ rows[j] = {} \/ rows[j] = staging[Run(j)]
       /\ ins[j] \subseteq rows[j]
       /\ todo[j] \subseteq rows[j]
       /\ recs[j] \subseteq ins[j]

LEMMA InitSnapshot == Init => Snapshot
  BY DEF Init, Snapshot

\* A step that leaves the local variables and the sources alone and does not
\* go back to the beginning keeps the snapshot facts.
LEMMA SnapshotKept ==
  ASSUME TypeOK, Snapshot, NEW j \in Jobs, pc[j] # "idle",
         NEW next \in Points \ {"idle", "fetching"},
         Goto(j, next), UNCHANGED << local, source >>
  PROVE  Snapshot'
  BY DEF TypeOK, Snapshot, Goto, local, source, Run

LEMMA HandlerPoint ==
  ASSUME NEW p
  PROVE  Handler(p) \in Points \ {"idle", "fetching"}
  BY DEF Handler, Points, Calls, Ended, CsvTry, OutboxTxn

LEMMA ReturnSnapshot ==
  ASSUME TypeOK, Snapshot, NEW j \in Jobs, pc[j] # "idle",
         NEW next \in Points \ {"idle", "fetching"},
         Returns(j, next), UNCHANGED << local, source >>
  PROVE  Snapshot'
  BY SnapshotKept, HandlerPoint DEF Returns, Raise

LEMMA TypeStep ==
  ASSUME TypeOK, Snapshot, [Next]_vars
  PROVE  TypeOK'
  <1>1. ASSUME NEW r \in Runs, Audit(r) PROVE TypeOK'
    BY <1>1 DEF Audit, TypeOK, local, stored
  <1>2. ASSUME NEW r \in Runs, Export(r) PROVE TypeOK'
    BY <1>2 DEF Export, TypeOK, local, stored
  <1>3. ASSUME NEW j \in Jobs, Begin(j) PROVE TypeOK'
    <2>1. req' \in [Jobs -> [run : StagingRuns, target : Selectable]]
      <3>1. PICK r \in Runs, t \in Targets :
              IF Accepts(r, t)
              THEN req' = [req EXCEPT ![j] = [run |-> r, target |-> t]]
              ELSE UNCHANGED req
        BY <1>3 DEF Begin
      <3>2. CASE Accepts(r, t)
        <4>1. [run |-> r, target |-> t] \in [run : StagingRuns, target : Selectable]
          BY <3>2 DEF Accepts
        <4> QED BY <3>1, <3>2, <4>1 DEF TypeOK
      <3> QED BY <3>1, <3>2 DEF TypeOK
    <2>2. pc' \in [Jobs -> Points]
      BY <1>3 DEF Begin, Goto, TypeOK, Points, Calls, Ended
    <2> QED BY <1>3, <2>1, <2>2 DEF Begin, TypeOK, Points, source, stored
  <1>4. ASSUME NEW j \in Jobs, FetchStagedRows(j) PROVE TypeOK'
    <2>1. staging[Run(j)] \in SUBSET Customers
      BY RunsAssumption DEF TypeOK, Run
    <2>2. pc' \in [Jobs -> Points]
      BY <1>4 DEF FetchStagedRows, Goto, TypeOK, Points, Calls, CsvTry, OutboxTxn
    <2> QED BY <1>4, <2>1, <2>2 DEF FetchStagedRows, TypeOK, Points, source, stored
  <1>5. ASSUME NEW j \in Jobs, InsertRow(j) PROVE TypeOK'
    BY <1>5 DEF InsertRow, NextRows, TypeOK, source, stored
  <1>6. ASSUME NEW j \in Jobs, CreateDeliveryJob(j) PROVE TypeOK'
    <2>1. pc' \in [Jobs -> Points] /\ faults' \in 0..MaxFaults
      BY <1>6, ReturnsType DEF CreateDeliveryJob, Points, Calls
    <2>2. job' \in [Jobs -> JobRow]
      BY <1>6 DEF CreateDeliveryJob, SetJob, NoRow, JobRow, Statuses, TypeOK
    <2> QED BY <1>6, <2>1, <2>2 DEF CreateDeliveryJob, TypeOK, Points, local, source
  <1>7. ASSUME NEW j \in Jobs, LogPending(j) PROVE TypeOK'
    <2>1. (IF rows[j] = {} THEN "skipping" ELSE "materializing") \in Points
      BY DEF Points, Calls, CsvTry
    <2> QED BY <1>7, <2>1, LogType DEF LogPending, Statuses
  <1>8. ASSUME NEW j \in Jobs, SkipNoSourceRows(j) PROVE TypeOK'
    BY <1>8, CompleteType DEF SkipNoSourceRows, Statuses, Points, Calls
  <1>9. ASSUME NEW j \in Jobs, LogSkipped(j) PROVE TypeOK'
    BY <1>9, LogType DEF LogSkipped, Statuses, Points, Ended
  <1>10. ASSUME NEW j \in Jobs, MaterializeCsv(j) PROVE TypeOK'
    <2>1. pc' \in [Jobs -> Points] /\ faults' \in 0..MaxFaults
      BY <1>10, ReturnsType, RaiseType DEF MaterializeCsv, Points, Calls, CsvTry
    <2>2. artifact' \in [Jobs -> SUBSET Customers]
      <3>1. PICK S \in SUBSET Customers : WriteFile(j, S)
        <4>1. CASE WriteFile(j, rows[j])
          BY <4>1 DEF TypeOK
        <4>2. CASE \E last \in rows[j] : WriteFile(j, {c \in rows[j] : c < last})
          BY <4>2 DEF TypeOK
        <4> QED BY <1>10, <4>1, <4>2 DEF MaterializeCsv
      <3> QED BY <3>1 DEF WriteFile, TypeOK
    <2> QED BY <1>10, <2>1, <2>2 DEF MaterializeCsv, TypeOK, Points, local, source
  <1>11. ASSUME NEW j \in Jobs, MarkMaterialized(j) PROVE TypeOK'
    <2>1. pc' \in [Jobs -> Points] /\ faults' \in 0..MaxFaults
      BY <1>11, ReturnsType DEF MarkMaterialized, Points, Calls, CsvTry
    <2>2. job' \in [Jobs -> JobRow]
      BY <1>11, CountType DEF MarkMaterialized, SetJob, JobRow, Statuses, TypeOK
    <2> QED BY <1>11, <2>1, <2>2 DEF MarkMaterialized, TypeOK, Points, local, source
  <1>12. ASSUME NEW j \in Jobs, LogMaterialized(j) PROVE TypeOK'
    BY <1>12, LogType DEF LogMaterialized, Statuses, Points, Calls, CsvTry
  <1>13. ASSUME NEW j \in Jobs, CommitRecords(j) PROVE TypeOK'
    <2>1. pc' \in [Jobs -> Points] /\ faults' \in 0..MaxFaults
      BY <1>13, ReturnsType DEF CommitRecords, Points, Calls, CsvTry
    <2>2. Run(j) \in Runs
      BY RunsAssumption DEF TypeOK, Run
    <2>3. record' \in [Runs -> [Selectable -> [Customers -> Jobs \cup {NoJob}]]]
      <3>1. Own(record[Run(j)][Csv], ins[j], j) \in [Customers -> Jobs \cup {NoJob}]
        BY <2>2, OwnType DEF TypeOK, Selectable
      <3> QED BY <1>13, <2>2, <3>1 DEF CommitRecords, TypeOK
    <2> QED BY <1>13, <2>1, <2>3 DEF CommitRecords, TypeOK, Points, local, source
  <1>14. ASSUME NEW j \in Jobs, CompleteJob(j) PROVE TypeOK'
    BY <1>14, CompleteType, FinalStatusType, CountType, SkippedType
       DEF CompleteJob, Snapshot, Points, Calls, CsvTry
  <1>15. ASSUME NEW j \in Jobs, LogFinal(j) PROVE TypeOK'
    BY <1>15, LogType, FinalStatusType DEF LogFinal, Points, Ended
  <1>16. ASSUME NEW j \in Jobs, FailJob(j) PROVE TypeOK'
    BY <1>16, CompleteType DEF FailJob, Statuses, Points, Calls
  <1>17. ASSUME NEW j \in Jobs, LogFailed(j) PROVE TypeOK'
    BY <1>17, LogType DEF LogFailed, Statuses, Points, Ended
  <1>18. ASSUME NEW j \in Jobs, OutboxRowsInserted(j) PROVE TypeOK'
    BY <1>18 DEF OutboxRowsInserted, Goto, TypeOK, Calls, OutboxTxn, local, source, stored
  <1>19. ASSUME NEW j \in Jobs, InsertRecords(j) PROVE TypeOK'
    <2> DEFINE fresh == {c \in ins[j] : record[Run(j)][Outbox][c] = NoJob}
    <2>1. fresh \in SUBSET Customers
      BY DEF TypeOK
    <2>2. pc' \in [Jobs -> Points]
      BY <1>19 DEF InsertRecords, Goto, TypeOK, Points, Calls, OutboxTxn
    <2>3. /\ todo' \in [Jobs -> SUBSET Customers]
          /\ ins' \in [Jobs -> SUBSET Customers]
          /\ recs' \in [Jobs -> SUBSET Customers]
      <3>1. CASE Cardinality(fresh) = Cardinality(ins[j])
        BY <1>19, <2>1, <3>1 DEF InsertRecords, TypeOK
      <3>2. CASE Cardinality(fresh) # Cardinality(ins[j])
        BY <1>19, <3>2 DEF InsertRecords, Rollback, TypeOK
      <3> QED BY <3>1, <3>2
    <2> QED BY <1>19, <2>2, <2>3 DEF InsertRecords, TypeOK, Points, source, stored
  <1>20. ASSUME NEW j \in Jobs, CommitOutbox(j) PROVE TypeOK'
    <2>1. pc' \in [Jobs -> Points] /\ faults' \in 0..MaxFaults
      BY <1>20, ReturnsType DEF CommitOutbox, Points, Ended
    <2>2. Run(j) \in Runs
      BY RunsAssumption DEF TypeOK, Run
    <2>3. record' \in [Runs -> [Selectable -> [Customers -> Jobs \cup {NoJob}]]]
      <3>1. Own(record[Run(j)][Outbox], recs[j], j) \in [Customers -> Jobs \cup {NoJob}]
        BY <2>2, OwnType DEF TypeOK, Selectable
      <3> QED BY <1>20, <2>2, <3>1 DEF CommitOutbox, TypeOK
    <2>4. outbox' \in [Runs -> [Customers -> Jobs \cup {NoJob}]]
      BY <1>20, <2>2, OwnType DEF CommitOutbox, TypeOK
    <2>5. job' \in [Jobs -> JobRow]
      BY <1>20, FinalStatusType, CountType, SkippedType
         DEF CommitOutbox, SetJob, JobRow, TypeOK, Snapshot
    <2>6. OutboxTrail(j) \in Seq(Statuses)
      <3>1. << "pending", "skipped_no_source_rows" >> \in Seq(Statuses)
        BY DEF Statuses
      <3>2. << "pending", "materialized", FinalStatus(j) >> \in Seq(Statuses)
        <4>1. "pending" \in Statuses /\ "materialized" \in Statuses
          BY DEF Statuses
        <4> QED BY <4>1, FinalStatusType
      <3> QED BY <3>1, <3>2 DEF OutboxTrail
    <2>7. attempts' \in [Jobs -> Seq(Statuses)]
      BY <1>20, <2>6 DEF CommitOutbox, TypeOK
    <2> QED BY <1>20, <2>1, <2>3, <2>4, <2>5, <2>7
            DEF CommitOutbox, TypeOK, Points, local, source
  <1>21. ASSUME NEW j \in Jobs, RecordOutboxFailure(j) PROVE TypeOK'
    <2>1. pc' \in [Jobs -> Points] /\ faults' \in 0..MaxFaults
      BY <1>21, ReturnsType DEF RecordOutboxFailure, Points, Ended
    <2>2. job' \in [Jobs -> JobRow]
      BY <1>21, CountType DEF RecordOutboxFailure, SetJob, NoRow, JobRow, Statuses, TypeOK
    <2>3. attempts' \in [Jobs -> Seq(Statuses)]
      BY <1>21 DEF RecordOutboxFailure, Log, TypeOK, Statuses
    <2> QED BY <1>21, <2>1, <2>2, <2>3 DEF RecordOutboxFailure, TypeOK, Points, local, source
  <1>22. ASSUME NEW j \in Jobs, CallRaises(j) PROVE TypeOK'
    <2>1. pc' \in [Jobs -> Points] /\ faults' \in 0..MaxFaults
      BY <1>22, RaiseType DEF CallRaises
    <2> QED BY <1>22, <2>1 DEF CallRaises, Rollback, TypeOK, Points, source, stored
  <1>23. ASSUME NEW j \in Jobs, Crash(j) PROVE TypeOK'
    BY <1>23, FaultsAssumption DEF Crash, Rollback, Goto, TypeOK, Ended, source, stored
  <1>24. CASE UNCHANGED vars
    BY <1>24 DEF vars, TypeOK, local, source, stored
  <1> QED
    BY <1>1, <1>2, <1>3, <1>4, <1>5, <1>6, <1>7, <1>8, <1>9, <1>10, <1>11, <1>12, <1>13,
       <1>14, <1>15, <1>16, <1>17, <1>18, <1>19, <1>20, <1>21, <1>22, <1>23, <1>24
       DEF Next, Step, CsvStep, OutboxStep

LEMMA SnapshotStep ==
  ASSUME TypeOK, Snapshot, [Next]_vars
  PROVE  Snapshot'
  <1>1. ASSUME NEW r \in Runs, Audit(r) PROVE Snapshot'
    BY <1>1 DEF Audit, TypeOK, Snapshot, local, Run
  <1>2. ASSUME NEW r \in Runs, Export(r) PROVE Snapshot'
    BY <1>2, RunsAssumption DEF Export, TypeOK, Snapshot, local, Run
  <1>3. ASSUME NEW j \in Jobs, Begin(j) PROVE Snapshot'
    BY <1>3 DEF Begin, Goto, TypeOK, Snapshot, source, Run
  <1>4. ASSUME NEW j \in Jobs, FetchStagedRows(j) PROVE Snapshot'
    <2>1. pc' = [pc EXCEPT ![j] = pc'[j]] /\ pc'[j] \notin {"idle", "fetching"}
      BY <1>4 DEF FetchStagedRows, Goto, TypeOK
    <2> QED BY <1>4, <2>1 DEF FetchStagedRows, TypeOK, Snapshot, source, Run
  <1>5. ASSUME NEW j \in Jobs, InsertRow(j) PROVE Snapshot'
    BY <1>5 DEF InsertRow, NextRows, TypeOK, Snapshot, source, Run
  <1>6. ASSUME NEW j \in Jobs, CsvStep(j) PROVE Snapshot'
    <2> USE DEF Points, Calls, CsvTry, Ended
    <2>1. UNCHANGED << local, source >> /\ pc[j] # "idle"
      BY <1>6 DEF CsvStep, CreateDeliveryJob, LogPending, SkipNoSourceRows, LogSkipped,
         MaterializeCsv, MarkMaterialized, LogMaterialized, CommitRecords, CompleteJob,
         LogFinal, FailJob, LogFailed, LogAndReturn, CompleteDeliveryJob
    <2>2. CASE Raise(j)
      BY <2>1, <2>2, SnapshotKept, HandlerPoint DEF Raise
    <2>3. CASE \E next \in Points \ {"idle", "fetching"} : Returns(j, next)
      BY <2>1, <2>3, ReturnSnapshot
    <2>4. CASE CreateDeliveryJob(j) \/ SkipNoSourceRows(j) \/ MarkMaterialized(j)
               \/ CommitRecords(j) \/ CompleteJob(j) \/ FailJob(j)
      BY <2>4, <2>3 DEF CreateDeliveryJob, SkipNoSourceRows, MarkMaterialized,
         CommitRecords, CompleteJob, FailJob
    <2>5. CASE LogPending(j) \/ LogSkipped(j) \/ LogMaterialized(j) \/ LogFinal(j)
               \/ LogFailed(j)
      BY <2>5, <2>3 DEF LogPending, LogSkipped, LogMaterialized, LogFinal, LogFailed,
         LogAndReturn
    <2>6. CASE MaterializeCsv(j)
      BY <2>6, <2>2, <2>3 DEF MaterializeCsv
    <2> QED BY <1>6, <2>4, <2>5, <2>6 DEF CsvStep
  <1>7. ASSUME NEW j \in Jobs, OutboxRowsInserted(j) PROVE Snapshot'
    BY <1>7, SnapshotKept DEF OutboxRowsInserted, Points, Calls, OutboxTxn
  <1>8. ASSUME NEW j \in Jobs, InsertRecords(j) PROVE Snapshot'
    <2> DEFINE fresh == {c \in ins[j] : record[Run(j)][Outbox][c] = NoJob}
    <2>1. CASE Cardinality(fresh) = Cardinality(ins[j])
      <3>1. /\ recs' = [recs EXCEPT ![j] = fresh] /\ UNCHANGED << todo, ins >>
            /\ Goto(j, "committing") /\ UNCHANGED << req, rows, source >>
        BY <1>8, <2>1 DEF InsertRecords
      <3> QED BY <3>1 DEF Goto, TypeOK, Snapshot, source, Run
    <2>2. CASE Cardinality(fresh) # Cardinality(ins[j])
      <3>1. /\ Rollback(j) /\ Goto(j, "outbox_failing")
            /\ UNCHANGED << req, rows, source >>
        BY <1>8, <2>2 DEF InsertRecords
      <3> QED BY <3>1 DEF Rollback, Goto, TypeOK, Snapshot, source, Run
    <2> QED BY <2>1, <2>2
  <1>9. ASSUME NEW j \in Jobs, CommitOutbox(j) \/ RecordOutboxFailure(j) PROVE Snapshot'
    BY <1>9, ReturnSnapshot DEF CommitOutbox, RecordOutboxFailure, Points, Ended
  <1>10. ASSUME NEW j \in Jobs, CallRaises(j) \/ Crash(j) PROVE Snapshot'
    <2>1. pc' = [pc EXCEPT ![j] = pc'[j]] /\ pc'[j] \notin {"idle", "fetching"}
      BY <1>10, HandlerPoint DEF CallRaises, Crash, Raise, Goto, TypeOK
    <2>2. Rollback(j) /\ UNCHANGED << req, rows, source >>
      BY <1>10 DEF CallRaises, Crash
    <2> QED BY <2>1, <2>2 DEF Rollback, TypeOK, Snapshot, source, Run
  <1>11. CASE UNCHANGED vars
    BY <1>11 DEF vars, Snapshot, local, source, stored, Run
  <1> QED
    BY <1>1, <1>2, <1>3, <1>4, <1>5, <1>6, <1>7, <1>8, <1>9, <1>10, <1>11
       DEF Next, Step, OutboxStep

\* Every reachable state is well typed: the counts of a job row are natural
\* numbers though rows_skipped_conflict is a difference, and an execution only
\* ever goes to the control points of its path.
THEOREM TypeCorrect == Spec => []TypeOK
  <1>1. Init => TypeOK /\ Snapshot
    BY InitType, InitSnapshot
  <1>2. (TypeOK /\ Snapshot) /\ [Next]_vars => (TypeOK /\ Snapshot)'
    BY TypeStep, SnapshotStep
  <1> QED BY <1>1, <1>2, PTL DEF Spec

-----------------------------------------------------------------------------
(* The inductive invariant                                                 *)

\* Control points at which an execution has committed no delivery record.
Before == {"idle", "fetching", "creating", "logging", "skipping", "skip_logging",
           "materializing", "marking", "mark_logging", "csv_inserting"} \cup OutboxTxn

\* Which path an execution is on, and that it has rows to deliver.
PathOK(j) ==
  /\ pc[j] \in CsvTry \cup {"creating", "logging", "skipping", "skip_logging",
                             "failing", "fail_logging"} => Target(j) = Csv
  /\ pc[j] \in OutboxTxn \cup {"outbox_failing"} => Target(j) = Outbox
  /\ pc[j] \in CsvTry \cup {"outbox_inserting", "recording"} => rows[j] # {}

\* What the insert loop has done with the rows it has visited.
LoopOK(j) ==
  /\ pc[j] \in {"creating", "logging", "materializing", "marking", "mark_logging"} =>
       ins[j] = {} /\ todo[j] = rows[j]
  /\ pc[j] \in Inserting =>
       /\ \A c \in ins[j] : c \notin todo[j] /\ KeyTable(j)[c] = NoJob
       /\ \A c \in rows[j] \ todo[j] : c \in ins[j] \/ KeyTable(j)[c] # NoJob
  /\ pc[j] \in {"recording", "committing"} => todo[j] = {}
  /\ pc[j] = "committing" => recs[j] = ins[j]
  /\ pc[j] \in {"completing", "final_logging"} =>
       /\ ins[j] = DeliveredBy(j)
       /\ \A c \in rows[j] : record[Run(j)][Csv][c] # NoJob

\* Two open transactions of one request hold rows of different customers.
Exclusive ==
  \A j, k \in Jobs :
    j # k /\ req[j] = req[k] /\ pc[j] \in Inserting /\ pc[k] \in Inserting =>
      ins[j] \cap ins[k] = {}

\* A record names a job of its run and target that got as far as the commit.
Owners ==
  \A r \in Runs, t \in Selectable, c \in Customers :
    record[r][t][c] # NoJob =>
      /\ req[record[r][t][c]] = [run |-> r, target |-> t]
      /\ pc[record[r][t][c]] \notin Before

CountsOK(j) ==
  /\ job[j].delivered = Cardinality(DeliveredBy(j))
  /\ job[j].delivered + job[j].skipped = job[j].source
  /\ (job[j].status = "delivered") <=> (job[j].delivered > 0)

RowOK(j) ==
  /\ pc[j] \in {"idle", "fetching", "creating"} \cup OutboxTxn => job[j] = NoRow
  /\ pc[j] \in {"logging", "skipping", "materializing", "marking"} =>
       job[j].status = "pending"
  /\ pc[j] \in {"mark_logging", "csv_inserting", "completing"} =>
       /\ job[j].status = "materialized"
       /\ job[j].source = Cardinality(rows[j])
  /\ Delivers(j) =>
       /\ pc[j] \notin Before
       /\ rows[j] # {}
       /\ \A c \in rows[j] : record[Run(j)][Target(j)][c] # NoJob
       /\ CountsOK(j)

FileOK(j) ==
  /\ pc[j] \in {"marking", "mark_logging", "csv_inserting"} => artifact[j] = rows[j]
  /\ Target(j) = Csv => DeliveredBy(j) \subseteq artifact[j]

IInv ==
  /\ TypeOK
  /\ Snapshot
  /\ \A j \in Jobs : PathOK(j) /\ LoopOK(j) /\ RowOK(j) /\ FileOK(j)
  /\ Exclusive
  /\ Owners
  /\ OutboxMatchesRecords

-----------------------------------------------------------------------------
(* Every step preserves it                                                 *)

Mine(j) == PathOK(j) /\ LoopOK(j) /\ RowOK(j) /\ FileOK(j)

\* What the invariant says of k is about k's own variables and the tables.
LEMMA OthersKept ==
  ASSUME NEW k \in Jobs, Mine(k),
         pc'[k] = pc[k], req'[k] = req[k], rows'[k] = rows[k], todo'[k] = todo[k],
         ins'[k] = ins[k], recs'[k] = recs[k], job'[k] = job[k], artifact'[k] = artifact[k],
         UNCHANGED << record, outbox >>
  PROVE  Mine(k)'
  BY DEF Mine, PathOK, LoopOK, RowOK, FileOK, Target, Run, KeyTable, Delivers, DeliveredBy,
     CountsOK

LEMMA InitInductive == Init => IInv
  <1> SUFFICES ASSUME Init PROVE IInv
    OBVIOUS
  <1>1. TypeOK /\ Snapshot
    BY InitType, InitSnapshot
  <1>2. ASSUME NEW j \in Jobs PROVE PathOK(j) /\ LoopOK(j) /\ RowOK(j) /\ FileOK(j)
    <2>1. pc[j] = "idle" /\ job[j] = NoRow /\ ~Delivers(j)
      BY DEF Init, Delivers, NoRow
    <2>2. DeliveredBy(j) = {}
      BY <1>1, JobsAssumption, RunsAssumption DEF Init, DeliveredBy, Run, Target, TypeOK
    <2> QED BY <2>1, <2>2 DEF PathOK, LoopOK, RowOK, FileOK, CsvTry, OutboxTxn, Inserting
  <1>3. Exclusive
    BY DEF Init, Exclusive
  <1>4. Owners /\ OutboxMatchesRecords
    BY DEF Init, Owners, OutboxMatchesRecords, Selectable
  <1> QED BY <1>1, <1>2, <1>3, <1>4 DEF IInv

\* A step of j that leaves the tables of deliveries and the snapshot alone.
LEMMA QuietStep ==
  ASSUME IInv, [Next]_vars, NEW j \in Jobs,
         UNCHANGED << record, outbox >>, UNCHANGED local,
         pc' = [pc EXCEPT ![j] = pc'[j]],
         \A k \in Jobs \ {j} : job'[k] = job[k] /\ artifact'[k] = artifact[k],
         pc'[j] \notin Before \/ pc[j] \in Before,
         pc'[j] \notin Inserting \/ pc[j] \in Inserting \/ ins[j] = {},
         Mine(j)'
  PROVE  IInv'
  <1>1. TypeOK' /\ Snapshot'
    BY TypeStep, SnapshotStep DEF IInv
  <1>2. \A k \in Jobs : Mine(k)'
    <2> SUFFICES ASSUME NEW k \in Jobs, k # j PROVE Mine(k)'
      OBVIOUS
    <2> QED BY OthersKept DEF IInv, TypeOK, local, Mine
  <1>3. Exclusive'
    BY DEF IInv, TypeOK, Exclusive, local
  <1>4. Owners'
    <2> SUFFICES ASSUME NEW r \in Runs, NEW t \in Selectable, NEW c \in Customers,
                        record[r][t][c] # NoJob
                 PROVE  /\ req[record[r][t][c]] = [run |-> r, target |-> t]
                        /\ pc'[record[r][t][c]] \notin Before
      BY DEF Owners, local
    <2>1. record[r][t][c] \in Jobs
      BY DEF IInv, TypeOK
    <2>2. /\ req[record[r][t][c]] = [run |-> r, target |-> t]
          /\ pc[record[r][t][c]] \notin Before
      BY DEF IInv, Owners
    <2>3. pc \in [Jobs -> {"idle"} \cup Calls \cup Ended]
      BY DEF IInv, TypeOK
    <2> QED BY <2>1, <2>2, <2>3
  <1>5. OutboxMatchesRecords'
    BY DEF IInv, OutboxMatchesRecords
  <1> QED BY <1>1, <1>2, <1>3, <1>4, <1>5 DEF IInv, Mine

LEMMA Returned ==
  ASSUME TypeOK, NEW j \in Jobs, NEW next, Returns(j, next)
  PROVE  pc' = [pc EXCEPT ![j] = pc'[j]] /\ pc'[j] \in {next, Handler(pc[j])}
  BY DEF Returns, Raise, Goto, TypeOK

\* The steps of the CSV path that touch one job row, one attempt row or the file.
LEMMA CsvQuietStep ==
  ASSUME IInv, [Next]_vars, NEW j \in Jobs,
         CreateDeliveryJob(j) \/ LogPending(j) \/ LogSkipped(j) \/ MarkMaterialized(j)
           \/ SkipNoSourceRows(j) \/ LogMaterialized(j) \/ LogFinal(j) \/ FailJob(j)
           \/ LogFailed(j)
  PROVE  IInv'
  <1> USE DEF Calls, CsvTry, OutboxTxn, Inserting, Before, Ended
  <1>1. UNCHANGED << record, outbox, artifact >> /\ UNCHANGED local
    BY DEF CreateDeliveryJob, LogPending, LogSkipped, MarkMaterialized, SkipNoSourceRows,
       LogMaterialized, LogFinal, FailJob, LogFailed, LogAndReturn, CompleteDeliveryJob
  <1>2. ASSUME NEW next, Returns(j, next), next \notin Before \/ pc[j] \in Before,
               next \notin Inserting \/ pc[j] \in Inserting \/ ins[j] = {},
               job' = [job EXCEPT ![j] = job'[j]], Mine(j)'
        PROVE  IInv'
    <2>1. pc' = [pc EXCEPT ![j] = pc'[j]] /\ pc'[j] \in {next, Handler(pc[j])}
      BY <1>2, Returned DEF IInv
    <2>2. Handler(pc[j]) \notin Before
      BY DEF Handler
    <2>3. \A k \in Jobs \ {j} : job'[k] = job[k] /\ artifact'[k] = artifact[k]
      BY <1>1, <1>2 DEF IInv, TypeOK
    <2> QED BY <1>1, <1>2, <2>1, <2>2, <2>3, QuietStep
  <1>3. ASSUME NEW next, Returns(j, next), next \in Calls \cup Ended
        PROVE  pc'[j] = next \/ pc'[j] = Handler(pc[j])
    BY <1>3, Returned DEF IInv
  <1> DEFINE Tables == /\ Target(j)' = Target(j) /\ Run(j)' = Run(j)
                       /\ KeyTable(j)' = KeyTable(j) /\ DeliveredBy(j)' = DeliveredBy(j)
                       /\ rows'[j] = rows[j] /\ ins'[j] = ins[j] /\ todo'[j] = todo[j]
                       /\ recs'[j] = recs[j] /\ artifact'[j] = artifact[j] /\ record' = record
  <1>4. Tables
    BY <1>1 DEF local, Target, Run, KeyTable, DeliveredBy
  <1>5. Mine(j) /\ pc \in [Jobs -> {"idle"} \cup Calls \cup Ended]
                /\ job \in [Jobs -> JobRow] /\ rows[j] \subseteq Customers
    BY DEF IInv, Mine, TypeOK
  <1> HIDE DEF Tables
  <1>6. CASE CreateDeliveryJob(j)
    <2>1. pc[j] = "creating" /\ Returns(j, "logging")
          /\ job' = [job EXCEPT ![j] = [NoRow EXCEPT !.status = "pending"]]
      BY <1>6 DEF CreateDeliveryJob, SetJob
    <2>2. pc'[j] \in {"logging", "raised"}
      BY <2>1, <1>3 DEF Handler
    <2>3. job'[j].status = "pending" /\ ~Delivers(j)'
      BY <2>1, <1>5 DEF NoRow, Delivers
    <2>4. Mine(j)'
      BY <2>1, <2>2, <2>3, <1>4, <1>5
         DEF Tables, Mine, PathOK, LoopOK, RowOK, FileOK
    <2> QED BY <1>2, <2>1, <2>3, <2>4, <1>5
  <1>7. CASE LogPending(j)
    <2> DEFINE next == IF rows[j] = {} THEN "skipping" ELSE "materializing"
    <2>1. pc[j] = "logging" /\ Returns(j, next) /\ UNCHANGED job
      BY <1>7 DEF LogPending, LogAndReturn
    <2>2. pc'[j] \in {next, "raised"} /\ job'[j] = job[j] /\ Delivers(j)' = Delivers(j)
      BY <2>1, <1>3 DEF Handler, Delivers
    <2>3. Mine(j)'
      BY <2>1, <2>2, <1>4, <1>5 DEF Tables, Mine, PathOK, LoopOK, RowOK, FileOK, CountsOK
    <2> QED BY <1>2, <2>1, <2>3, <1>5
  <1>8. CASE LogSkipped(j)
    <2>1. pc[j] = "skip_logging" /\ Returns(j, "done") /\ UNCHANGED job
      BY <1>8 DEF LogSkipped, LogAndReturn
    <2>2. pc'[j] \in {"done", "raised"} /\ job'[j] = job[j] /\ Delivers(j)' = Delivers(j)
      BY <2>1, <1>3 DEF Handler, Delivers
    <2>3. Mine(j)'
      BY <2>1, <2>2, <1>4, <1>5 DEF Tables, Mine, PathOK, LoopOK, RowOK, FileOK, CountsOK
    <2> QED BY <1>2, <2>1, <2>3, <1>5
  <1>9. CASE LogMaterialized(j)
    <2>1. pc[j] = "mark_logging" /\ Returns(j, "csv_inserting") /\ UNCHANGED job
      BY <1>9 DEF LogMaterialized, LogAndReturn
    <2>2. pc'[j] \in {"csv_inserting", "failing"} /\ job'[j] = job[j] /\ Delivers(j)' = Delivers(j)
      BY <2>1, <1>3 DEF Handler, Delivers
    <2>3. Mine(j)'
      BY <2>1, <2>2, <1>4, <1>5 DEF Tables, Mine, PathOK, LoopOK, RowOK, FileOK, CountsOK
    <2>4. ins[j] = {}
      BY <2>1, <1>5 DEF Mine, LoopOK
    <2> QED BY <1>2, <2>1, <2>3, <2>4, <1>5
  <1>10. CASE LogFinal(j)
    <2>1. pc[j] = "final_logging" /\ Returns(j, "done") /\ UNCHANGED job
      BY <1>10 DEF LogFinal, LogAndReturn
    <2>2. pc'[j] \in {"done", "failing"} /\ job'[j] = job[j] /\ Delivers(j)' = Delivers(j)
      BY <2>1, <1>3 DEF Handler, Delivers
    <2>3. Mine(j)'
      BY <2>1, <2>2, <1>4, <1>5 DEF Tables, Mine, PathOK, LoopOK, RowOK, FileOK, CountsOK
    <2> QED BY <1>2, <2>1, <2>3, <1>5
  <1>11. CASE LogFailed(j)
    <2>1. pc[j] = "fail_logging" /\ Returns(j, "raised") /\ UNCHANGED job
      BY <1>11 DEF LogFailed, LogAndReturn
    <2>2. pc'[j] \in {"raised", "raised"} /\ job'[j] = job[j] /\ Delivers(j)' = Delivers(j)
      BY <2>1, <1>3 DEF Handler, Delivers
    <2>3. Mine(j)'
      BY <2>1, <2>2, <1>4, <1>5 DEF Tables, Mine, PathOK, LoopOK, RowOK, FileOK, CountsOK
    <2> QED BY <1>2, <2>1, <2>3, <1>5
  <1>12. CASE SkipNoSourceRows(j)
    <2>1. pc[j] = "skipping" /\ Returns(j, "skip_logging")
          /\ job' = [job EXCEPT ![j] = [job[j] EXCEPT !.status = "skipped_no_source_rows",
                                       !.delivered = 0, !.skipped = 0]]
      BY <1>12 DEF SkipNoSourceRows, CompleteDeliveryJob, SetJob
    <2>2. pc'[j] \in {"skip_logging", "raised"}
      BY <2>1, <1>3 DEF Handler
    <2>3. job'[j].status = "skipped_no_source_rows" /\ ~Delivers(j)'
      BY <2>1, <1>5 DEF JobRow, Delivers
    <2>4. Mine(j)'
      BY <2>1, <2>2, <2>3, <1>4, <1>5 DEF Tables, Mine, PathOK, LoopOK, RowOK, FileOK
    <2> QED BY <1>2, <2>1, <2>4, <1>5
  <1>13. CASE FailJob(j)
    <2>1. pc[j] = "failing" /\ Returns(j, "fail_logging")
          /\ job' = [job EXCEPT ![j] = [job[j] EXCEPT !.status = "failed",
                                       !.delivered = 0, !.skipped = 0]]
      BY <1>13 DEF FailJob, CompleteDeliveryJob, SetJob
    <2>2. pc'[j] \in {"fail_logging", "raised"}
      BY <2>1, <1>3 DEF Handler
    <2>3. job'[j].status = "failed" /\ ~Delivers(j)'
      BY <2>1, <1>5 DEF JobRow, Delivers
    <2>4. Mine(j)'
      BY <2>1, <2>2, <2>3, <1>4, <1>5 DEF Tables, Mine, PathOK, LoopOK, RowOK, FileOK
    <2> QED BY <1>2, <2>1, <2>4, <1>5
  <1>14. CASE MarkMaterialized(j)
    <2>1. pc[j] = "marking" /\ Returns(j, "mark_logging")
          /\ job' = [job EXCEPT ![j] = [job[j] EXCEPT !.status = "materialized",
                                       !.source = Cardinality(rows[j]),
                                       !.materialized = Cardinality(rows[j])]]
      BY <1>14 DEF MarkMaterialized, SetJob
    <2>2. pc'[j] \in {"mark_logging", "failing"}
      BY <2>1, <1>3 DEF Handler
    <2>3. /\ job'[j].status = "materialized" /\ ~Delivers(j)'
          /\ job'[j].source = Cardinality(rows[j])
      BY <2>1, <1>5 DEF JobRow, Delivers
    <2>4. Mine(j)'
      BY <2>1, <2>2, <2>3, <1>4, <1>5 DEF Tables, Mine, PathOK, LoopOK, RowOK, FileOK
    <2> QED BY <1>2, <2>1, <2>4, <1>5
  <1> QED BY <1>6, <1>7, <1>8, <1>9, <1>10, <1>11, <1>12, <1>13, <1>14

LEMMA MaterializeStep ==
  ASSUME IInv, [Next]_vars, NEW j \in Jobs, MaterializeCsv(j)
  PROVE  IInv'
  <1> USE DEF Calls, CsvTry, OutboxTxn, Inserting, Before, Ended
  <1>1. pc[j] = "materializing" /\ UNCHANGED << job, record, outbox >> /\ UNCHANGED local
    BY DEF MaterializeCsv
  <1>2. Mine(j) /\ TypeOK
    BY DEF IInv, Mine
  <1>3. /\ pc' = [pc EXCEPT ![j] = pc'[j]] /\ pc'[j] \in {"marking", "failing"}
        /\ \A k \in Jobs \ {j} : artifact'[k] = artifact[k]
        /\ pc'[j] = "marking" => artifact'[j] = rows[j]
    <2>1. CASE WriteFile(j, rows[j]) /\ Returns(j, "marking")
      BY <2>1, <1>1, <1>2, Returned DEF WriteFile, WritersOfPath, Handler
    <2>2. CASE \E last \in rows[j] :
                 WriteFile(j, {c \in rows[j] : c < last}) /\ Raise(j)
      BY <2>2, <1>1, <1>2 DEF WriteFile, WritersOfPath, Raise, Goto, Handler, TypeOK
    <2> QED BY <2>1, <2>2 DEF MaterializeCsv
  <1>4. DeliveredBy(j) = {} /\ DeliveredBy(j)' = {}
    <2>1. \A c \in Customers : record[Run(j)][Target(j)][c] # j
      BY <1>1, <1>2, RunsAssumption, JobsAssumption DEF IInv, Owners, TypeOK, Run, Target
    <2> QED BY <2>1, <1>1 DEF DeliveredBy, Run, Target, local
  <1>5. Mine(j)'
    BY <1>1, <1>2, <1>3, <1>4 DEF Mine, PathOK, LoopOK, RowOK, FileOK, Target, Run,
       Delivers, local
  <1> QED BY <1>1, <1>3, <1>5, QuietStep

\* An execution records its final status from the counts of its insert loop.
LEMMA CompleteStep ==
  ASSUME IInv, [Next]_vars, NEW j \in Jobs, CompleteJob(j)
  PROVE  IInv'
  <1> USE DEF Calls, CsvTry, OutboxTxn, Inserting, Before, Ended
  <1>1. /\ pc[j] = "completing" /\ Returns(j, "final_logging")
        /\ UNCHANGED << record, outbox, artifact >> /\ UNCHANGED local
        /\ job' = [job EXCEPT ![j] = [job[j] EXCEPT !.status = FinalStatus(j),
                    !.delivered = Cardinality(ins[j]), !.skipped = RowsSkipped(j)]]
    BY DEF CompleteJob, CompleteDeliveryJob, SetJob
  <1>2. Mine(j) /\ TypeOK
    BY DEF IInv, Mine
  <1>3. pc' = [pc EXCEPT ![j] = pc'[j]] /\ pc'[j] \in {"final_logging", "failing"}
    BY <1>1, <1>2, Returned DEF Handler
  <1>4. /\ \A k \in Jobs \ {j} : job'[k] = job[k]
        /\ job'[j].status = FinalStatus(j) /\ job'[j].delivered = Cardinality(ins[j])
        /\ job'[j].skipped = RowsSkipped(j) /\ job'[j].source = Cardinality(rows[j])
    <2>1. job[j] \in JobRow /\ job[j].source = Cardinality(rows[j])
      BY <1>1, <1>2 DEF TypeOK, Mine, RowOK
    <2> QED BY <1>1, <1>2, <2>1 DEF TypeOK, JobRow
  <1>5. ins[j] = DeliveredBy(j) /\ DeliveredBy(j)' = DeliveredBy(j)
    BY <1>1, <1>2 DEF Mine, LoopOK, DeliveredBy, Run, Target, local
  <1>6. IsFiniteSet(ins[j])
    BY <1>2, CustomersAssumption, FS_Subset DEF TypeOK
  <1>7. CountsOK(j)'
    <2>1. /\ Cardinality(ins[j]) \in Nat /\ Cardinality(rows[j]) \in Nat
          /\ Cardinality(ins[j]) = 0 <=> ins[j] = {}
      BY <1>2, <1>6, CountType, FS_EmptySet
    <2>2. FinalStatus(j) = "delivered" <=> ins[j] # {}
      BY <1>1, <1>2 DEF FinalStatus, Mine, PathOK
    <2> QED BY <1>4, <1>5, <2>1, <2>2 DEF CountsOK, RowsSkipped
  <1>8. rows[j] # {} /\ \A c \in rows[j] : record[Run(j)][Target(j)][c] # NoJob
    BY <1>1, <1>2 DEF Mine, LoopOK, PathOK
  <1>9. Mine(j)'
    BY <1>1, <1>2, <1>3, <1>5, <1>7, <1>8 DEF Mine, PathOK, LoopOK, RowOK, FileOK,
       Target, Run, Delivers, local
  <1> QED BY <1>1, <1>3, <1>4, <1>9, QuietStep

LEMMA OutboxQuietStep ==
  ASSUME IInv, [Next]_vars, NEW j \in Jobs, OutboxRowsInserted(j) \/ RecordOutboxFailure(j)
  PROVE  IInv'
  <1> USE DEF Calls, CsvTry, OutboxTxn, Inserting, Before, Ended
  <1>1. Mine(j) /\ TypeOK
    BY DEF IInv, Mine
  <1>2. UNCHANGED << record, outbox, artifact >> /\ UNCHANGED local
    BY DEF OutboxRowsInserted, RecordOutboxFailure, stored
  <1>3. DeliveredBy(j)' = DeliveredBy(j) /\ KeyTable(j)' = KeyTable(j)
    BY <1>2 DEF DeliveredBy, KeyTable, Run, Target, local
  <1>4. CASE OutboxRowsInserted(j)
    <2>1. /\ pc[j] = "outbox_inserting" /\ todo[j] = {} /\ UNCHANGED job
          /\ pc' = [pc EXCEPT ![j] = "recording"]
      BY <1>4 DEF OutboxRowsInserted, Goto, stored
    <2>2. pc'[j] = "recording"
      BY <2>1, <1>1 DEF TypeOK
    <2>3. Mine(j)'
      BY <1>1, <1>2, <1>3, <2>1, <2>2 DEF Mine, PathOK, LoopOK, RowOK, FileOK, Target, Run,
         Delivers, local
    <2> QED BY <1>2, <2>1, <2>2, <2>3, QuietStep
  <1>5. CASE RecordOutboxFailure(j)
    <2>1. /\ pc[j] = "outbox_failing" /\ Returns(j, "raised")
          /\ job' = [job EXCEPT ![j] = job'[j]] /\ job'[j].status = "failed"
      BY <1>5, <1>1 DEF RecordOutboxFailure, SetJob, TypeOK, NoRow, JobRow
    <2>2. pc' = [pc EXCEPT ![j] = pc'[j]] /\ pc'[j] = "raised"
      BY <2>1, <1>1, Returned DEF Handler
    <2>3. Mine(j)'
      BY <1>1, <1>2, <1>3, <2>1, <2>2 DEF Mine, PathOK, LoopOK, RowOK, FileOK, Target, Run,
         Delivers, local
    <2>4. \A k \in Jobs \ {j} : job'[k] = job[k]
      BY <2>1, <1>1 DEF TypeOK
    <2> QED BY <1>2, <2>1, <2>2, <2>3, <2>4, QuietStep
  <1> QED BY <1>4, <1>5

\* A step of j on its own local variables.
LEMMA LocalStep ==
  ASSUME IInv, [Next]_vars, NEW j \in Jobs,
         UNCHANGED << job, record, outbox, artifact >>,
         \A k \in Jobs \ {j} :
           /\ pc'[k] = pc[k] /\ req'[k] = req[k] /\ rows'[k] = rows[k]
           /\ todo'[k] = todo[k] /\ ins'[k] = ins[k] /\ recs'[k] = recs[k],
         pc[j] \in Before \/ (req'[j] = req[j] /\ pc'[j] \notin Before),
         pc'[j] \in Inserting =>
           \A k \in Jobs \ {j} :
             req'[k] = req'[j] /\ pc[k] \in Inserting => ins'[j] \cap ins[k] = {},
         Mine(j)'
  PROVE  IInv'
  <1>1. TypeOK' /\ Snapshot' /\ TypeOK
    BY TypeStep, SnapshotStep DEF IInv
  <1>2. \A k \in Jobs : Mine(k)'
    <2> SUFFICES ASSUME NEW k \in Jobs, k # j PROVE Mine(k)'
      OBVIOUS
    <2> QED BY OthersKept DEF IInv, Mine
  <1>3. Exclusive'
    <2> SUFFICES ASSUME NEW i \in Jobs, NEW k \in Jobs, i # k, req'[i] = req'[k],
                        pc'[i] \in Inserting, pc'[k] \in Inserting
                 PROVE  ins'[i] \cap ins'[k] = {}
      BY DEF Exclusive
    <2>1. CASE i # j /\ k # j
      BY <2>1 DEF IInv, Exclusive
    <2>2. CASE i = j \/ k = j
      BY <2>2
    <2> QED BY <2>1, <2>2
  <1>4. Owners'
    <2> SUFFICES ASSUME NEW r \in Runs, NEW t \in Selectable, NEW c \in Customers,
                        record[r][t][c] # NoJob
                 PROVE  /\ req'[record[r][t][c]] = [run |-> r, target |-> t]
                        /\ pc'[record[r][t][c]] \notin Before
      BY DEF Owners
    <2>1. record[r][t][c] \in Jobs
      BY <1>1 DEF TypeOK
    <2>2. /\ req[record[r][t][c]] = [run |-> r, target |-> t]
          /\ pc[record[r][t][c]] \notin Before
      BY DEF IInv, Owners
    <2> QED BY <2>1, <2>2
  <1>5. OutboxMatchesRecords'
    BY DEF IInv, OutboxMatchesRecords
  <1> QED BY <1>1, <1>2, <1>3, <1>4, <1>5 DEF IInv, Mine

\* An exception or a crash drops the open transaction and what it had inserted.
LEMMA FaultStep ==
  ASSUME IInv, [Next]_vars, NEW j \in Jobs, CallRaises(j) \/ Crash(j)
  PROVE  IInv'
  <1> USE DEF Calls, CsvTry, OutboxTxn, Inserting, Before, Ended
  <1>1. Mine(j) /\ TypeOK
    BY DEF IInv, Mine
  <1>2. /\ pc[j] \in Calls /\ Rollback(j)
        /\ UNCHANGED << req, rows, job, record, outbox, artifact >>
    BY DEF CallRaises, Crash, stored
  <1>3. pc' = [pc EXCEPT ![j] = pc'[j]] /\ pc'[j] \in {Handler(pc[j]), "crashed"}
    BY <1>1 DEF CallRaises, Crash, Raise, Goto, TypeOK
  <1>4. Handler(pc[j]) \in {"failing", "outbox_failing", "raised"}
        /\ (Handler(pc[j]) = "failing" => pc[j] \in CsvTry)
        /\ (Handler(pc[j]) = "outbox_failing" => pc[j] \in OutboxTxn)
    BY DEF Handler
  <1>5. DeliveredBy(j)' = DeliveredBy(j) /\ Target(j)' = Target(j) /\ Run(j)' = Run(j)
    BY <1>2 DEF DeliveredBy, Run, Target
  <1>6. Mine(j)'
    BY <1>1, <1>2, <1>3, <1>4, <1>5 DEF Mine, PathOK, LoopOK, RowOK, FileOK, Delivers, CountsOK
  <1>7. \A k \in Jobs \ {j} :
          /\ pc'[k] = pc[k] /\ req'[k] = req[k] /\ rows'[k] = rows[k]
          /\ todo'[k] = todo[k] /\ ins'[k] = ins[k] /\ recs'[k] = recs[k]
    BY <1>1, <1>2, <1>3 DEF TypeOK, Rollback
  <1> QED BY <1>2, <1>3, <1>4, <1>6, <1>7, LocalStep

\* Nothing is recorded as delivered by an execution that has not committed.
LEMMA BeforeOwnsNothing ==
  ASSUME IInv, NEW j \in Jobs, pc[j] \in Before
  PROVE  \A r \in Runs, t \in Selectable, c \in Customers : record[r][t][c] # j
  BY JobsAssumption DEF IInv, Owners

LEMMA BeginStep ==
  ASSUME IInv, [Next]_vars, NEW j \in Jobs, Begin(j)
  PROVE  IInv'
  <1> USE DEF Calls, CsvTry, OutboxTxn, Inserting, Before, Ended
  <1>1. Mine(j) /\ TypeOK /\ TypeOK'
    BY TypeStep DEF IInv, Mine
  <1>2. /\ pc[j] = "idle" /\ UNCHANGED << rows, todo, ins, recs >>
        /\ UNCHANGED << job, record, outbox, artifact >>
    BY DEF Begin, stored
  <1>3. /\ pc' = [pc EXCEPT ![j] = pc'[j]] /\ pc'[j] \in {"fetching", "raised"}
        /\ \A k \in Jobs \ {j} : req'[k] = req[k]
    BY <1>1 DEF Begin, Goto, TypeOK
  <1>4. req'[j] \in [run : Runs, target : Selectable]
    BY <1>1, RunsAssumption DEF TypeOK
  <1>5. DeliveredBy(j)' = {}
    BY <1>2, <1>4, BeforeOwnsNothing DEF DeliveredBy, Run, Target
  <1>6. job[j] = NoRow /\ ~Delivers(j)'
    BY <1>1, <1>2 DEF Mine, RowOK, Delivers, NoRow
  <1>7. Mine(j)'
    BY <1>1, <1>2, <1>3, <1>5, <1>6 DEF Mine, PathOK, LoopOK, RowOK, FileOK
  <1>8. \A k \in Jobs \ {j} :
          /\ pc'[k] = pc[k] /\ req'[k] = req[k] /\ rows'[k] = rows[k]
          /\ todo'[k] = todo[k] /\ ins'[k] = ins[k] /\ recs'[k] = recs[k]
    BY <1>1, <1>2, <1>3 DEF TypeOK
  <1> QED BY <1>2, <1>3, <1>7, <1>8, LocalStep

LEMMA FetchStep ==
  ASSUME IInv, [Next]_vars, NEW j \in Jobs, FetchStagedRows(j)
  PROVE  IInv'
  <1> USE DEF Calls, CsvTry, OutboxTxn, Inserting, Before, Ended
  <1>1. Mine(j) /\ TypeOK /\ Snapshot
    BY DEF IInv, Mine
  <1> DEFINE S == staging[Run(j)]
  <1>2. /\ pc[j] = "fetching" /\ UNCHANGED << req, ins, recs >>
        /\ UNCHANGED << job, record, outbox, artifact >>
        /\ rows' = [rows EXCEPT ![j] = S] /\ todo' = [todo EXCEPT ![j] = S]
        /\ pc' = [pc EXCEPT ![j] = pc'[j]]
        /\ Target(j) = Csv => pc'[j] = "creating"
        /\ Target(j) # Csv /\ S = {} => pc'[j] = "committing"
        /\ Target(j) # Csv /\ S # {} => pc'[j] = "outbox_inserting"
    BY <1>1 DEF FetchStagedRows, Goto, TypeOK, stored
  <1>3. rows'[j] = S /\ todo'[j] = S /\ ins[j] = {} /\ recs[j] = {}
    BY <1>1, <1>2 DEF Snapshot, TypeOK
  <1>4. Target(j)' = Target(j) /\ Run(j)' = Run(j) /\ DeliveredBy(j)' = DeliveredBy(j)
        /\ KeyTable(j)' = KeyTable(j) /\ Target(j) \in {Csv, Outbox}
    BY <1>1, <1>2 DEF DeliveredBy, KeyTable, Run, Target, TypeOK, Selectable
  <1>5. job[j] = NoRow /\ ~Delivers(j)'
    BY <1>1, <1>2 DEF Mine, RowOK, Delivers, NoRow
  <1> HIDE DEF S
  <1>6. Mine(j)'
    <2>1. CASE pc'[j] = "creating" /\ Target(j) = Csv
      BY <1>1, <1>2, <1>3, <1>4, <1>5, <2>1 DEF Mine, PathOK, LoopOK, RowOK, FileOK
    <2>2. CASE pc'[j] = "committing" /\ Target(j) = Outbox /\ S = {}
      BY <1>1, <1>2, <1>3, <1>4, <1>5, <2>2 DEF Mine, PathOK, LoopOK, RowOK, FileOK
    <2>3. CASE pc'[j] = "outbox_inserting" /\ Target(j) = Outbox /\ S # {}
      BY <1>1, <1>2, <1>3, <1>4, <1>5, <2>3 DEF Mine, PathOK, LoopOK, RowOK, FileOK
    <2> QED BY <1>2, <1>4, <2>1, <2>2, <2>3
  <1>7. \A k \in Jobs \ {j} :
          /\ pc'[k] = pc[k] /\ req'[k] = req[k] /\ rows'[k] = rows[k]
          /\ todo'[k] = todo[k] /\ ins'[k] = ins[k] /\ recs'[k] = recs[k]
    BY <1>1, <1>2 DEF TypeOK
  <1> QED BY <1>2, <1>3, <1>6, <1>7, LocalStep

\* An insert waits for the open transactions of its key, so it never takes a
\* row that one of them may still commit.
LEMMA InsertStep ==
  ASSUME IInv, [Next]_vars, NEW j \in Jobs, InsertRow(j)
  PROVE  IInv'
  <1> USE DEF Calls, CsvTry, OutboxTxn, Inserting, Before, Ended
  <1>1. Mine(j) /\ TypeOK
    BY DEF IInv, Mine
  <1>2. /\ pc[j] \in {"csv_inserting", "outbox_inserting"} /\ UNCHANGED << pc, req, rows, recs >>
        /\ UNCHANGED << job, record, outbox, artifact >>
    BY DEF InsertRow, stored
  <1>3. PICK c \in NextRows(todo[j]) :
          /\ ~Blocked(j, c)
          /\ todo' = [todo EXCEPT ![j] = @ \ {c}]
          /\ ins' = [ins EXCEPT ![j] = IF KeyTable(j)[c] = NoJob THEN @ \cup {c} ELSE @]
    BY DEF InsertRow
  <1>4. /\ todo'[j] = todo[j] \ {c}
        /\ ins'[j] = IF KeyTable(j)[c] = NoJob THEN ins[j] \cup {c} ELSE ins[j]
    BY <1>1, <1>3 DEF TypeOK
  <1>5. Target(j)' = Target(j) /\ Run(j)' = Run(j) /\ DeliveredBy(j)' = DeliveredBy(j)
        /\ KeyTable(j)' = KeyTable(j) /\ Delivers(j)' = Delivers(j)
    BY <1>2 DEF DeliveredBy, KeyTable, Run, Target, Delivers
  <1>6. PathOK(j)' /\ RowOK(j)' /\ FileOK(j)'
    BY <1>1, <1>2, <1>5 DEF Mine, PathOK, RowOK, FileOK, CountsOK
  <1>7. LoopOK(j)'
    BY <1>1, <1>2, <1>4, <1>5 DEF Mine, LoopOK
  <1>8. \A k \in Jobs \ {j} :
          /\ pc'[k] = pc[k] /\ req'[k] = req[k] /\ rows'[k] = rows[k]
          /\ todo'[k] = todo[k] /\ ins'[k] = ins[k] /\ recs'[k] = recs[k]
    BY <1>1, <1>2, <1>3 DEF TypeOK
  <1>9. \A k \in Jobs \ {j} :
          req'[k] = req'[j] /\ pc[k] \in Inserting => ins'[j] \cap ins[k] = {}
    <2> SUFFICES ASSUME NEW k \in Jobs \ {j}, req[k] = req[j], pc[k] \in Inserting
                 PROVE  ins'[j] \cap ins[k] = {}
      BY <1>2
    <2>1. ins[j] \cap ins[k] = {}
      BY <1>2 DEF IInv, Exclusive
    <2>2. c \notin ins[k]
      BY <1>3 DEF Blocked, Holds
    <2> QED BY <1>4, <2>1, <2>2
  <1> QED BY <1>2, <1>6, <1>7, <1>8, <1>9, LocalStep DEF Mine

\* The two counts that the code compares are always equal: the customers whose
\* outbox row is new have no delivery record either.
LEMMA RecordsFollowOutbox ==
  ASSUME IInv, NEW j \in Jobs, pc[j] = "recording"
  PROVE  {c \in ins[j] : record[Run(j)][Outbox][c] = NoJob} = ins[j]
  <1>1. PathOK(j) /\ LoopOK(j) /\ TypeOK /\ OutboxMatchesRecords
    BY DEF IInv
  <1>2. Target(j) = Outbox /\ Run(j) \in Runs
    BY <1>1, RunsAssumption DEF PathOK, OutboxTxn, TypeOK, Run
  <1>3. \A c \in ins[j] : outbox[Run(j)][c] = NoJob
    BY <1>1, <1>2 DEF LoopOK, Inserting, OutboxTxn, KeyTable
  <1> QED BY <1>1, <1>2, <1>3 DEF OutboxMatchesRecords

LEMMA InsertRecordsStep ==
  ASSUME IInv, [Next]_vars, NEW j \in Jobs, InsertRecords(j)
  PROVE  IInv'
  <1> USE DEF Calls, CsvTry, OutboxTxn, Inserting, Before, Ended
  <1>1. Mine(j) /\ TypeOK
    BY DEF IInv, Mine
  <1>2. /\ pc[j] = "recording" /\ UNCHANGED << req, rows, todo, ins >>
        /\ UNCHANGED << job, record, outbox, artifact >>
        /\ recs' = [recs EXCEPT ![j] = ins[j]] /\ pc' = [pc EXCEPT ![j] = "committing"]
    <2> DEFINE fresh == {c \in ins[j] : record[Run(j)][Outbox][c] = NoJob}
    <2>1. pc[j] = "recording" /\ UNCHANGED << req, rows, job, record, outbox, artifact >>
      BY DEF InsertRecords, stored
    <2>2. fresh = ins[j]
      BY <2>1, RecordsFollowOutbox
    <2>3. /\ recs' = [recs EXCEPT ![j] = fresh] /\ Goto(j, "committing")
          /\ UNCHANGED << todo, ins >>
      BY <2>2 DEF InsertRecords
    <2> QED BY <2>1, <2>2, <2>3 DEF Goto
  <1>3. recs'[j] = ins[j] /\ pc'[j] = "committing"
    BY <1>1, <1>2 DEF TypeOK
  <1>4. Target(j)' = Target(j) /\ Run(j)' = Run(j) /\ DeliveredBy(j)' = DeliveredBy(j)
        /\ KeyTable(j)' = KeyTable(j) /\ Delivers(j)' = Delivers(j)
    BY <1>2 DEF DeliveredBy, KeyTable, Run, Target, Delivers
  <1>5. Mine(j)'
    BY <1>1, <1>2, <1>3, <1>4 DEF Mine, PathOK, LoopOK, RowOK, FileOK, CountsOK
  <1>6. \A k \in Jobs \ {j} :
          /\ pc'[k] = pc[k] /\ req'[k] = req[k] /\ rows'[k] = rows[k]
          /\ todo'[k] = todo[k] /\ ins'[k] = ins[k] /\ recs'[k] = recs[k]
    BY <1>1, <1>2 DEF TypeOK
  <1>7. \A k \in Jobs \ {j} :
          req'[k] = req'[j] /\ pc[k] \in Inserting => ins'[j] \cap ins[k] = {}
    BY <1>2 DEF IInv, Exclusive
  <1> QED BY <1>2, <1>5, <1>6, <1>7, LocalStep

\* The commit of j adds the rows that its insert loop has inserted.
Recorded(j) ==
  \A r \in Runs, t \in Selectable, c \in Customers :
    record'[r][t][c] = IF r = Run(j) /\ t = Target(j) /\ c \in ins[j]
                       THEN j ELSE record[r][t][c]

LEMMA KeyTableIsRecord ==
  ASSUME TypeOK, OutboxMatchesRecords, NEW k \in Jobs
  PROVE  KeyTable(k) = record[Run(k)][Target(k)] /\ Run(k) \in Runs /\ Target(k) \in Selectable
  <1>1. Run(k) \in Runs /\ Target(k) \in Selectable
    BY RunsAssumption DEF TypeOK, Run, Target
  <1> QED BY <1>1 DEF OutboxMatchesRecords, KeyTable, Selectable

\* What a commit inserts was free until then, and what others have is left.
LEMMA CommitFacts ==
  ASSUME IInv, NEW j \in Jobs, pc[j] \in {"csv_inserting", "committing"}, Recorded(j),
         UNCHANGED req
  PROVE  /\ \A r \in Runs, t \in Selectable, c \in Customers :
              record[r][t][c] # NoJob => record'[r][t][c] = record[r][t][c]
         /\ DeliveredBy(j)' = ins[j]
         /\ \A k \in Jobs \ {j} : DeliveredBy(k)' = DeliveredBy(k)
  <1>1. TypeOK /\ OutboxMatchesRecords /\ LoopOK(j) /\ ins[j] \subseteq Customers
    BY DEF IInv, TypeOK
  <1>2. \A c \in ins[j] : record[Run(j)][Target(j)][c] = NoJob
    BY <1>1, KeyTableIsRecord DEF LoopOK, Inserting, OutboxTxn
  <1>3. \A c \in Customers : record[Run(j)][Target(j)][c] # j
    BY <1>1, KeyTableIsRecord, BeforeOwnsNothing DEF Before, OutboxTxn
  <1>4. \A r \in Runs, t \in Selectable, c \in Customers :
          record[r][t][c] # NoJob => record'[r][t][c] = record[r][t][c]
    BY <1>2 DEF Recorded
  <1>5. DeliveredBy(j)' = ins[j]
    <2>1. \A c \in Customers : record'[Run(j)][Target(j)][c] = j <=> c \in ins[j]
      BY <1>1, <1>3, KeyTableIsRecord DEF Recorded
    <2> QED BY <1>1, <2>1 DEF DeliveredBy, Run, Target
  <1>6. ASSUME NEW k \in Jobs \ {j} PROVE DeliveredBy(k)' = DeliveredBy(k)
    <2>1. \A c \in Customers : record'[Run(k)][Target(k)][c] = k
                               <=> record[Run(k)][Target(k)][c] = k
      BY <1>1, <1>2, <1>6, KeyTableIsRecord, JobsAssumption DEF Recorded
    <2> QED BY <2>1 DEF DeliveredBy, Run, Target
  <1> QED BY <1>4, <1>5, <1>6

LEMMA RequestFields ==
  ASSUME TypeOK, NEW k \in Jobs
  PROVE  req[k] = [run |-> Run(k), target |-> Target(k)]
  <1>1. req[k] \in [run : StagingRuns, target : Selectable]
    BY DEF TypeOK
  <1> QED BY <1>1 DEF Run, Target

LEMMA CommitStep ==
  ASSUME IInv, [Next]_vars, NEW j \in Jobs, pc[j] \in {"csv_inserting", "committing"},
         Recorded(j), OutboxMatchesRecords', UNCHANGED local,
         pc' = [pc EXCEPT ![j] = pc'[j]], pc'[j] \notin Before,
         \A k \in Jobs \ {j} : job'[k] = job[k] /\ artifact'[k] = artifact[k],
         Mine(j)'
  PROVE  IInv'
  <1> USE DEF OutboxTxn, Inserting, Before
  <1>1. TypeOK' /\ Snapshot' /\ TypeOK
    BY TypeStep, SnapshotStep DEF IInv
  <1>2. /\ \A r \in Runs, t \in Selectable, c \in Customers :
              record[r][t][c] # NoJob => record'[r][t][c] = record[r][t][c]
        /\ \A k \in Jobs \ {j} : DeliveredBy(k)' = DeliveredBy(k)
    BY CommitFacts DEF local
  <1>3. ASSUME NEW k \in Jobs, k # j PROVE Mine(k)'
    <2>1. /\ Run(k)' = Run(k) /\ Target(k)' = Target(k) /\ pc'[k] = pc[k] /\ job'[k] = job[k]
          /\ rows'[k] = rows[k] /\ todo'[k] = todo[k] /\ ins'[k] = ins[k]
          /\ recs'[k] = recs[k] /\ artifact'[k] = artifact[k] /\ rows[k] \subseteq Customers
          /\ ins[k] \subseteq Customers
      BY <1>1, <1>3 DEF local, Run, Target, TypeOK
    <2>2. /\ KeyTable(k) = record[Run(k)][Target(k)]
          /\ KeyTable(k)' = record'[Run(k)][Target(k)]
          /\ Run(k) \in Runs /\ Target(k) \in Selectable
      <3>1. OutboxMatchesRecords
        BY DEF IInv
      <3>2. KeyTable(k)' = record'[Run(k)][Target(k)]
        BY <1>1, <2>1, RunsAssumption DEF KeyTable, OutboxMatchesRecords, TypeOK, Run, Target, Selectable
      <3> QED BY <1>1, <3>1, <3>2, KeyTableIsRecord
    <2>3. Mine(k) /\ DeliveredBy(k)' = DeliveredBy(k) /\ Delivers(k)' = Delivers(k)
      BY <1>2, <1>3, <2>1 DEF IInv, Mine, Delivers
    <2>4. \A c \in Customers : record[Run(k)][Target(k)][c] # NoJob
                                => record'[Run(k)][Target(k)][c] # NoJob
      BY <1>2, <2>2
    <2>5. pc[k] \in Inserting => \A c \in ins[k] : KeyTable(k)'[c] = NoJob
      <3> SUFFICES ASSUME pc[k] \in Inserting, NEW c \in ins[k] PROVE KeyTable(k)'[c] = NoJob
        OBVIOUS
      <3>1. record[Run(k)][Target(k)][c] = NoJob
        BY <2>2, <2>3 DEF Mine, LoopOK
      <3>2. ~(Run(k) = Run(j) /\ Target(k) = Target(j) /\ c \in ins[j])
        <4>1. Run(k) = Run(j) /\ Target(k) = Target(j) => req[k] = req[j]
          BY <1>1, RequestFields
        <4> QED BY <1>3, <4>1 DEF IInv, Exclusive
      <3> QED BY <2>1, <2>2, <3>1, <3>2 DEF Recorded
    <2>6. PathOK(k)' /\ FileOK(k)'
      BY <2>1, <2>3 DEF Mine, PathOK, FileOK
    <2>7. RowOK(k)'
      BY <2>1, <2>3, <2>4 DEF Mine, RowOK, CountsOK
    <2>8. LoopOK(k)'
      <3>1. pc[k] \in {"completing", "final_logging"} =>
              \A c \in rows[k] : record'[Run(k)][Csv][c] # NoJob
        BY <2>1, <2>3, <2>4 DEF Mine, LoopOK, PathOK, CsvTry
      <3> QED BY <2>1, <2>2, <2>3, <2>4, <2>5, <3>1 DEF Mine, LoopOK
    <2> QED BY <2>6, <2>7, <2>8 DEF Mine
  <1>4. Exclusive'
    BY <1>1 DEF IInv, Exclusive, TypeOK, local
  <1>5. Owners'
    <2> SUFFICES ASSUME NEW r \in Runs, NEW t \in Selectable, NEW c \in Customers,
                        record'[r][t][c] # NoJob
                 PROVE  /\ req[record'[r][t][c]] = [run |-> r, target |-> t]
                        /\ pc'[record'[r][t][c]] \notin Before
      BY DEF Owners, local
    <2>1. CASE record'[r][t][c] = record[r][t][c]
      <3>1. record[r][t][c] \in Jobs
        BY <1>1, <2>1 DEF TypeOK
      <3>2. /\ req[record[r][t][c]] = [run |-> r, target |-> t]
            /\ pc[record[r][t][c]] \notin Before
        BY <2>1 DEF IInv, Owners
      <3> QED BY <1>1, <2>1, <3>1, <3>2 DEF TypeOK
    <2>2. CASE record'[r][t][c] = j /\ r = Run(j) /\ t = Target(j)
      BY <1>1, <2>2, RequestFields DEF TypeOK
    <2> QED BY <2>1, <2>2 DEF Recorded
  <1> QED BY <1>1, <1>3, <1>4, <1>5 DEF IInv, Mine

\* Either commit adds the inserted rows to the delivery records and nothing else.
LEMMA CommitIsRecorded ==
  ASSUME IInv, NEW j \in Jobs, CommitRecords(j) \/ CommitOutbox(j)
  PROVE  /\ pc[j] \in {"csv_inserting", "committing"} /\ todo[j] = {} /\ UNCHANGED local
         /\ Run(j) \in Runs /\ Recorded(j)
  <1> USE DEF CsvTry, OutboxTxn, Inserting
  <1>1. PathOK(j) /\ LoopOK(j) /\ TypeOK /\ Run(j) \in Runs
    BY KeyTableIsRecord DEF IInv
  <1>2. CASE CommitRecords(j)
    <2>1. /\ pc[j] = "csv_inserting" /\ todo[j] = {} /\ UNCHANGED local
          /\ record' = [record EXCEPT ![Run(j)][Csv] = Own(@, ins[j], j)]
      BY <1>2 DEF CommitRecords
    <2>2. Target(j) = Csv
      BY <1>1, <2>1 DEF PathOK
    <2> QED BY <1>1, <2>1, <2>2 DEF Recorded, Own, TypeOK, Selectable
  <1>3. CASE CommitOutbox(j)
    <2>1. /\ pc[j] = "committing" /\ UNCHANGED local
          /\ record' = [record EXCEPT ![Run(j)][Outbox] = Own(@, recs[j], j)]
      BY <1>3 DEF CommitOutbox
    <2>2. Target(j) = Outbox /\ recs[j] = ins[j] /\ todo[j] = {}
      BY <1>1, <2>1 DEF PathOK, LoopOK
    <2> QED BY <1>1, <2>1, <2>2 DEF Recorded, Own, TypeOK, Selectable
  <1> QED BY <1>2, <1>3

LEMMA CommitRecordsStep ==
  ASSUME IInv, [Next]_vars, NEW j \in Jobs, CommitRecords(j)
  PROVE  IInv'
  <1> USE DEF Calls, CsvTry, OutboxTxn, Inserting, Before, Ended
  <1>1. Mine(j) /\ TypeOK /\ Snapshot /\ Run(j) \in Runs
    BY KeyTableIsRecord DEF IInv, Mine
  <1>2. /\ pc[j] = "csv_inserting" /\ todo[j] = {} /\ UNCHANGED local
        /\ UNCHANGED << job, outbox, artifact >> /\ Returns(j, "completing")
        /\ record' = [record EXCEPT ![Run(j)][Csv] = Own(@, ins[j], j)]
    BY DEF CommitRecords
  <1>3. pc' = [pc EXCEPT ![j] = pc'[j]] /\ pc'[j] \in {"completing", "failing"}
    BY <1>1, <1>2, Returned DEF Handler
  <1>4. Target(j) = Csv
    BY <1>1, <1>2 DEF Mine, PathOK
  <1>5. Recorded(j) /\ \A r \in Runs : record'[r][Outbox] = record[r][Outbox]
    BY <1>1, <1>2, CommitIsRecorded DEF TypeOK, Selectable
  <1>6. OutboxMatchesRecords'
    BY <1>2, <1>5 DEF IInv, OutboxMatchesRecords
  <1>7. DeliveredBy(j)' = ins[j]
    BY <1>2, <1>5, CommitFacts DEF local
  <1>8. \A c \in rows[j] : record'[Run(j)][Csv][c] # NoJob
    <2> SUFFICES ASSUME NEW c \in rows[j] PROVE record'[Run(j)][Csv][c] # NoJob
      OBVIOUS
    <2>1. c \in Customers /\ Csv \in Selectable
      BY <1>1 DEF TypeOK, Selectable
    <2>2. c \in ins[j] \/ record[Run(j)][Csv][c] # NoJob
      BY <1>1, <1>2, <1>4 DEF Mine, LoopOK, KeyTable
    <2> QED BY <1>1, <1>4, <1>5, <2>1, <2>2, JobsAssumption DEF Recorded
  <1>9. /\ Target(j)' = Csv /\ Run(j)' = Run(j) /\ Delivers(j)' = Delivers(j)
        /\ ins[j] \subseteq rows[j] /\ rows'[j] = rows[j] /\ ins'[j] = ins[j]
        /\ recs'[j] = recs[j] /\ artifact'[j] = artifact[j] /\ job'[j] = job[j]
    BY <1>1, <1>2, <1>4 DEF Delivers, Run, Target, local, Snapshot
  <1>10. Mine(j)'
    BY <1>1, <1>2, <1>3, <1>7, <1>8, <1>9 DEF Mine, PathOK, LoopOK, RowOK, FileOK, Delivers
  <1> QED BY <1>2, <1>3, <1>5, <1>6, <1>10, CommitStep

LEMMA CommitOutboxStep ==
  ASSUME IInv, [Next]_vars, NEW j \in Jobs, CommitOutbox(j)
  PROVE  IInv'
  <1> USE DEF Calls, CsvTry, OutboxTxn, Inserting, Before, Ended
  <1>1. Mine(j) /\ TypeOK /\ Snapshot /\ Run(j) \in Runs /\ OutboxMatchesRecords
    BY KeyTableIsRecord DEF IInv, Mine
  <1>2. /\ pc[j] = "committing" /\ UNCHANGED local /\ UNCHANGED artifact /\ Returns(j, "done")
        /\ job' = [job EXCEPT ![j] =
             [status |-> FinalStatus(j),
              source |-> Cardinality(rows[j]), materialized |-> Cardinality(rows[j]),
              delivered |-> Cardinality(recs[j]), skipped |-> RowsSkipped(j)]]
        /\ outbox' = [outbox EXCEPT ![Run(j)] = Own(@, ins[j], j)]
        /\ record' = [record EXCEPT ![Run(j)][Outbox] = Own(@, recs[j], j)]
    BY DEF CommitOutbox, SetJob
  <1>3. pc' = [pc EXCEPT ![j] = pc'[j]] /\ pc'[j] \in {"done", "outbox_failing"}
    BY <1>1, <1>2, Returned DEF Handler
  <1>4. Target(j) = Outbox /\ recs[j] = ins[j] /\ todo[j] = {}
    BY <1>1, <1>2 DEF Mine, PathOK, LoopOK
  <1>5. Recorded(j)
    BY CommitIsRecorded
  <1>6. OutboxMatchesRecords'
    <2> SUFFICES ASSUME NEW r \in Runs PROVE outbox'[r] = record'[r][Outbox]
      BY DEF OutboxMatchesRecords
    <2>1. outbox[r] = record[r][Outbox]
      BY <1>1 DEF OutboxMatchesRecords
    <2>2. CASE r = Run(j)
      BY <1>1, <1>2, <1>4, <2>1, <2>2 DEF TypeOK, Selectable
    <2>3. CASE r # Run(j)
      BY <1>1, <1>2, <2>1, <2>3 DEF TypeOK, Selectable
    <2> QED BY <2>2, <2>3
  <1>7. DeliveredBy(j)' = ins[j]
    BY <1>2, <1>5, CommitFacts DEF local
  <1>8. \A c \in rows[j] : record'[Run(j)][Outbox][c] # NoJob
    <2> SUFFICES ASSUME NEW c \in rows[j] PROVE record'[Run(j)][Outbox][c] # NoJob
      OBVIOUS
    <2>1. c \in Customers /\ Outbox \in Selectable
      BY <1>1 DEF TypeOK, Selectable
    <2>2. c \in ins[j] \/ record[Run(j)][Outbox][c] # NoJob
      BY <1>1, <1>2, <1>4, KeyTableIsRecord DEF Mine, LoopOK
    <2> QED BY <1>1, <1>4, <1>5, <2>1, <2>2, JobsAssumption DEF Recorded
  <1>9. /\ job'[j].status = FinalStatus(j) /\ job'[j].delivered = Cardinality(ins[j])
        /\ job'[j].skipped = RowsSkipped(j) /\ job'[j].source = Cardinality(rows[j])
        /\ \A k \in Jobs \ {j} : job'[k] = job[k]
    BY <1>1, <1>2, <1>4 DEF TypeOK
  <1>10. /\ Target(j)' = Outbox /\ Run(j)' = Run(j)
         /\ ins[j] \subseteq rows[j] /\ rows'[j] = rows[j] /\ ins'[j] = ins[j]
    BY <1>1, <1>2, <1>4 DEF Run, Target, local, Snapshot
  <1>11. rows[j] # {} => CountsOK(j)'
    <2>1. IsFiniteSet(ins[j])
      BY <1>1, CustomersAssumption, FS_Subset DEF TypeOK
    <2>2. /\ Cardinality(ins[j]) \in Nat /\ Cardinality(rows[j]) \in Nat
          /\ Cardinality(ins[j]) = 0 <=> ins[j] = {}
      BY <1>1, <2>1, CountType, FS_EmptySet
    <2>3. rows[j] # {} => (FinalStatus(j) = "delivered" <=> ins[j] # {})
      BY DEF FinalStatus
    <2> QED BY <1>7, <1>9, <2>2, <2>3 DEF CountsOK, RowsSkipped
  <1>12. Delivers(j)' => rows[j] # {}
    BY <1>9 DEF Delivers, FinalStatus
  <1>13. Mine(j)'
    BY <1>1, <1>3, <1>8, <1>10, <1>11, <1>12 DEF Mine, PathOK, LoopOK, RowOK, FileOK
  <1> QED BY <1>2, <1>3, <1>5, <1>6, <1>9, <1>13, CommitStep

LEMMA SourceStep ==
  ASSUME IInv, [Next]_vars,
         (\E r \in Runs : Audit(r) \/ Export(r)) \/ UNCHANGED vars
  PROVE  IInv'
  <1>1. UNCHANGED << pc, job, record, outbox, artifact >> /\ UNCHANGED local
    BY DEF Audit, Export, vars, local, stored
  <1>2. TypeOK' /\ Snapshot'
    BY TypeStep, SnapshotStep DEF IInv
  <1>3. \A k \in Jobs : Mine(k)'
    BY <1>1, OthersKept DEF IInv, Mine, local
  <1>4. Exclusive' /\ Owners' /\ OutboxMatchesRecords'
    BY <1>1 DEF IInv, Exclusive, Owners, OutboxMatchesRecords, local
  <1> QED BY <1>2, <1>3, <1>4 DEF IInv, Mine

LEMMA InductiveStep == IInv /\ [Next]_vars => IInv'
  <1> SUFFICES ASSUME IInv, [Next]_vars PROVE IInv'
    OBVIOUS
  <1>1. CASE (\E r \in Runs : Audit(r) \/ Export(r)) \/ UNCHANGED vars
    BY <1>1, SourceStep
  <1>2. ASSUME NEW j \in Jobs, Begin(j) \/ CallRaises(j) \/ Crash(j) PROVE IInv'
    BY <1>2, BeginStep, FaultStep
  <1>3. ASSUME NEW j \in Jobs, FetchStagedRows(j) \/ InsertRow(j) PROVE IInv'
    BY <1>3, FetchStep, InsertStep
  <1>4. ASSUME NEW j \in Jobs, CsvStep(j) PROVE IInv'
    BY <1>4, CsvQuietStep, MaterializeStep, CompleteStep, CommitRecordsStep DEF CsvStep
  <1>5. ASSUME NEW j \in Jobs, OutboxStep(j) PROVE IInv'
    BY <1>5, OutboxQuietStep, InsertRecordsStep, CommitOutboxStep DEF OutboxStep
  <1> QED BY <1>1, <1>2, <1>3, <1>4, <1>5 DEF Next, Step

THEOREM Invariance == Spec => []IInv
  BY InitInductive, InductiveStep, PTL DEF Spec

-----------------------------------------------------------------------------
(* What delivery guarantees                                                *)

\* For any number of rivals, retries and faults, a job that says delivered or
\* skipped_conflict leaves nobody of the staged audience without a record.
THEOREM NobodyLeftOut == Spec => []FinishedJobLeavesNobodyOut
  <1>1. IInv => FinishedJobLeavesNobodyOut
    BY DEF IInv, RowOK, Snapshot, FinishedJobLeavesNobodyOut
  <1> QED BY <1>1, Invariance, PTL

\* The counts a finished job reports are those of the records it owns.
THEOREM CountsAreTrue == Spec => []CountsMatchRecords
  <1>1. IInv => CountsMatchRecords
    BY DEF IInv, RowOK, CountsOK, CountsMatchRecords
  <1> QED BY <1>1, Invariance, PTL

\* Outbox rows and delivery records never diverge, whatever fails when.
THEOREM OutboxAndRecordsAgree == Spec => []OutboxMatchesRecords
  <1>1. IInv => OutboxMatchesRecords
    BY DEF IInv
  <1> QED BY <1>1, Invariance, PTL

\* A CSV job has no delivery record for a customer who is not in its file.
THEOREM FileCoversRecords == Spec => []ArtifactCoversRecords
  <1>1. IInv => ArtifactCoversRecords
    BY DEF IInv, FileOK, ArtifactCoversRecords
  <1> QED BY <1>1, Invariance, PTL

\* materialize_outbox_delivery: the atomic path inserts a record for every outbox
\* row it has inserted, so that delivery_store.py:974, which raises when the two
\* numbers differ, is never reached.
THEOREM OutboxRowsGetRecords ==
  Spec => [](\A j \in Jobs : pc[j] = "recording" =>
               {c \in ins[j] : record[Run(j)][Outbox][c] = NoJob} = ins[j])
  <1>1. IInv => \A j \in Jobs : pc[j] = "recording" =>
                  {c \in ins[j] : record[Run(j)][Outbox][c] = NoJob} = ins[j]
    BY RecordsFollowOutbox
  <1> QED BY <1>1, Invariance, PTL

\* No step of any execution takes over or withdraws a delivery record.
THEOREM RecordsStay == Spec => RecordsAreKept
  <1> DEFINE Kept == \A r \in Runs, t \in Selectable, c \in Customers :
                       record[r][t][c] # NoJob => record'[r][t][c] = record[r][t][c]
  <1>1. IInv /\ [Next]_vars => [Kept]_vars
    <2> SUFFICES ASSUME IInv, [Next]_vars PROVE Kept
      OBVIOUS
    <2>1. CASE UNCHANGED record
      BY <2>1
    <2>2. ASSUME NEW j \in Jobs, CommitRecords(j) \/ CommitOutbox(j) PROVE Kept
      BY <2>2, CommitIsRecorded, CommitFacts DEF local
    <2> QED
      BY <2>1, <2>2 DEF Next, vars, Audit, Export, Begin, Step, FetchStagedRows, InsertRow,
         CsvStep, OutboxStep, CreateDeliveryJob, LogPending, SkipNoSourceRows, LogSkipped,
         MaterializeCsv, MarkMaterialized, LogMaterialized, CompleteJob, LogFinal, FailJob,
         LogFailed, LogAndReturn, CompleteDeliveryJob, OutboxRowsInserted, InsertRecords,
         RecordOutboxFailure, CallRaises, Crash, stored
  <1> QED BY <1>1, Invariance, PTL DEF Spec, RecordsAreKept

-----------------------------------------------------------------------------
(* Waiting                                                                 *)

\* An insert loop has inserted only rows that come before those it has left.
InOrder == \A j \in Jobs : \A c \in ins[j], d \in todo[j] : c < d

LEMMA InOrderStep ==
  ASSUME TypeOK, Snapshot, InOrder, [Next]_vars
  PROVE  InOrder'
  <1>1. CASE UNCHANGED << todo, ins >>
    BY <1>1 DEF InOrder
  <1>2. ASSUME NEW j \in Jobs, FetchStagedRows(j) PROVE InOrder'
    <2>1. ins[j] = {} /\ UNCHANGED ins
      BY <1>2 DEF FetchStagedRows, Snapshot
    <2>2. \A k \in Jobs \ {j} : todo'[k] = todo[k]
      BY <1>2 DEF FetchStagedRows, TypeOK
    <2> QED BY <2>1, <2>2 DEF InOrder
  <1>3. ASSUME NEW j \in Jobs, InsertRow(j) PROVE InOrder'
    <2>1. PICK c \in NextRows(todo[j]) :
            /\ todo' = [todo EXCEPT ![j] = @ \ {c}]
            /\ ins' = [ins EXCEPT ![j] = IF KeyTable(j)[c] = NoJob THEN @ \cup {c} ELSE @]
      BY <1>3 DEF InsertRow
    <2>2. todo'[j] = todo[j] \ {c} /\ ins'[j] \subseteq ins[j] \cup {c}
      BY <2>1 DEF TypeOK
    <2>3. \A k \in Jobs \ {j} : todo'[k] = todo[k] /\ ins'[k] = ins[k]
      BY <2>1 DEF TypeOK
    <2>4. todo[j] \subseteq Int /\ c \in todo[j] /\ \A d \in todo[j] : c <= d
      BY CustomersAssumption DEF NextRows, TypeOK
    <2>5. \A d \in todo[j] \ {c} : c < d
      BY <2>4
    <2> QED BY <2>2, <2>3, <2>5 DEF InOrder
  <1>4. ASSUME NEW j \in Jobs, Rollback(j) PROVE InOrder'
    BY <1>4 DEF Rollback, InOrder, TypeOK
  <1>5. ASSUME NEW j \in Jobs, CsvStep(j) PROVE InOrder'
    BY <1>1, <1>5 DEF CsvStep, CreateDeliveryJob, LogPending, SkipNoSourceRows, LogSkipped,
       MaterializeCsv, MarkMaterialized, LogMaterialized, CommitRecords, CompleteJob, LogFinal,
       FailJob, LogFailed, LogAndReturn, CompleteDeliveryJob, local
  <1>6. ASSUME NEW j \in Jobs, OutboxStep(j) PROVE InOrder'
    BY <1>1, <1>4, <1>6 DEF OutboxStep, OutboxRowsInserted, InsertRecords, CommitOutbox,
       RecordOutboxFailure, local
  <1>7. ASSUME NEW j \in Jobs, Begin(j) \/ CallRaises(j) \/ Crash(j) PROVE InOrder'
    BY <1>1, <1>4, <1>7 DEF Begin, CallRaises, Crash
  <1>8. ASSUME NEW r \in Runs, Audit(r) \/ Export(r) PROVE InOrder'
    BY <1>1, <1>8 DEF Audit, Export, local
  <1> QED BY <1>1, <1>2, <1>3, <1>5, <1>6, <1>7, <1>8 DEF Next, Step, vars

Less == {p \in Nat \X Nat : p[1] < p[2]}

\* Of some customers, one is last: the one with the fewest customers above it.
LEMMA LastCustomer ==
  ASSUME NEW N \in SUBSET Customers, N # {}
  PROVE  \E m \in N : \A d \in N : d <= m
  <1> DEFINE Above(x) == {d \in Customers : d > x}
             T == {Cardinality(Above(x)) : x \in N}
  <1>1. \A x : IsFiniteSet(Above(x))
    BY CustomersAssumption, FS_Subset
  <1>2. T \subseteq Nat /\ T # {}
    BY <1>1, FS_CardinalityType
  <1>3. IsWellFoundedOn(Less, Nat)
    BY NatLessThanWellFounded, Zenon DEF OpToRel, Less
  <1> HIDE DEF T
  <1>4. PICK n \in T : \A k \in T : << k, n >> \notin Less
    BY <1>2, <1>3, WFMin
  <1>5. PICK m \in N : n = Cardinality(Above(m))
    BY DEF T
  <1>6. ASSUME NEW d \in N, ~(d <= m) PROVE FALSE
    <2>1. d \in Int /\ m \in Int /\ d > m
      BY <1>6, CustomersAssumption
    <2>2. Above(d) \subseteq Above(m)
      <3> SUFFICES ASSUME NEW e \in Customers, e > d PROVE e > m
        OBVIOUS
      <3>1. e \in Int
        BY CustomersAssumption
      <3> QED BY <2>1, <3>1
    <2>3. d \in Above(m) /\ d \notin Above(d)
      BY <2>1
    <2>4. Cardinality(Above(d)) <= Cardinality(Above(m))
          /\ Cardinality(Above(d)) # Cardinality(Above(m))
      BY <1>1, <2>2, <2>3, FS_Subset
    <2>5. Cardinality(Above(d)) \in T
      BY DEF T
    <2>6. Cardinality(Above(d)) \in Nat /\ n \in Nat
      BY <1>2, <2>5
    <2> HIDE DEF Above
    <2>7. << Cardinality(Above(d)), n >> \in Less
      BY <1>5, <2>4, <2>6 DEF Less
    <2> QED BY <1>4, <2>5, <2>7
  <1> QED BY <1>6

\* insert_delivery_records and the outbox inserts: since every loop visits the
\* customers in the order of sort_staged_rows, no circle of executions waits
\* for one another's rows, however many there are.
THEOREM NobodyWaitsInACircle == Spec => []NoWaitCycle
  <1>1. TypeOK /\ InOrder => NoWaitCycle
    <2> SUFFICES ASSUME TypeOK, InOrder, NEW S \in SUBSET Jobs, S # {},
                        \A j \in S : \E k \in S : WaitsFor(j, k)
                 PROVE  FALSE
      BY DEF NoWaitCycle
    <2> DEFINE N == {c \in Customers : \E j \in S : c \in NextRows(todo[j])}
    <2>1. N # {}
      BY DEF WaitsFor, NextRows, TypeOK
    <2>2. PICK m \in N : \A d \in N : d <= m
      BY <2>1, LastCustomer
    <2>3. PICK j \in S : m \in NextRows(todo[j])
      OBVIOUS
    <2>4. PICK k \in S : WaitsFor(j, k)
      OBVIOUS
    <2>5. PICK c \in NextRows(todo[j]) : c \in ins[k]
      BY <2>4 DEF WaitsFor, Holds
    <2>6. m <= c /\ c <= m /\ c \in Int /\ m \in Int
      BY <2>3, <2>5, CustomersAssumption DEF NextRows, TypeOK
    <2>7. PICK d \in NextRows(todo[k]) : TRUE
      BY DEF WaitsFor
    <2>8. d \in todo[k] /\ d \in Customers
      BY <2>7 DEF NextRows, TypeOK
    <2>9. c < d
      BY <2>5, <2>8 DEF InOrder
    <2>10. d <= m
      BY <2>2, <2>7, <2>8
    <2> QED BY <2>6, <2>8, <2>9, <2>10, CustomersAssumption
  <1>2. Init => InOrder
    BY DEF Init, InOrder
  <1>3. IInv /\ InOrder /\ [Next]_vars => InOrder'
    BY InOrderStep DEF IInv
  <1>4. IInv => TypeOK
    BY DEF IInv
  <1> QED BY <1>1, <1>2, <1>3, <1>4, Invariance, PTL DEF Spec

-----------------------------------------------------------------------------
(* The attempt trail                                                       *)

EndsIn(j, status) == attempts[j] # << >> /\ LastAttempt(j) = status

\* A CSV execution has stored the status that it logs before it is done; the
\* trail of an outbox job always ends in the status of its row.
TrailOK(j) ==
  /\ Target(j) = Outbox /\ job[j] # NoRow => EndsIn(j, job[j].status)
  /\ pc[j] = "skip_logging" => job[j].status = "skipped_no_source_rows"
  /\ pc[j] = "final_logging" => job[j].status = FinalStatus(j)
  /\ pc[j] = "done" => EndsIn(j, job[j].status)

TrailInv == \A j \in Jobs : TrailOK(j)

LEMMA InitTrail == Init => TrailInv
  BY DEF Init, TrailInv, TrailOK

\* What the invariant says of k is about k's own variables and rows.
LEMMA TrailKept ==
  ASSUME NEW k \in Jobs, TrailOK(k), req'[k] = req[k], rows'[k] = rows[k], ins'[k] = ins[k],
         job'[k] = job[k], attempts'[k] = attempts[k],
         pc'[k] \in {"skip_logging", "final_logging", "done"} => pc'[k] = pc[k]
  PROVE  TrailOK(k)'
  BY DEF TrailOK, EndsIn, LastAttempt, FinalStatus, Target

OthersSame(j) == \A k \in Jobs \ {j} :
  /\ pc'[k] = pc[k] /\ req'[k] = req[k] /\ rows'[k] = rows[k] /\ ins'[k] = ins[k]
  /\ job'[k] = job[k] /\ attempts'[k] = attempts[k]

LEMMA LastOfAppend ==
  ASSUME NEW S, NEW s \in Seq(S), NEW e
  PROVE  /\ Append(s, e) # << >>
         /\ Append(s, e)[Len(Append(s, e))] = e
  OBVIOUS

LEMMA TrailStep ==
  ASSUME TrailInv, NEW j \in Jobs, OthersSame(j), TrailOK(j)'
  PROVE  TrailInv'
  <1>1. \A k \in Jobs \ {j} : TrailOK(k)'
    BY TrailKept DEF TrailInv, OthersSame
  <1> QED BY <1>1 DEF TrailInv

\* A return or a raised exception, seen from everybody else.
LEMMA ReturnOthers ==
  ASSUME TypeOK, NEW j \in Jobs, NEW next, Returns(j, next),
         UNCHANGED local,
         \A k \in Jobs \ {j} : job'[k] = job[k] /\ attempts'[k] = attempts[k]
  PROVE  OthersSame(j) /\ pc'[j] \in {next, Handler(pc[j])}
  <1>1. pc' = [pc EXCEPT ![j] = pc'[j]] /\ pc'[j] \in {next, Handler(pc[j])}
    BY Returned
  <1>2. \A k \in Jobs \ {j} : pc'[k] = pc[k]
    BY <1>1 DEF TypeOK
  <1> QED BY <1>1, <1>2 DEF OthersSame, local

\* The steps of the CSV path that log no status or log one that is not the last.
LEMMA TrailCsv ==
  ASSUME IInv, TrailInv, NEW j \in Jobs,
         CreateDeliveryJob(j) \/ LogPending(j) \/ MaterializeCsv(j) \/ MarkMaterialized(j)
           \/ LogMaterialized(j) \/ CommitRecords(j) \/ FailJob(j) \/ LogFailed(j)
  PROVE  TrailInv'
  <1>1. TypeOK /\ PathOK(j)
    BY DEF IInv
  <1>2. /\ UNCHANGED local
        /\ \A k \in Jobs \ {j} : job'[k] = job[k] /\ attempts'[k] = attempts[k]
    BY <1>1 DEF CreateDeliveryJob, LogPending, MaterializeCsv, MarkMaterialized, LogMaterialized,
       CommitRecords, FailJob, LogFailed, LogAndReturn, CompleteDeliveryJob, SetJob, Log, TypeOK
  <1>3. PICK next \in {"logging", "skipping", "materializing", "marking", "mark_logging",
                       "csv_inserting", "completing", "fail_logging", "raised"} :
          Returns(j, next) \/ Raise(j)
    BY DEF CreateDeliveryJob, LogPending, MaterializeCsv, MarkMaterialized, LogMaterialized,
       CommitRecords, FailJob, LogFailed, LogAndReturn
  <1>4. Returns(j, next)
    BY <1>3 DEF Returns
  <1>5. OthersSame(j) /\ pc'[j] \in {next, Handler(pc[j])}
    BY <1>1, <1>2, <1>4, ReturnOthers
  <1>6. pc'[j] \notin {"skip_logging", "final_logging", "done"}
    BY <1>5 DEF Handler
  <1>7. Target(j)' = Csv
    BY <1>1, <1>2 DEF CreateDeliveryJob, LogPending, MaterializeCsv, MarkMaterialized,
       LogMaterialized, CommitRecords, FailJob, LogFailed, PathOK, CsvTry, Target, local
  <1> QED BY <1>5, <1>6, <1>7, TrailStep DEF TrailOK

\* The steps that store the last status of a job and log it.
LEMMA TrailLast ==
  ASSUME IInv, TrailInv, NEW j \in Jobs,
         SkipNoSourceRows(j) \/ LogSkipped(j) \/ CompleteJob(j) \/ LogFinal(j)
  PROVE  TrailInv'
  <1>1. TypeOK /\ PathOK(j) /\ TrailOK(j)
    BY DEF IInv, TrailInv
  <1>2. /\ UNCHANGED local
        /\ \A k \in Jobs \ {j} : job'[k] = job[k] /\ attempts'[k] = attempts[k]
    BY <1>1 DEF SkipNoSourceRows, LogSkipped, CompleteJob, LogFinal, LogAndReturn,
       CompleteDeliveryJob, SetJob, Log, TypeOK
  <1>3. Target(j)' = Csv /\ FinalStatus(j)' = FinalStatus(j)
    BY <1>1, <1>2 DEF SkipNoSourceRows, LogSkipped, CompleteJob, LogFinal, PathOK, CsvTry,
       Target, FinalStatus, local
  <1>4. CASE SkipNoSourceRows(j)
    <2>1. OthersSame(j) /\ pc'[j] \in {"skip_logging", "raised"}
      BY <1>1, <1>2, <1>4, ReturnOthers
         DEF SkipNoSourceRows, Handler, CsvTry, OutboxTxn
    <2>2. job'[j].status = "skipped_no_source_rows"
      BY <1>1, <1>4 DEF SkipNoSourceRows, CompleteDeliveryJob, SetJob, TypeOK, JobRow
    <2> QED BY <1>3, <2>1, <2>2, TrailStep DEF TrailOK
  <1>5. CASE CompleteJob(j)
    <2>1. OthersSame(j) /\ pc'[j] \in {"final_logging", "failing"}
      BY <1>1, <1>2, <1>5, ReturnOthers DEF CompleteJob, Handler, CsvTry, OutboxTxn
    <2>2. job'[j].status = FinalStatus(j)
      BY <1>1, <1>5 DEF CompleteJob, CompleteDeliveryJob, SetJob, TypeOK, JobRow
    <2> QED BY <1>3, <2>1, <2>2, TrailStep DEF TrailOK
  <1>6. ASSUME NEW status \in Statuses, LogAndReturn(j, status, "done"), job[j].status = status,
               Handler(pc[j]) \in {"raised", "failing"}
        PROVE  TrailInv'
    <2>1. OthersSame(j) /\ pc'[j] \in {"done", "raised", "failing"}
      BY <1>1, <1>2, <1>6, ReturnOthers DEF LogAndReturn
    <2>2. attempts'[j] = Append(attempts[j], status) /\ attempts[j] \in Seq(Statuses)
      BY <1>1, <1>6 DEF LogAndReturn, Log, TypeOK
    <2>3. EndsIn(j, job[j].status)' /\ job' = job
      BY <1>6, <2>2, LastOfAppend DEF EndsIn, LastAttempt, LogAndReturn
    <2> QED BY <1>3, <2>1, <2>3, TrailStep DEF TrailOK
  <1>7. CASE LogSkipped(j)
    BY <1>1, <1>6, <1>7 DEF LogSkipped, TrailOK, Statuses, Handler, CsvTry, OutboxTxn
  <1>8. CASE LogFinal(j)
    BY <1>1, <1>6, <1>8, FinalStatusType DEF LogFinal, TrailOK, Handler, CsvTry, OutboxTxn
  <1> QED BY <1>4, <1>5, <1>7, <1>8

LEMMA TrailOutbox ==
  ASSUME IInv, TrailInv, NEW j \in Jobs, CommitOutbox(j) \/ RecordOutboxFailure(j)
  PROVE  TrailInv'
  <1>1. TypeOK /\ PathOK(j) /\ TrailOK(j)
    BY DEF IInv, TrailInv
  <1>2. /\ UNCHANGED local
        /\ \A k \in Jobs \ {j} : job'[k] = job[k] /\ attempts'[k] = attempts[k]
    BY <1>1 DEF CommitOutbox, RecordOutboxFailure, SetJob, Log, TypeOK
  <1>3. CASE CommitOutbox(j)
    <2>1. OthersSame(j) /\ pc'[j] \in {"done", "outbox_failing"}
      BY <1>1, <1>2, <1>3, ReturnOthers DEF CommitOutbox, Handler, CsvTry, OutboxTxn
    <2>2. job'[j].status = FinalStatus(j) /\ attempts'[j] = OutboxTrail(j)
      BY <1>1, <1>3 DEF CommitOutbox, SetJob, TypeOK
    <2>3. OutboxTrail(j) # << >> /\ OutboxTrail(j)[Len(OutboxTrail(j))] = FinalStatus(j)
      BY DEF OutboxTrail, FinalStatus
    <2>4. EndsIn(j, job[j].status)'
      BY <2>2, <2>3 DEF EndsIn, LastAttempt
    <2> QED BY <2>1, <2>4, TrailStep DEF TrailOK
  <1>4. CASE RecordOutboxFailure(j)
    <2>1. OthersSame(j) /\ pc'[j] = "raised"
      BY <1>1, <1>2, <1>4, ReturnOthers DEF RecordOutboxFailure, Handler, CsvTry, OutboxTxn
    <2>2. job'[j].status = "failed"
      BY <1>1, <1>4 DEF RecordOutboxFailure, SetJob, TypeOK, JobRow, NoRow
    <2>3. attempts'[j] = Append(attempts[j], "failed") /\ attempts[j] \in Seq(Statuses)
      BY <1>1, <1>4 DEF RecordOutboxFailure, Log, TypeOK
    <2>4. EndsIn(j, job[j].status)'
      BY <2>2, <2>3, LastOfAppend DEF EndsIn, LastAttempt
    <2> QED BY <2>1, <2>4, TrailStep DEF TrailOK
  <1> QED BY <1>3, <1>4

\* A step of j that stores and logs nothing.
LEMMA TrailQuiet ==
  ASSUME IInv, TrailInv, NEW j \in Jobs,
         Begin(j) \/ FetchStagedRows(j) \/ InsertRow(j) \/ OutboxRowsInserted(j)
           \/ InsertRecords(j) \/ CallRaises(j) \/ Crash(j)
  PROVE  TrailInv'
  <1>1. TypeOK /\ RowOK(j) /\ TrailOK(j)
    BY DEF IInv, TrailInv
  <1>2. UNCHANGED << job, attempts >>
    BY DEF Begin, FetchStagedRows, InsertRow, OutboxRowsInserted, InsertRecords, CallRaises,
       Crash, stored
  <1>3. \A k \in Jobs \ {j} :
          pc'[k] = pc[k] /\ req'[k] = req[k] /\ rows'[k] = rows[k] /\ ins'[k] = ins[k]
    BY <1>1 DEF Begin, FetchStagedRows, InsertRow, OutboxRowsInserted, InsertRecords, CallRaises,
       Crash, Raise, Goto, Rollback, local, TypeOK
  <1>4. pc'[j] \notin {"skip_logging", "final_logging", "done"}
    BY <1>1 DEF Begin, FetchStagedRows, InsertRow, OutboxRowsInserted, InsertRecords, CallRaises,
       Crash, Raise, Goto, Handler, TypeOK
  <1>5. job[j] = NoRow \/ req'[j] = req[j]
    BY <1>1 DEF Begin, FetchStagedRows, InsertRow, OutboxRowsInserted, InsertRecords, CallRaises,
       Crash, local, RowOK
  <1>6. TrailOK(j)'
    BY <1>1, <1>2, <1>4, <1>5 DEF TrailOK, EndsIn, LastAttempt, Target
  <1> QED BY <1>2, <1>3, <1>6, TrailStep DEF OthersSame

LEMMA TrailNext ==
  ASSUME IInv, TrailInv, [Next]_vars
  PROVE  TrailInv'
  <1>1. ASSUME NEW r \in Runs, Audit(r) \/ Export(r) PROVE TrailInv'
    BY <1>1, TrailKept DEF Audit, Export, local, stored, TrailInv
  <1>2. CASE UNCHANGED vars
    BY <1>2, TrailKept DEF vars, local, stored, TrailInv
  <1>3. ASSUME NEW j \in Jobs, Begin(j) \/ CallRaises(j) \/ Crash(j) PROVE TrailInv'
    BY <1>3, TrailQuiet
  <1>4. ASSUME NEW j \in Jobs, Step(j) PROVE TrailInv'
    BY <1>4, TrailQuiet, TrailCsv, TrailLast, TrailOutbox DEF Step, CsvStep, OutboxStep
  <1> QED BY <1>1, <1>2, <1>3, <1>4 DEF Next

\* _log_attempt and record_outbox_delivery_failure: the last attempt of an
\* outbox job, and of a CSV execution that returned, is the status of its row,
\* through lost acknowledgements and failures.
THEOREM TrailTellsStatus == Spec => []TrailEndsInStatus
  <1>1. TrailInv => TrailEndsInStatus
    BY DEF TrailInv, TrailOK, EndsIn, TrailEndsInStatus
  <1>2. IInv /\ TrailInv /\ [Next]_vars => TrailInv'
    BY TrailNext
  <1> QED BY <1>1, <1>2, InitTrail, Invariance, PTL DEF Spec

-----------------------------------------------------------------------------
(* Refinement of the ledger                                                *)

LEMMA VerdictValues ==
  ASSUME NEW j
  PROVE  /\ Verdict(j) \in Ledger!Verdicts
         /\ Verdict(j) = "complete" <=> Delivers(j)
         /\ job[j].status \in {"absent", "pending", "materialized"} => Verdict(j) = "open"
         /\ job[j].status = "skipped_no_source_rows" => Verdict(j) = "empty"
         /\ job[j].status = "failed" => Verdict(j) = "failed"
  BY DEF Verdict, Delivers, Ledger!Verdicts

\* One step of j is one report of the ledger: the verdict is kept, becomes
\* failed, or leaves open for what the tables after the step bear out.
LEMMA WorkStep ==
  ASSUME NEW j \in Jobs, TypeOK,
         Ledger!Take(j, Run(j), Target(j)) \/ UNCHANGED record,
         UNCHANGED staging, \A k \in Jobs \ {j} : job'[k] = job[k],
         \/ Verdict(j)' = Verdict(j)
         \/ Verdict(j)' = "failed"
         \/ Verdict(j) = "open" /\ Verdict(j)' = "empty"
         \/ /\ Verdict(j) = "open" /\ Verdict(j)' = "complete"
            /\ \A c \in staging[Run(j)] : record'[Run(j)][Target(j)][c] # NoJob
  PROVE  [Ledger!Next]_(Ledger!vars)
  <1>1. Run(j) \in Runs /\ Target(j) \in Selectable
    BY RunsAssumption DEF TypeOK, Run, Target
  <1>2. [k \in Jobs |-> Verdict(k)]' = [[k \in Jobs |-> Verdict(k)] EXCEPT ![j] = Verdict(j)']
    BY DEF Verdict, Delivers
  <1>3. Verdict(j)' \in Ledger!Verdicts
    BY DEF Verdict, Delivers, Ledger!Verdicts
  <1>4. Ledger!Report(j, Run(j), Target(j))
    BY <1>2, <1>3 DEF Ledger!Report, Ledger!WholeAudienceOwned
  <1>5. Ledger!Work(j, Run(j), Target(j))
    BY <1>4 DEF Ledger!Work
  <1> QED BY <1>1, <1>5 DEF Ledger!Next

\* An execution whose job row and delivery records stay as they are stutters.
LEMMA Stutter ==
  ASSUME UNCHANGED << staging, record, job >>
  PROVE  UNCHANGED Ledger!vars
  BY DEF Ledger!vars, Verdict, Delivers

LEMMA CommitTakes ==
  ASSUME IInv, NEW j \in Jobs, CommitRecords(j) \/ CommitOutbox(j)
  PROVE  /\ Ledger!Take(j, Run(j), Target(j)) \/ UNCHANGED record
         /\ rows[j] # {} =>
              \A c \in staging[Run(j)] : record'[Run(j)][Target(j)][c] # NoJob
  <1>1. /\ pc[j] \in {"csv_inserting", "committing"} /\ todo[j] = {} /\ UNCHANGED local
        /\ Run(j) \in Runs /\ Recorded(j) /\ Target(j) \in Selectable
        /\ KeyTable(j) = record[Run(j)][Target(j)]
    BY CommitIsRecorded, KeyTableIsRecord DEF IInv
  <1>2. /\ \A c \in ins[j] : record[Run(j)][Target(j)][c] = NoJob
        /\ \A c \in rows[j] \ ins[j] : record[Run(j)][Target(j)][c] # NoJob
    BY <1>1 DEF IInv, LoopOK, Inserting, OutboxTxn
  <1>3. TypeOK /\ ins[j] \subseteq rows[j] /\ rows[j] \subseteq Customers
        /\ (rows[j] = {} \/ rows[j] = staging[Run(j)])
    BY DEF IInv, Snapshot, TypeOK
  <1>4. record' = [record EXCEPT ![Run(j)][Target(j)] = Own(@, ins[j], j)]
    <2>1. CASE CommitRecords(j)
      <3>1. Target(j) = Csv
        BY <1>1, <2>1 DEF CommitRecords, IInv, PathOK, CsvTry
      <3> QED BY <2>1, <3>1 DEF CommitRecords
    <2>2. CASE CommitOutbox(j)
      <3>1. Target(j) = Outbox /\ recs[j] = ins[j]
        BY <2>2 DEF CommitOutbox, IInv, PathOK, LoopOK, OutboxTxn
      <3> QED BY <2>2, <3>1 DEF CommitOutbox
    <2> QED BY <2>1, <2>2
  <1> DEFINE old == record[Run(j)][Target(j)]
  <1>5. CASE rows[j] = staging[Run(j)]
    <2>1. Own(old, ins[j], j) = [c \in Customers |->
            IF c \in staging[Run(j)] /\ old[c] = NoJob THEN j ELSE old[c]]
      BY <1>2, <1>3, <1>5 DEF Own
    <2>2. Ledger!Take(j, Run(j), Target(j))
      BY <1>4, <2>1 DEF Ledger!Take
    <2>3. \A c \in rows[j] : record'[Run(j)][Target(j)][c] # NoJob
      BY <1>1, <1>2, <1>3, JobsAssumption DEF Recorded
    <2> QED BY <1>5, <2>2, <2>3
  <1>6. CASE rows[j] = {}
    <2>1. Own(old, ins[j], j) = old
      BY <1>1, <1>3, <1>6 DEF Own, TypeOK
    <2> QED BY <1>4, <1>6, <2>1, <1>1, <1>3 DEF TypeOK
  <1> QED BY <1>3, <1>5, <1>6

LEMMA LedgerStep ==
  IInv /\ [Next]_vars => [Ledger!Next]_(Ledger!vars)
  <1> SUFFICES ASSUME IInv, [Next]_vars PROVE [Ledger!Next]_(Ledger!vars)
    OBVIOUS
  <1> DEFINE Goal == [Ledger!Next]_(Ledger!vars)
  <1>1. TypeOK
    BY DEF IInv
  <1>2. CASE UNCHANGED << staging, record, job >>
    BY <1>2, Stutter
  <1>3. ASSUME NEW r \in Runs, Export(r) PROVE Goal
    <2>1. staging[r] = {} /\ UNCHANGED << record, job >>
      BY <1>3 DEF IInv, Snapshot, Export, stored
    <2>2. Ledger!Stage(r)
      BY <1>3, <2>1 DEF Export, Ledger!Stage, Verdict, Delivers
    <2> QED BY <1>3, <2>2 DEF Ledger!Next
  <1>4. ASSUME NEW j \in Jobs, UNCHANGED << staging, record >>,
               job' = [job EXCEPT ![j] = job'[j]],
               \/ Verdict(j)' = Verdict(j)
               \/ Verdict(j)' = "failed"
               \/ Verdict(j) = "open" /\ Verdict(j)' = "empty"
               \/ /\ Verdict(j) = "open" /\ Verdict(j)' = "complete"
                  /\ \A c \in staging[Run(j)] : record[Run(j)][Target(j)][c] # NoJob
        PROVE  Goal
    <2>1. \A k \in Jobs \ {j} : job'[k] = job[k]
      BY <1>1, <1>4 DEF TypeOK
    <2> QED BY <1>1, <1>4, <2>1, WorkStep
  <1>5. ASSUME NEW j \in Jobs, CreateDeliveryJob(j) PROVE Goal
    <2>1. /\ job' = [job EXCEPT ![j] = [NoRow EXCEPT !.status = "pending"]]
          /\ job[j] = NoRow /\ UNCHANGED << staging, record >>
      BY <1>5 DEF CreateDeliveryJob, SetJob, IInv, RowOK, source
    <2>2. Verdict(j) = "open" /\ Verdict(j)' = "open" /\ job' = [job EXCEPT ![j] = job'[j]]
      BY <1>1, <2>1 DEF Verdict, Delivers, NoRow, TypeOK
    <2> QED BY <1>4, <2>1, <2>2
  <1>6. ASSUME NEW j \in Jobs, SkipNoSourceRows(j) \/ FailJob(j) \/ RecordOutboxFailure(j)
                                \/ MarkMaterialized(j)
        PROVE  Goal
    <2>1. UNCHANGED << staging, record >> /\ job' = [job EXCEPT ![j] = job'[j]]
      BY <1>1, <1>6 DEF SkipNoSourceRows, FailJob, RecordOutboxFailure, MarkMaterialized,
         CompleteDeliveryJob, SetJob, source, TypeOK
    <2>2. CASE SkipNoSourceRows(j)
      <3>1. job[j].status = "pending" /\ job'[j].status = "skipped_no_source_rows"
        BY <1>1, <2>2 DEF SkipNoSourceRows, CompleteDeliveryJob, SetJob, IInv, RowOK, TypeOK, JobRow
      <3>2. Verdict(j) = "open" /\ Verdict(j)' = "empty"
        BY <3>1 DEF Verdict, Delivers
      <3> QED BY <1>4, <2>1, <3>2
    <2>3. CASE MarkMaterialized(j)
      <3>1. job[j].status = "pending" /\ job'[j].status = "materialized"
        BY <1>1, <2>3 DEF MarkMaterialized, SetJob, IInv, RowOK, TypeOK, JobRow
      <3>2. Verdict(j) = "open" /\ Verdict(j)' = "open"
        BY <3>1 DEF Verdict, Delivers
      <3> QED BY <1>4, <2>1, <3>2
    <2>4. CASE FailJob(j) \/ RecordOutboxFailure(j)
      <3>1. job'[j].status = "failed"
        <4>1. CASE FailJob(j)
          BY <1>1, <4>1 DEF FailJob, CompleteDeliveryJob, SetJob, TypeOK, JobRow
        <4>2. CASE RecordOutboxFailure(j)
          BY <1>1, <4>2 DEF RecordOutboxFailure, SetJob, TypeOK, NoRow, JobRow
        <4> QED BY <2>4, <4>1, <4>2
      <3>2. Verdict(j)' = "failed"
        BY <3>1 DEF Verdict, Delivers
      <3> QED BY <1>4, <2>1, <3>2
    <2> QED BY <1>6, <2>2, <2>3, <2>4
  <1>7. ASSUME NEW j \in Jobs, CompleteJob(j) PROVE Goal
    <2>1. /\ pc[j] = "completing" /\ UNCHANGED << staging, record >>
          /\ job' = [job EXCEPT ![j] = [job[j] EXCEPT !.status = FinalStatus(j),
                     !.delivered = Cardinality(ins[j]), !.skipped = RowsSkipped(j)]]
      BY <1>7 DEF CompleteJob, CompleteDeliveryJob, SetJob, source
    <2>2. /\ job[j].status = "materialized" /\ rows[j] # {} /\ Target(j) = Csv
          /\ \A c \in rows[j] : record[Run(j)][Csv][c] # NoJob
          /\ rows[j] = staging[Run(j)]
      BY <2>1 DEF IInv, RowOK, PathOK, LoopOK, Snapshot, CsvTry
    <2>3. /\ job' = [job EXCEPT ![j] = job'[j]]
          /\ job'[j].status \in {"delivered", "skipped_conflict"}
      BY <1>1, <2>1, <2>2 DEF FinalStatus, TypeOK, JobRow
    <2>4. Verdict(j) = "open" /\ Verdict(j)' = "complete"
      BY <2>2, <2>3 DEF Verdict, Delivers
    <2>5. \A c \in staging[Run(j)] : record[Run(j)][Target(j)][c] # NoJob
      BY <2>2
    <2> HIDE DEF Goal
    <2> QED BY <1>4, <2>1, <2>3, <2>4, <2>5
  <1>8. ASSUME NEW j \in Jobs, CommitRecords(j) PROVE Goal
    <2>1. UNCHANGED << staging, job >>
      BY <1>8 DEF CommitRecords, source
    <2>2. Verdict(j)' = Verdict(j)
      BY <2>1 DEF Verdict, Delivers
    <2> QED BY <1>1, <1>8, <2>1, <2>2, CommitTakes, WorkStep
  <1>9. ASSUME NEW j \in Jobs, CommitOutbox(j) PROVE Goal
    <2>1. /\ pc[j] = "committing" /\ UNCHANGED staging /\ job' = [job EXCEPT ![j] = job'[j]]
          /\ job'[j].status = FinalStatus(j) /\ \A k \in Jobs \ {j} : job'[k] = job[k]
      BY <1>1, <1>9 DEF CommitOutbox, SetJob, source, TypeOK
    <2>2. Verdict(j) = "open"
      BY <2>1 DEF IInv, RowOK, OutboxTxn, NoRow, Verdict, Delivers
    <2>3. rows[j] = {} => Verdict(j)' = "empty"
      BY <2>1 DEF FinalStatus, Verdict, Delivers
    <2>4. rows[j] # {} => Verdict(j)' = "complete"
      BY <2>1 DEF FinalStatus, Verdict, Delivers
    <2> QED BY <1>1, <1>9, <2>1, <2>2, <2>3, <2>4, CommitTakes, WorkStep
  <1>10. ASSUME NEW j \in Jobs, Step(j) PROVE Goal
    <2>1. CASE FetchStagedRows(j) \/ InsertRow(j) \/ OutboxRowsInserted(j) \/ InsertRecords(j)
      BY <1>2, <2>1 DEF FetchStagedRows, InsertRow, OutboxRowsInserted, InsertRecords, source, stored
    <2>2. CASE LogPending(j) \/ LogSkipped(j) \/ LogMaterialized(j) \/ LogFinal(j)
               \/ LogFailed(j) \/ MaterializeCsv(j)
      BY <1>2, <2>2 DEF LogPending, LogSkipped, LogMaterialized, LogFinal, LogFailed,
         LogAndReturn, MaterializeCsv, source
    <2> HIDE DEF Goal
    <2> QED BY <1>10, <1>5, <1>6, <1>7, <1>8, <1>9, <2>1, <2>2 DEF Step, CsvStep, OutboxStep
  <1> QED
    BY <1>2, <1>3, <1>10 DEF Next, vars, Audit, Begin, CallRaises, Crash, source, stored

\* Executions with their faults, rivals and retries implement the ledger that
\* takes, in one step, exactly the customers nobody has delivered yet.
THEOREM ImplementsLedger == Spec => KeepsLedger
  <1>1. Init => Ledger!Init
    BY DEF Init, Ledger!Init, Verdict, Delivers, NoRow
  <1> QED BY <1>1, LedgerStep, Invariance, PTL DEF Spec, KeepsLedger, Ledger!Spec

=============================================================================
