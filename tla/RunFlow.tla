------------------------------ MODULE RunFlow ------------------------------
(***************************************************************************)
(* Audience runs over the shared index (run_flow.py, and the same calls as *)
(* the tasks of audience_engine_dags.py).                                  *)
(*                                                                         *)
(* A run writes the shared embeddings file, builds a collection of its own *)
(* from it, validates and promotes the latest generation, searches through *)
(* the alias, evaluates the policy, commits its audit, exports, delivers   *)
(* and logs.  Runs of the API and of the DAG overlap with each other and   *)
(* with admins that validate, promote and roll back, and with make: all of *)
(* them are callers of IndexLifecycle, whose actions are the index part of *)
(* a run.                                                                  *)
(*                                                                         *)
(* Delivery is taken from its ledger (DeliveryLedger): a call delivers the *)
(* whole staged audience or raises.                                        *)
(***************************************************************************)
EXTENDS IndexLifecycle

CONSTANTS
  Runs,          \* runs, with their run_id: callers of the index operations
  DagRuns,       \* those of Airflow: no lineage resolution, no failure handler
  StrictRuns,    \* those with explicit *_version_id arguments
  OwnCollection, \* run -> concrete_qdrant_collection of its version bundle
  FlowAlias,     \* QDRANT_ALIAS
  NoRun,         \* no run
  MaxTroubles    \* bound: calls that raise, runs that die and admins' operations

ASSUME RunsAssumption ==
  /\ Runs \subseteq Operators
  /\ NoRun \notin Runs
  /\ DagRuns \cap StrictRuns = {}
ASSUME OwnCollectionAssumption ==
  /\ OwnCollection \in [Runs -> Generations]
  /\ \A r \in Runs : AliasOf[OwnCollection[r]] = FlowAlias
  /\ \A r, s \in Runs : OwnCollection[r] = OwnCollection[s] => r = s

OwnCollections == {OwnCollection[r] : r \in Runs}
ASSUME TroublesAssumption == MaxTroubles \in Nat

VARIABLES
  phase,      \* run -> the part of run_minimal_vertical_slice it is in
  embeddings, \* how much of the embeddings file is there
  opener,     \* the run that opened (and so truncated) it last
  source,     \* generation -> how much of the file it was built from
  promoted,   \* run -> index_meta["collection"]
  searched,   \* run -> the collections its calls through the alias went to
  found,      \* run -> the best its candidates are: none, rejected, approved and
              \* of a profile that exports to the staging table
  audited,    \* run -> the collection in its audit row
  staged,     \* runs with rows in audience_export_staging
  delivered,  \* run -> the verdict of its delivery
  events,     \* the run events log
  alone,      \* runs that nobody has overlapped with (a history variable)
  troubles    \* calls outside the index operations that raised, runs that died,
              \* and operations for admins so far

files == << embeddings, opener, source >>
found_vars == << promoted, searched, found >>
records == << audited, staged, delivered, events >>
flow == << files, found_vars, records, alone >>
allVars == << vars, phase, flow, troubles >>

-----------------------------------------------------------------------------
(* Types *)

IndexPhases == {"building", "validating", "promoting"}
Body == {"configuring", "preparing", "embedding", "querying", "searching",
         "auditing", "exporting", "delivering", "logging"} \cup IndexPhases
Handlers == {"early_logging", "failing"}
Stopped == {"returned", "raised", "crashed"}
Active == Body \cup Handlers
Sizes == {"none", "partial", "complete"}

FlowTypeOK ==
  /\ TypeOK
  /\ phase \in [Runs -> {"idle"} \cup Active \cup Stopped]
  /\ embeddings \in Sizes
  /\ opener \in Runs \cup {NoRun}
  /\ source \in [Generations -> Sizes]
  /\ promoted \in [Runs -> OrNone]
  /\ searched \in [Runs -> SUBSET Generations]
  /\ found \in [Runs -> {"none", "rejected", "approved"}]
  /\ audited \in [Runs -> OrNone]
  /\ staged \in SUBSET Runs
  /\ delivered \in [Runs -> {"none", "empty", "complete"}]
  /\ events \in SUBSET ((Runs \cup {NoRun}) \X {"ok", "failed"})
  /\ alone \in SUBSET Runs
  /\ troubles \in 0..MaxTroubles
  /\ \A r \in Runs : phase[r] \in Active \ IndexPhases => pc[r] = "idle"

FlowInit ==
  /\ Init
  /\ phase = [r \in Runs |-> "idle"]
  /\ embeddings = "none"
  /\ opener = NoRun
  /\ source = [g \in Generations |-> "none"]
  /\ promoted = [r \in Runs |-> NoGeneration]
  /\ searched = [r \in Runs |-> {}]
  /\ found = [r \in Runs |-> "none"]
  /\ audited = [r \in Runs |-> NoGeneration]
  /\ staged = {}
  /\ delivered = [r \in Runs |-> "none"]
  /\ events = {}
  /\ alone = {}
  /\ troubles = 0

-----------------------------------------------------------------------------
(* How a call of a run ends                                                *)

Enter(r, next) == phase' = [phase EXCEPT ![r] = next]

\* Where an exception goes: before there is a bundle only an event is logged, a
\* DAG task just fails, and what a handler raises ends the run.
Handler(r) ==
  CASE r \in DagRuns               -> "raised"
    [] phase[r] \in Handlers       -> "raised"
    [] phase[r] = "configuring"    -> "early_logging"
    [] OTHER                       -> "failing"

Refuse(r) == Enter(r, Handler(r)) /\ UNCHANGED troubles

Bounded == faults' + troubles <= MaxTroubles

Trouble == faults + troubles < MaxTroubles /\ troubles' = troubles + 1

\* The call returns, or it has taken effect and raises.
ReturnsTo(r, next) ==
  \/ Enter(r, next) /\ UNCHANGED troubles
  \/ Enter(r, Handler(r)) /\ Trouble

-----------------------------------------------------------------------------
(* Configuration, lineage and the shared files                             *)

Running(p) == p \in Runs /\ phase[p] \in Active
Busy(p) == Running(p) \/ pc[p] # "idle"

\* The lone runs that a newcomer leaves alone: those that have ended.
EndedAlone == {r \in alone : phase[r] \in Stopped}

BeginRun(r) ==
  /\ phase[r] = "idle" /\ pc[r] = "idle"
  /\ Enter(r, "configuring")
  /\ alone' = EndedAlone \cup (IF \E p \in Operators : Busy(p) THEN {} ELSE {r})
  /\ UNCHANGED << vars, files, found_vars, records, troubles >>

\* Configuration, version bundle and preflight.
Configure(r) ==
  /\ phase[r] = "configuring"
  /\ Enter(r, "preparing")
  /\ UNCHANGED << vars, flow, troubles >>

\* Lineage (degraded, if it cannot be resolved, but for a strict run), and then
\* the files that all runs share: raw data, feature mart and embeddings.  Opening
\* the last one for writing truncates it.
OpenEmbeddings(r) ==
  /\ phase[r] = "preparing"
  /\ embeddings' = "partial"
  /\ opener' = r
  /\ Enter(r, "embedding")
  /\ UNCHANGED << vars, source, found_vars, records, alone, troubles >>

\* A run that another has truncated the file of writes on at its old offset.  The
\* quality gate that follows notices a broken or empty file, no missing tail.
CloseEmbeddings(r) ==
  /\ phase[r] = "embedding"
  /\ IF opener = r THEN embeddings' = "complete"
                   ELSE embeddings' \in {embeddings, "partial"}
  /\ \/ Enter(r, "building") /\ UNCHANGED troubles
     \/ embeddings' = "partial" /\ Refuse(r)
  /\ UNCHANGED << vars, opener, source, found_vars, records, alone >>

-----------------------------------------------------------------------------
(* The index operations of a run                                           *)

Completes(r, last) == pc[r] = last /\ faults' = faults

\* The operation goes on, its last call returns, it raises, or the caller dies.
Progress(r, last, next) ==
  \/ pc'[r] # "idle" /\ UNCHANGED phase
  \/ pc'[r] = "idle" /\ Completes(r, last) /\ Enter(r, next)
  \/ pc'[r] = "idle" /\ ~ Completes(r, last) /\ Enter(r, Handler(r)) /\ Bounded
  \/ faults' # faults /\ Enter(r, "crashed") /\ Bounded

\* The file is read as a whole before the collection is created.
BuildOwn(r) ==
  /\ phase[r] = "building"
  /\ Build(r)
  /\ IF pc[r] = "idle"
     THEN /\ current'[r] = OwnCollection[r]
          /\ source' = [source EXCEPT ![OwnCollection[r]] = embeddings]
     ELSE UNCHANGED source
  /\ Progress(r, "recording", "validating")
  /\ UNCHANGED << embeddings, opener, found_vars, records, alone, troubles >>

\* Mutant: a validation that fails is not an error.
ValidateLatestUnchecked(r) ==
  /\ phase[r] = "validating"
  /\ Validate(r)
  /\ IF pc'[r] = "idle" THEN Enter(r, "promoting") ELSE UNCHANGED phase
  /\ UNCHANGED << flow, troubles >>

ValidateLatest(r) ==
  /\ phase[r] = "validating"
  /\ Validate(r)
  /\ Progress(r, "validate_marking", "promoting")
  /\ UNCHANGED << flow, troubles >>

\* index_meta: whatever generation was the latest validated one.
PromoteLatest(r) ==
  /\ phase[r] = "promoting"
  /\ Promote(r)
  /\ Progress(r, "promote_auditing", "querying")
  /\ promoted' = IF phase'[r] = "querying" THEN [promoted EXCEPT ![r] = current[r]]
                                           ELSE promoted
  /\ UNCHANGED << files, searched, found, records, alone, troubles >>

IndexCallRaises(r) ==
  /\ phase[r] \in IndexPhases
  /\ CallRaises(r)
  /\ Bounded
  /\ Enter(r, Handler(r)) \/ Enter(r, "crashed")
  /\ UNCHANGED << flow, troubles >>

\* An embeddings file cut by another run cannot be read, or somebody else has
\* validated or promoted the generation this run would take.
NothingToTake(r) ==
  /\ pc[r] = "idle"
  /\ \/ phase[r] = "building" /\ embeddings = "partial"
     \/ phase[r] = "validating" /\ ~ \E g \in Generations : IsLatest(g, "built")
     \/ phase[r] = "promoting" /\ ~ \E g \in Generations : IsLatest(g, "validated")
  /\ Refuse(r)
  /\ UNCHANGED << vars, flow >>

-----------------------------------------------------------------------------
(* Outside of its run a caller serves admins and make                      *)

Errand(p) ==
  /\ ~ Running(p)
  /\ IF pc[p] = "idle"
     THEN Trouble /\ alone' = EndedAlone
     ELSE Bounded /\ UNCHANGED << troubles, alone >>

AdminOperation(p) ==
  /\ Validate(p) \/ Promote(p) \/ Rollback(p) \/ CallRaises(p)
  /\ Errand(p)
  /\ UNCHANGED << phase, files, found_vars, records >>

\* make build-index writes the same file, here in one step, and names the alias
\* of its collection after the embedding version.
MakeBuild(p) ==
  /\ Build(p)
  /\ Errand(p)
  /\ IF pc[p] = "idle"
     THEN /\ current'[p] \notin OwnCollections
          /\ embeddings' = "complete"
          /\ opener' = NoRun
          /\ source' = [source EXCEPT ![current'[p]] = "complete"]
     ELSE UNCHANGED files
  /\ UNCHANGED << phase, found_vars, records >>

-----------------------------------------------------------------------------
(* Retrieval, policy, audit, export, delivery                              *)

Uses(r, g) == searched' = [searched EXCEPT ![r] = @ \cup {g}]

\* Mutant: the alias need not exist.
QueryUnchecked(r) ==
  /\ phase[r] = "querying"
  /\ Uses(r, alias[FlowAlias])
  /\ Enter(r, "searching")
  /\ UNCHANGED << vars, files, promoted, found, records, alone, troubles >>

\* The vector of the query customer is read through the alias, if there is one.
Query(r) ==
  /\ phase[r] = "querying"
  /\ IF alias[FlowAlias] = NoGeneration
     THEN Refuse(r) /\ UNCHANGED searched
     ELSE Uses(r, alias[FlowAlias]) /\ Enter(r, "searching") /\ UNCHANGED troubles
  /\ UNCHANGED << vars, files, promoted, found, records, alone >>

\* The second call through the alias; the policy judges what it finds.
Search(r) ==
  /\ phase[r] = "searching"
  /\ Uses(r, alias[FlowAlias])
  /\ \E best \in {"none", "rejected", "approved"} : found' = [found EXCEPT ![r] = best]
  /\ Enter(r, "auditing")
  /\ UNCHANGED << vars, files, promoted, records, alone, troubles >>

WriteAudit(r) ==
  /\ phase[r] = "auditing"
  /\ audited' = [audited EXCEPT ![r] = promoted[r]]
  /\ ReturnsTo(r, "exporting")
  /\ UNCHANGED << vars, files, found_vars, staged, delivered, events, alone >>

\* Mutant: no decision row follows the swallowed error.
BindingFailsAlways(r) ==
  /\ phase[r] = "auditing"
  /\ Trouble
  /\ Enter(r, IF r \in StrictRuns THEN Handler(r) ELSE "exporting")
  /\ UNCHANGED << vars, flow >>

\* The lineage binding is not inserted.  The error is swallowed unless strict,
\* and the transaction is aborted: the next insert raises, and without one the
\* commit rolls back and returns.
BindingFails(r) ==
  /\ phase[r] = "auditing"
  /\ Trouble
  /\ Enter(r, IF r \in StrictRuns \/ found[r] # "none" THEN Handler(r) ELSE "exporting")
  /\ UNCHANGED << vars, flow >>

\* The approved rows go to the staging table; the policy result is not used again.
Export(r) ==
  /\ phase[r] = "exporting"
  /\ staged' = IF found[r] = "approved" THEN staged \cup {r} ELSE staged
  /\ found' = [found EXCEPT ![r] = "none"]
  /\ ReturnsTo(r, "delivering")
  /\ UNCHANGED << vars, files, promoted, searched, audited, delivered,
                  events, alone >>

\* Mutant: the run need not have an audit row.
DeliverUnaudited(r) ==
  /\ phase[r] = "delivering"
  /\ delivered' = [delivered EXCEPT ![r] = IF r \in staged THEN "complete" ELSE "empty"]
  /\ ReturnsTo(r, "logging")
  /\ UNCHANGED << vars, files, found_vars, audited, staged, events, alone >>

\* execute_delivery_for_run, as DeliveryLedger has it.
Deliver(r) ==
  /\ phase[r] = "delivering"
  /\ IF audited[r] = NoGeneration
     THEN Refuse(r) /\ UNCHANGED delivered
     ELSE /\ delivered' = [delivered EXCEPT ![r] = IF r \in staged THEN "complete" ELSE "empty"]
          /\ ReturnsTo(r, "logging")
  /\ UNCHANGED << vars, files, found_vars, audited, staged, events, alone >>

-----------------------------------------------------------------------------
(* The events log; the summary file, written before it, is left out         *)

LogRun(r) ==
  /\ phase[r] = "logging"
  /\ events' = events \cup {<< r, "ok" >>}
  /\ ReturnsTo(r, "returned")
  /\ UNCHANGED << vars, files, found_vars, audited, staged, delivered, alone >>

\* There is no run_id yet; an event that cannot be logged is given up.
LogEarlyFailure(r) ==
  /\ phase[r] = "early_logging"
  /\ \/ events' = events \cup {<< NoRun, "failed" >>} /\ UNCHANGED troubles
     \/ Trouble /\ UNCHANGED events
  /\ Enter(r, "raised")
  /\ UNCHANGED << vars, files, found_vars, audited, staged, delivered, alone >>

LogFailure(r) ==
  /\ phase[r] = "failing"
  /\ events' = events \cup {<< r, "failed" >>}
  /\ Enter(r, "raised")
  /\ UNCHANGED << vars, files, found_vars, audited, staged, delivered, alone, troubles >>

-----------------------------------------------------------------------------
(* What raises before it takes effect, and what dies                       *)

RunRaises(r) ==
  /\ phase[r] \in Active \ {"early_logging"} /\ pc[r] = "idle"
  /\ Trouble
  /\ Enter(r, Handler(r))
  /\ UNCHANGED << vars, flow >>

RunDies(r) ==
  /\ phase[r] \in Active /\ pc[r] = "idle"
  /\ Trouble
  /\ Enter(r, "crashed")
  /\ UNCHANGED << vars, flow >>

Prepare(r) ==
  \/ BeginRun(r) \/ Configure(r) \/ OpenEmbeddings(r)
  \/ CloseEmbeddings(r)
Index(r) ==
  \/ BuildOwn(r) \/ ValidateLatest(r) \/ PromoteLatest(r)
  \/ IndexCallRaises(r) \/ NothingToTake(r)
Conclude(r) ==
  \/ Query(r) \/ Search(r) \/ WriteAudit(r) \/ BindingFails(r)
  \/ Export(r) \/ Deliver(r) \/ LogRun(r)
Abort(r) ==
  \/ LogEarlyFailure(r) \/ LogFailure(r)
  \/ RunRaises(r) \/ RunDies(r)

FlowNext ==
  \/ \E r \in Runs : Prepare(r) \/ Index(r) \/ Conclude(r) \/ Abort(r)
  \/ \E p \in Operators : AdminOperation(p) \/ MakeBuild(p)

FlowSpec == FlowInit /\ [][FlowNext]_allVars

-----------------------------------------------------------------------------
(* Properties                                                              *)

\* The collections that a run searches or names in its audit row.
Used(r) == searched[r] \cup ({audited[r]} \ {NoGeneration})

\* A run that nothing overlaps promotes, searches and audits the collection it
\* built itself, from its own complete embeddings file, whatever runs and builds
\* before it left behind half done: "latest" then is its own.
LoneRunUsesItsOwnIndex ==
  \A r \in alone :
    /\ Used(r) \subseteq {OwnCollection[r]}
    /\ Used(r) # {} => source[OwnCollection[r]] = "complete"

\* Whoever built, promoted or rolled back meanwhile: every collection that a run
\* searches or names in its audit row holds all of its points and was validated,
\* and what it searches is of the alias of runs.
UsedIndexesAreFit ==
  \A r \in Runs :
    /\ \A g \in Used(r) : /\ collection[g] = "whole"
                         /\ row[g].status \in {"validated", "promoted", "rolled_back"}
    /\ \A g \in searched[r] : AliasOf[g] = FlowAlias

\* No customer of a run is staged for or taken by a delivery unless the audit row
\* of the run has been committed, although the error of the lineage binding is
\* swallowed inside the transaction of that row (docs/AUDIT.md lines 188 to 197).
NothingLeavesUnaudited ==
  \A r \in Runs : r \in staged \/ delivered[r] # "none" => audited[r] # NoGeneration

\* Who reads an ok event finds an audit row and a finished delivery of all that was
\* staged, however the calls before it failed.
OkIsBacked ==
  \A r \in Runs : << r, "ok" >> \in events =>
    /\ audited[r] # NoGeneration
    /\ delivered[r] = IF r \in staged THEN "complete" ELSE "empty"

\* docs/CONTROL_PLANE_V1.md line 72: the Postgres audit tables are the source of
\* truth for the lineage of executed runs, so the generation in an audit row is
\* the one the run has selected its customers from.
AuditNamesSearchedIndex ==
  \A r \in Runs : audited[r] # NoGeneration => searched[r] = {audited[r]}

=============================================================================
