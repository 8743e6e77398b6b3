--------------------------- MODULE IndexLifecycle ---------------------------
(***************************************************************************)
(* Blue/green lifecycle of the retrieval index (qdrant_index.py behind     *)
(* lifecycle_service.py).                                                  *)
(*                                                                         *)
(* A generation is one Qdrant collection with its row in the Postgres      *)
(* table index_generations; an alias of an embedding version points to the *)
(* collection that retrievals use.  build_generation, validate_latest,     *)
(* promote_latest and rollback_latest are called by the admin API, the run *)
(* flow, Airflow and make, on the same two stores and with no lock, so     *)
(* every call to a store is a step of its own.                             *)
(*                                                                         *)
(* The generation of an operation is always the latest created row of a    *)
(* status, over all aliases.  The service's own read of that row before    *)
(* the operation, and the audit rows of failed operations that it is for,  *)
(* are left out: nothing is decided by them.                               *)
(***************************************************************************)
EXTENDS Naturals, Sequences, FiniteSets

CONSTANTS
  Aliases,      \* alias names, one per embedding version and dimension
  Generations,  \* collections; the name of one says its alias
  AliasOf,      \* generation -> alias
  NoGeneration, \* no collection
  Operators,    \* callers: API threads, run flow, Airflow tasks, make
  MaxFaults     \* bound: calls that raise and callers that die

ASSUME AliasAssumption == AliasOf \in [Generations -> Aliases]
ASSUME NoGenerationAssumption == NoGeneration \notin Generations
ASSUME FaultAssumption == MaxFaults \in Nat

VARIABLES
  collection, \* generation -> how much of it Qdrant holds
  row,        \* index_generations, by collection_name
  created,    \* the rows in the order of their created_at
  alias,      \* alias -> the collection it points to
  trail,      \* alias -> target of its latest successful audit row that moved it
  pc,         \* operator -> the next call of its operation
  current,    \* operator -> the collection its operation is about
  previous,   \* operator -> the other collection: previous target, rollback target
  faults      \* faults so far

vars == << collection, row, created, alias, trail, pc, current, previous, faults >>
stores == << collection, row, created, alias, trail >>
local == << current, previous >>

-----------------------------------------------------------------------------
(* Types *)

OrNone == Generations \cup {NoGeneration}

Row == [status : {"absent", "built", "validated", "promoted", "rolled_back"},
        previous : OrNone]
NoRow == [status |-> "absent", previous |-> NoGeneration]

Building    == {"filling", "recording"}
Validating  == {"checking", "validate_marking"}
Promoting   == {"promote_resolving", "promote_switching", "promote_marking",
                "promote_auditing"}
RollingBack == {"rollback_resolving", "rollback_reading", "rollback_switching",
                "rollback_marking", "rollback_auditing"}
Calls == Building \cup Validating \cup Promoting \cup RollingBack

TypeOK ==
  /\ collection \in [Generations -> {"absent", "filling", "short", "whole"}]
  /\ row \in [Generations -> Row]
  /\ created \in Seq(Generations)
  /\ alias \in [Aliases -> OrNone]
  /\ trail \in [Aliases -> OrNone]
  /\ pc \in [Operators -> {"idle"} \cup Calls]
  /\ current \in [Operators -> OrNone]
  /\ previous \in [Operators -> OrNone]
  /\ faults \in 0..MaxFaults
  /\ \A p \in Operators :
       /\ pc[p] \in Calls => current[p] \in Generations
       /\ pc[p] \in {"rollback_switching", "rollback_marking", "rollback_auditing"} =>
            previous[p] \in Generations

Init ==
  /\ collection = [g \in Generations |-> "absent"]
  /\ row = [g \in Generations |-> NoRow]
  /\ created = << >>
  /\ alias = [a \in Aliases |-> NoGeneration]
  /\ trail = [a \in Aliases |-> NoGeneration]
  /\ pc = [p \in Operators |-> "idle"]
  /\ current = [p \in Operators |-> NoGeneration]
  /\ previous = [p \in Operators |-> NoGeneration]
  /\ faults = 0

-----------------------------------------------------------------------------
(* How a call ends: it returns, or its answer is lost and it raises.  An   *)
(* operation that ends takes its local variables with it.                  *)

Goto(p, next) == pc' = [pc EXCEPT ![p] = next]

End(p) ==
  /\ Goto(p, "idle")
  /\ current' = [current EXCEPT ![p] = NoGeneration]
  /\ previous' = [previous EXCEPT ![p] = NoGeneration]

Finish(p) == End(p) /\ UNCHANGED faults

Proceed(p, next) == Goto(p, next) /\ UNCHANGED << local, faults >>

Raise(p) ==
  /\ faults < MaxFaults
  /\ faults' = faults + 1
  /\ End(p)

Returns(p, next) == Proceed(p, next) \/ Raise(p)

Choose(p, g, next) ==
  /\ pc[p] = "idle"
  /\ current' = [current EXCEPT ![p] = g]
  /\ Goto(p, next)
  /\ UNCHANGED << previous, faults >>

\* ORDER BY created_at DESC LIMIT 1 over the rows of a status.
IsLatest(g, status) ==
  \E i \in DOMAIN created :
    /\ created[i] = g
    /\ row[g].status = status
    /\ \A k \in DOMAIN created : k > i => row[created[k]].status # status

SetStatus(g, status) == row' = [row EXCEPT ![g].status = status]

-----------------------------------------------------------------------------
(* build_generation: a new collection, its points in batches, then its row *)

CreateCollection(p) ==
  /\ \E g \in Generations :
       /\ collection[g] = "absent"
       /\ collection' = [collection EXCEPT ![g] = "filling"]
       /\ Choose(p, g, "filling")
  /\ UNCHANGED << row, created, alias, trail >>

\* All batches are upserted; rows with the same customer leave fewer points.
UpsertPoints(p) ==
  /\ pc[p] = "filling"
  /\ \E size \in {"short", "whole"} :
       collection' = [collection EXCEPT ![current[p]] = size]
  /\ Proceed(p, "recording")
  /\ UNCHANGED << row, created, alias, trail >>

RecordGeneration(p) ==
  /\ pc[p] = "recording"
  /\ row' = [row EXCEPT ![current[p]] = [NoRow EXCEPT !.status = "built"]]
  /\ created' = Append(created, current[p])
  /\ Finish(p)
  /\ UNCHANGED << collection, alias, trail >>

-----------------------------------------------------------------------------
(* validate_latest                                                         *)

LoadBuilt(p) ==
  /\ \E g \in Generations : IsLatest(g, "built") /\ Choose(p, g, "checking")
  /\ UNCHANGED stores

\* Mutant: the number of points is not compared with points_count.
CheckNoCount(p) ==
  /\ pc[p] = "checking"
  /\ Proceed(p, "validate_marking")
  /\ UNCHANGED stores

\* The count, the sample query and the norms; the norms come from the shared
\* embeddings file and may fail for any collection.
Check(p) ==
  /\ pc[p] = "checking"
  /\ \/ collection[current[p]] = "whole" /\ Proceed(p, "validate_marking")
     \/ Finish(p)
  /\ UNCHANGED stores

\* UPDATE ... SET status = 'validated', whatever the status is by now.
MarkValidation(p) ==
  /\ pc[p] = "validate_marking"
  /\ SetStatus(current[p], "validated")
  /\ Finish(p)
  /\ UNCHANGED << collection, created, alias, trail >>

-----------------------------------------------------------------------------
(* promote_latest                                                          *)

\* Mutant: any generation that is recorded may be promoted.
LoadValidatedOrBuilt(p) ==
  /\ \E g \in Generations :
       (IsLatest(g, "validated") \/ IsLatest(g, "built")) /\ Choose(p, g, "promote_resolving")
  /\ UNCHANGED stores

LoadValidated(p) ==
  /\ \E g \in Generations : IsLatest(g, "validated") /\ Choose(p, g, "promote_resolving")
  /\ UNCHANGED stores

Own(p) == AliasOf[current[p]]

\* Mutant: the alias is read when it has been switched.
ResolvePreviousLate(p) ==
  /\ pc[p] = "promote_resolving"
  /\ previous' = [previous EXCEPT ![p] = current[p]]
  /\ Goto(p, "promote_switching")
  /\ UNCHANGED << stores, current, faults >>

ResolvePrevious(p) ==
  /\ pc[p] = "promote_resolving"
  /\ previous' = [previous EXCEPT ![p] = alias[Own(p)]]
  /\ Goto(p, "promote_switching")
  /\ UNCHANGED << stores, current, faults >>

SwitchToPromoted(p) ==
  /\ pc[p] = "promote_switching"
  /\ alias' = [alias EXCEPT ![Own(p)] = current[p]]
  /\ Returns(p, "promote_marking")
  /\ UNCHANGED << collection, row, created, trail >>

\* Mutant: the previous target is not stored.
MarkPromotedOnly(p) ==
  /\ pc[p] = "promote_marking"
  /\ SetStatus(current[p], "promoted")
  /\ Returns(p, "promote_auditing")
  /\ UNCHANGED << collection, created, alias, trail >>

MarkPromoted(p) ==
  /\ pc[p] = "promote_marking"
  /\ row' = [row EXCEPT ![current[p]] = [status |-> "promoted", previous |-> previous[p]]]
  /\ Returns(p, "promote_auditing")
  /\ UNCHANGED << collection, created, alias, trail >>

AuditPromotion(p) ==
  /\ pc[p] = "promote_auditing"
  /\ trail' = [trail EXCEPT ![Own(p)] = current[p]]
  /\ Finish(p)
  /\ UNCHANGED << collection, row, created, alias >>

-----------------------------------------------------------------------------
(* rollback_latest: the latest promoted row only says which alias is meant *)

LoadPromoted(p) ==
  /\ \E g \in Generations : IsLatest(g, "promoted") /\ Choose(p, g, "rollback_resolving")
  /\ UNCHANGED stores

\* An alias that points nowhere raises.
ResolveCurrent(p) ==
  /\ pc[p] = "rollback_resolving"
  /\ IF alias[Own(p)] = NoGeneration
     THEN Finish(p)
     ELSE /\ current' = [current EXCEPT ![p] = alias[Own(p)]]
          /\ Goto(p, "rollback_reading")
          /\ UNCHANGED << previous, faults >>
  /\ UNCHANGED stores

\* Mutant: a missing rollback target is not refused.
ReadTargetUnchecked(p) ==
  /\ pc[p] = "rollback_reading"
  /\ previous' = [previous EXCEPT ![p] = row[current[p]].previous]
  /\ Goto(p, "rollback_switching")
  /\ UNCHANGED << stores, current, faults >>

ReadTarget(p) ==
  /\ pc[p] = "rollback_reading"
  /\ IF row[current[p]].previous = NoGeneration
     THEN Finish(p)
     ELSE /\ previous' = [previous EXCEPT ![p] = row[current[p]].previous]
          /\ Goto(p, "rollback_switching")
          /\ UNCHANGED << current, faults >>
  /\ UNCHANGED stores

SwitchBack(p) ==
  /\ pc[p] = "rollback_switching"
  /\ alias' = [alias EXCEPT ![Own(p)] = previous[p]]
  /\ Returns(p, "rollback_marking")
  /\ UNCHANGED << collection, row, created, trail >>

MarkRolledBack(p) ==
  /\ pc[p] = "rollback_marking"
  /\ SetStatus(current[p], "rolled_back")
  /\ Returns(p, "rollback_auditing")
  /\ UNCHANGED << collection, created, alias, trail >>

\* Mutant: the audit row names the collection that was rolled back as target.
AuditRollbackFrom(p) ==
  /\ pc[p] = "rollback_auditing"
  /\ trail' = [trail EXCEPT ![Own(p)] = current[p]]
  /\ Finish(p)
  /\ UNCHANGED << collection, row, created, alias >>

AuditRollback(p) ==
  /\ pc[p] = "rollback_auditing"
  /\ trail' = [trail EXCEPT ![Own(p)] = previous[p]]
  /\ Finish(p)
  /\ UNCHANGED << collection, row, created, alias >>

-----------------------------------------------------------------------------
(* A call raises, or the caller dies, before the call has had an effect.   *)
(* Retries of an upsert are inside UpsertPoints; this is when they run out *)

CallRaises(p) ==
  /\ pc[p] \in Calls
  /\ Raise(p)
  /\ UNCHANGED stores

Build(p) == CreateCollection(p) \/ UpsertPoints(p) \/ RecordGeneration(p)
Validate(p) == LoadBuilt(p) \/ Check(p) \/ MarkValidation(p)
Promote(p) ==
  \/ LoadValidated(p) \/ ResolvePrevious(p) \/ SwitchToPromoted(p)
  \/ MarkPromoted(p) \/ AuditPromotion(p)
Rollback(p) ==
  \/ LoadPromoted(p) \/ ResolveCurrent(p) \/ ReadTarget(p) \/ SwitchBack(p)
  \/ MarkRolledBack(p) \/ AuditRollback(p)

Next == \E p \in Operators :
          Build(p) \/ Validate(p) \/ Promote(p) \/ Rollback(p) \/ CallRaises(p)

Spec == Init /\ [][Next]_vars

-----------------------------------------------------------------------------
(* Safety, for any number of callers                                       *)

\* Whatever the callers race for and wherever they fail, an alias points to a
\* collection of its own embedding version that holds every point and whose
\* row is past built: a build that broke off, or one whose count is short, is
\* never served, neither by a promotion nor by a rollback.
ServesWholeGeneration ==
  \A a \in Aliases : alias[a] # NoGeneration =>
    /\ AliasOf[alias[a]] = a
    /\ collection[alias[a]] = "whole"
    /\ row[alias[a]].status \in {"validated", "promoted", "rolled_back"}

\* A rollback target is a collection fit to serve the same alias.
RollbackTargetFits ==
  \A g \in Generations : row[g].previous # NoGeneration =>
    /\ AliasOf[row[g].previous] = AliasOf[g]
    /\ collection[row[g].previous] = "whole"

-----------------------------------------------------------------------------
(* Safety of one caller at a time (INDEX_LIFECYCLE.md: promote only one    *)
(* generation per alias at a time), between operations.                    *)

Quiet == \A p \in Operators : pc[p] = "idle"

Promoted(a) == {g \in Generations : AliasOf[g] = a /\ row[g].status = "promoted"}

\* The promoted generations of an alias are a stack: the alias points to its
\* top, every other is the rollback target of exactly one, and the chain of
\* rollback targets ends.  A generation that was rolled back is off the stack.
RollbackStack ==
  Quiet => \A a \in Aliases :
    LET S == Promoted(a) IN
    /\ alias[a] = NoGeneration => S = {}
    /\ alias[a] # NoGeneration => alias[a] \in S
    /\ \A g \in S \ {alias[a]} : Cardinality({h \in S : row[h].previous = g}) = 1
    /\ \A h \in S : row[h].previous \in S \cup {NoGeneration}
    /\ \A T \in SUBSET S : T # {} => \E h \in T : row[h].previous \notin T

\* The audit trail says where every alias points (CONTROL_PLANE_V1.md line 73).
TrailNamesTarget == Quiet => trail = alias

\* CHANGE_MANAGEMENT.md line 34: a rollback switches the alias to the previous
\* generation, so it never switches to the one it then marks rolled back.
RollbackLeavesGeneration ==
  \A p \in Operators : pc[p] = "rollback_marking" => previous[p] # current[p]

-----------------------------------------------------------------------------
(* The blue/green contract that the above implements                       *)

Contract == INSTANCE BlueGreen WITH
              whole <- {g \in Generations : collection[g] = "whole"},
              approved <- {g \in Generations :
                             row[g].status \in {"validated", "promoted", "rolled_back"}},
              serving <- alias

\* Racing builds, validations, promotions and rollbacks with their faults only
\* ever move an alias between collections that are whole and validated, and
\* never take it away.
KeepsContract == Contract!Spec

=============================================================================
