------------------------------ MODULE Registry ------------------------------
(***************************************************************************)
(* Lifecycle of the versions of control-plane entities (feature sets,      *)
(* models, embedding providers, policies, audience definitions).           *)
(*                                                                         *)
(* Three kinds of caller move a version: the admin API creates drafts and  *)
(* posts a target state; the operator UI activates behind a governance     *)
(* evaluation and keeps two logs; the bootstrap command makes a version    *)
(* active.  All of them call transition_version_state, which reads the     *)
(* row, checks the transition against what it read, and updates the row by *)
(* its id alone in a second transaction.  Only a partial unique index      *)
(* (one active version per entity) guards that update.                     *)
(*                                                                         *)
(* The five entity types have the same tables and code; an entity is a row *)
(* of any of the root tables.                                              *)
(***************************************************************************)
EXTENDS Naturals

CONSTANTS
  Entities,   \* rows of the root tables
  Versions,   \* rows of the version tables, by (entity, version)
  EntityOf,   \* version -> entity
  NoVersion,  \* no version
  Apis,       \* API threads
  Operators,  \* requests of the operator UI
  Bootstraps, \* runs of the bootstrap command
  MaxFaults   \* bound: calls that raise and callers that die

ASSUME EntityAssumption == EntityOf \in [Versions -> Entities]
ASSUME NoVersionAssumption == NoVersion \notin Versions
ASSUME CallersAssumption ==
  /\ Apis \cap Operators = {}
  /\ Apis \cap Bootstraps = {}
  /\ Operators \cap Bootstraps = {}
ASSUME FaultAssumption == MaxFaults \in Nat

Callers == Apis \cup Operators \cup Bootstraps

VARIABLES
  state,     \* version -> lifecycle_state
  reached,   \* version -> the states it has had (a history variable)
  evidence,  \* version -> whether its latest evidence rows all pass; a row without the
             \* references its entity type asks for never has evidence that passes
  cleared,   \* versions whose evidence has passed at some time, or that a caller
             \* that asks for none has made active (a history variable)
  decisions, \* versions with a success row in promotion_decision_audit.jsonl
  trail,     \* version -> target of its latest success row in registry_action_audit.jsonl
  pc,        \* caller -> the next call of its request
  subject,   \* caller -> the version being moved
  target,    \* caller -> the state it is being moved to
  seen,      \* caller -> the state of the row it has read, while it decides on it
  goal,      \* bootstrap -> the version to make active
  outcome,   \* operator -> the outcome to log
  faults     \* faults so far

vars == << state, reached, evidence, cleared, decisions, trail,
           pc, subject, target, seen, goal, outcome, faults >>
rows == << state, reached >>
logs == << evidence, cleared, decisions, trail >>
local == << subject, target, seen, goal, outcome >>

-----------------------------------------------------------------------------
(* Types                                                                   *)

LIFECYCLE_STATES == {"draft", "validated", "active", "deprecated", "retired"}
UiTargets == {"validated", "active", "deprecated", "retired"}
Outcomes == {"none", "success", "failed"}

\* Mutant: a deprecated version is not taken back into use.
AllowedNoReactivation(s) ==
  CASE s = "draft"      -> {"validated"}
    [] s = "validated"  -> {"draft", "active"}
    [] s = "active"     -> {"deprecated"}
    [] s = "deprecated" -> {"retired"}
    [] OTHER            -> {}

\* Mutant: a draft may be activated without having been validated.
AllowedFromDraft(s) ==
  CASE s = "draft"      -> {"validated", "active"}
    [] s = "validated"  -> {"draft", "active"}
    [] s = "active"     -> {"deprecated"}
    [] s = "deprecated" -> {"active", "retired"}
    [] OTHER            -> {}

Allowed(s) ==
  CASE s = "draft"      -> {"validated"}
    [] s = "validated"  -> {"draft", "active"}
    [] s = "active"     -> {"deprecated"}
    [] s = "deprecated" -> {"active", "retired"}
    [] OTHER            -> {}

TypeOK ==
  /\ state \in [Versions -> LIFECYCLE_STATES \cup {"absent"}]
  /\ reached \in [Versions -> SUBSET LIFECYCLE_STATES]
  /\ evidence \in [Versions -> BOOLEAN]
  /\ cleared \in SUBSET Versions
  /\ decisions \in SUBSET Versions
  /\ trail \in [Versions -> UiTargets \cup {"absent"}]
  /\ pc \in [Callers -> {"idle", "reading", "updating", "reloading", "evaluating",
                         "deciding", "auditing", "drafting", "looping"}]
  /\ subject \in [Callers -> Versions \cup {NoVersion}]
  /\ target \in [Callers -> LIFECYCLE_STATES \cup {"absent"}]
  /\ seen \in [Callers -> LIFECYCLE_STATES \cup {"absent"}]
  /\ goal \in [Callers -> Versions \cup {NoVersion}]
  /\ outcome \in [Callers -> Outcomes]
  /\ faults \in 0..MaxFaults
  /\ \A p \in Callers : pc[p] # "idle" => subject[p] \in Versions
  /\ \A p \in Operators : pc[p] # "idle" => target[p] \in UiTargets

Init ==
  /\ state = [v \in Versions |-> "absent"]
  /\ reached = [v \in Versions |-> {}]
  /\ evidence = [v \in Versions |-> FALSE]
  /\ cleared = {}
  /\ decisions = {}
  /\ trail = [v \in Versions |-> "absent"]
  /\ pc = [p \in Callers |-> "idle"]
  /\ subject = [p \in Callers |-> NoVersion]
  /\ target = [p \in Callers |-> "absent"]
  /\ seen = [p \in Callers |-> "absent"]
  /\ goal = [p \in Callers |-> NoVersion]
  /\ outcome = [p \in Callers |-> "none"]
  /\ faults = 0

-----------------------------------------------------------------------------
(* How a request goes on, raises and ends                                  *)

Goto(p, next) == pc' = [pc EXCEPT ![p] = next]

\* The request is over; its local variables go with it.
End(p) ==
  /\ Goto(p, "idle")
  /\ subject' = [subject EXCEPT ![p] = NoVersion]
  /\ target' = [target EXCEPT ![p] = "absent"]
  /\ seen' = [seen EXCEPT ![p] = "absent"]
  /\ goal' = [goal EXCEPT ![p] = NoVersion]
  /\ outcome' = [outcome EXCEPT ![p] = "none"]

Begin(p, v, t, next) ==
  /\ pc[p] = "idle"
  /\ subject' = [subject EXCEPT ![p] = v]
  /\ target' = [target EXCEPT ![p] = t]
  /\ Goto(p, next)
  /\ UNCHANGED faults

\* The UI logs a decision for activations only, and an action in any case.
Conclude(p, result) ==
  /\ outcome' = [outcome EXCEPT ![p] = result]
  /\ Goto(p, IF target[p] = "active" THEN "deciding" ELSE "auditing")
  /\ UNCHANGED << subject, target, seen, goal >>

\* What an exception does: the UI's try block logs the failure, unless what
\* raised is that logging; every other caller is over.
InTry(p) ==
  /\ p \in Operators
  /\ \/ pc[p] \in {"reading", "updating", "reloading"}
     \/ pc[p] \in {"deciding", "auditing"} /\ outcome[p] = "success"

\* Mutant: the except block logs what the try block was about to log.
FailUnnoticed(p) ==
  \/ InTry(p) /\ Conclude(p, "success")
  \/ ~InTry(p) /\ End(p)

Fail(p) ==
  \/ InTry(p) /\ Conclude(p, "failed")
  \/ ~InTry(p) /\ End(p)

Raise(p) ==
  /\ faults < MaxFaults
  /\ faults' = faults + 1
  /\ Fail(p)

-----------------------------------------------------------------------------
(* transition_version_state, and where each caller goes on after it        *)

\* The row comes back in state s.
Return(p, s) ==
  \/ p \in Apis /\ End(p)
  \/ p \in Operators /\ Conclude(p, "success")
  \/ /\ p \in Bootstraps /\ subject[p] = goal[p]
     /\ seen' = [seen EXCEPT ![p] = s]
     /\ Goto(p, "looping")
     /\ UNCHANGED << subject, target, goal, outcome >>
  \/ /\ p \in Bootstraps /\ subject[p] # goal[p]
     /\ subject' = [subject EXCEPT ![p] = goal[p]]
     /\ target' = [target EXCEPT ![p] = "active"]
     /\ Goto(p, "reading")
     /\ UNCHANGED << seen, goal, outcome >>

\* get_version_by_id and validate_lifecycle_transition.
Read(p) ==
  /\ pc[p] = "reading"
  /\ LET s == state[subject[p]] IN
     \/ s = target[p] /\ Return(p, s)
     \/ s # target[p] /\ target[p] \notin Allowed(s) /\ Fail(p)
     \/ s # target[p] /\ target[p] \in Allowed(s) /\ Goto(p, "updating") /\ UNCHANGED local
  /\ UNCHANGED << rows, logs, faults >>

\* The partial unique index: another version of the entity is active.
Siblings(v) == {w \in Versions \ {v} : EntityOf[w] = EntityOf[v]}

\* Mutant: the index is not there.
ConflictsNever(v, t) == FALSE

Conflicts(v, t) == t = "active" /\ \E w \in Siblings(v) : state[w] = "active"

Clear(p) ==
  cleared' = {v \in Versions :
                \/ v \in cleared
                \/ v = subject[p] /\ target[p] = "active" /\ p \notin Operators}

SetState(v, t) ==
  /\ state' = [state EXCEPT ![v] = t]
  /\ reached' = [reached EXCEPT ![v] = @ \cup {t}]

\* UPDATE ... WHERE id = ..., whatever the state is by now; the answer to the
\* commit may be lost.
Update(p) ==
  /\ pc[p] = "updating"
  /\ \/ Conflicts(subject[p], target[p]) /\ Fail(p) /\ UNCHANGED << rows, cleared, faults >>
     \/ /\ ~Conflicts(subject[p], target[p])
        /\ SetState(subject[p], target[p]) /\ Clear(p)
        /\ (Goto(p, "reloading") /\ UNCHANGED << faults, local >>) \/ Raise(p)
  /\ UNCHANGED << evidence, decisions, trail >>

\* The row is fetched again after the commit.
Reload(p) ==
  /\ pc[p] = "reloading"
  /\ Return(p, state[subject[p]])
  /\ UNCHANGED << rows, logs, faults >>

-----------------------------------------------------------------------------
(* The admin API.  An id that is not in the table raises and changes       *)
(* nothing.                                                                *)

ApiTransition(p) ==
  /\ p \in Apis
  /\ \E v \in Versions, t \in LIFECYCLE_STATES :
       state[v] # "absent" /\ Begin(p, v, t, "reading")
  /\ UNCHANGED << rows, logs, seen, goal, outcome >>

\* create_draft_version: UNIQUE (parent, version) refuses a second one.
ApiDraft(v) ==
  /\ state[v] = "absent"
  /\ SetState(v, "draft")
  /\ UNCHANGED << logs, pc, local, faults >>

-----------------------------------------------------------------------------
(* The operator UI                                                         *)

\* Mutant: any state is accepted as the target of an action.
UiSubmitAny(p) ==
  /\ p \in Operators
  /\ \E v \in Versions, t \in LIFECYCLE_STATES :
       /\ state[v] # "absent"
       /\ Begin(p, v, t, IF t = "active" THEN "evaluating" ELSE "reading")
       /\ seen' = [seen EXCEPT ![p] = IF t = "active" THEN state[v] ELSE "absent"]
  /\ UNCHANGED << rows, logs, goal, outcome >>

\* load_version_detail, for one of the four actions of the detail page.
UiSubmit(p) ==
  /\ p \in Operators
  /\ \E v \in Versions, t \in UiTargets :
       /\ state[v] # "absent"
       /\ Begin(p, v, t, IF t = "active" THEN "evaluating" ELSE "reading")
       /\ seen' = [seen EXCEPT ![p] = IF t = "active" THEN state[v] ELSE "absent"]
  /\ UNCHANGED << rows, logs, goal, outcome >>

\* Mutant: the blockers of the evidence are not looked at.
PromotionReadyUnproven(p) ==
  seen[p] = "active" \/ "active" \in Allowed(seen[p])

\* evaluate_activation_governance: a version that is active already needs no
\* evidence; any other needs a legal transition and evidence that passes.
PromotionReady(p) ==
  LET v == subject[p] IN
  \/ seen[p] = "active" /\ state[v] = "active"
  \/ evidence[v] /\ (seen[p] = "active" \/ "active" \in Allowed(seen[p]))

UiEvaluate(p) ==
  /\ pc[p] = "evaluating"
  /\ \/ PromotionReady(p) /\ Goto(p, "reading") /\ UNCHANGED outcome
     \/ ~PromotionReady(p) /\ Goto(p, "deciding") /\ outcome' = [outcome EXCEPT ![p] = "failed"]
  /\ seen' = [seen EXCEPT ![p] = "absent"]
  /\ UNCHANGED << subject, target, goal >>
  /\ UNCHANGED << rows, logs, faults >>

\* Rows of activations that were blocked or failed are left out of the logs.
Succeeded(p) == {v \in Versions : outcome[p] = "success" /\ v = subject[p]}

UiDecide(p) ==
  /\ pc[p] = "deciding"
  /\ decisions' = decisions \cup Succeeded(p)
  /\ Goto(p, "auditing")
  /\ UNCHANGED << rows, evidence, cleared, trail, local, faults >>

UiAudit(p) ==
  /\ pc[p] = "auditing"
  /\ trail' = [v \in Versions |-> IF v \in Succeeded(p) THEN target[p] ELSE trail[v]]
  /\ End(p)
  /\ UNCHANGED << rows, evidence, cleared, decisions, faults >>

\* The evidence form: the latest row of each type counts.
UiRecordEvidence(v) ==
  /\ Operators # {} /\ state[v] # "absent"
  /\ \E passes \in BOOLEAN :
       /\ evidence' = [evidence EXCEPT ![v] = passes]
       /\ cleared' = IF passes THEN cleared \cup {v} ELSE cleared
  /\ UNCHANGED << rows, decisions, trail, pc, local, faults >>

-----------------------------------------------------------------------------
(* ensure_active_version, called by the bootstrap command                  *)

EnsureBegin(p) ==
  /\ p \in Bootstraps
  /\ \E v \in Versions :
       /\ Begin(p, v, "active", IF state[v] = "absent" THEN "drafting" ELSE "looping")
       /\ goal' = [goal EXCEPT ![p] = v]
       /\ seen' = [seen EXCEPT ![p] = state[v]]
  /\ UNCHANGED << rows, logs, outcome >>

EnsureDraft(p) ==
  /\ pc[p] = "drafting"
  /\ \/ state[goal[p]] # "absent" /\ End(p) /\ UNCHANGED rows
     \/ state[goal[p]] = "absent" /\ SetState(goal[p], "draft")
          /\ Goto(p, "reloading") /\ UNCHANGED local
  /\ UNCHANGED << logs, faults >>

Move(p, v, t) ==
  /\ subject' = [subject EXCEPT ![p] = v]
  /\ target' = [target EXCEPT ![p] = t]
  /\ seen' = [seen EXCEPT ![p] = "absent"]
  /\ Goto(p, "reading")
  /\ UNCHANGED << goal, outcome >>

ActiveSiblings(v) == {w \in Siblings(v) : state[w] = "active"}

\* One round of the loop: it ends on active and raises on retired; before the
\* activation the version that is active now is deprecated.
EnsureLoop(p) ==
  /\ pc[p] = "looping"
  /\ \/ seen[p] \in {"active", "retired"} /\ End(p)
     \/ seen[p] = "draft" /\ Move(p, goal[p], "validated")
     \/ /\ seen[p] \in {"validated", "deprecated"}
        /\ \/ \E w \in ActiveSiblings(goal[p]) : Move(p, w, "deprecated")
           \/ ActiveSiblings(goal[p]) = {} /\ Move(p, goal[p], "active")
  /\ UNCHANGED << rows, logs, faults >>

-----------------------------------------------------------------------------
(* A call raises without effect, or the process of the caller dies         *)

CallRaises(p) ==
  /\ pc[p] # "idle"
  /\ Raise(p)
  /\ UNCHANGED << rows, logs >>

Crash(p) ==
  /\ pc[p] # "idle"
  /\ faults < MaxFaults
  /\ faults' = faults + 1
  /\ End(p)
  /\ UNCHANGED << rows, logs >>

Transition(p) == Read(p) \/ Update(p) \/ Reload(p)
Ui(p) == UiSubmit(p) \/ UiEvaluate(p) \/ UiDecide(p) \/ UiAudit(p)
Ensure(p) == EnsureBegin(p) \/ EnsureDraft(p) \/ EnsureLoop(p)

Next ==
  \/ \E p \in Callers :
       Transition(p) \/ ApiTransition(p) \/ Ui(p) \/ Ensure(p) \/ CallRaises(p) \/ Crash(p)
  \/ \E v \in Versions : ApiDraft(v) \/ UiRecordEvidence(v)

Spec == Init /\ [][Next]_vars

-----------------------------------------------------------------------------
(* Safety                                                                  *)

\* However callers race, an entity never has two active versions.
OneActivePerEntity ==
  \A v, w \in Versions :
    state[v] = "active" /\ state[w] = "active" /\ EntityOf[v] = EntityOf[w] => v = w

\* Racing callers may take an edge the lifecycle does not have, since the
\* update does not look at the state again; but no version gets to a stage
\* without having been at the stage before it at some time.
NoStageSkipped ==
  \A v \in Versions :
    /\ state[v] # "absent" => "draft" \in reached[v]
    /\ state[v] = "active" => "validated" \in reached[v]
    /\ state[v] = "deprecated" => "active" \in reached[v]
    /\ state[v] = "retired" => "deprecated" \in reached[v]

\* The logs of the UI claim no success that did not happen, whatever races and
\* faults there are: a version they say was moved has been in that state.
AuditClaimsAreTrue ==
  \A v \in Versions :
    /\ trail[v] # "absent" => trail[v] \in reached[v]
    /\ v \in decisions => "active" \in reached[v]

\* The UI reads the row, evaluates the evidence and transitions the version in
\* three calls that others may interleave with.  Still no version is active for
\* the first time without evidence that passed, unless a caller that asks for no
\* evidence (the API, the bootstrap) has activated it.
FirstActivationHadEvidence ==
  \A v \in Versions : "active" \in reached[v] => v \in cleared

\* ensure_active_version takes the active version out of use before it activates
\* its own.  When only bootstraps run and none is broken off, they never leave an
\* entity that had an active version without one.
BootstrapsLeaveOneActive ==
  (\A p \in Callers : pc[p] = "idle") /\ faults = 0 =>
    \A v \in Versions : "active" \in reached[v] =>
      \E w \in Versions : EntityOf[w] = EntityOf[v] /\ state[w] = "active"

\* ENTITY_LIFECYCLE.md lines 15 to 25: the edges a version may take.
LifecycleFollowed ==
  [][\A v \in Versions : state'[v] # state[v] =>
       state[v] = "absent" \/ state'[v] \in Allowed(state[v])]_vars

=============================================================================
