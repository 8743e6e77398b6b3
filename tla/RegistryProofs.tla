--------------------------- MODULE RegistryProofs ---------------------------
(* Theorems about Registry for any number of entities, versions, callers   *)
(* and faults.                                                             *)
EXTENDS Registry, TLAPS

USE EntityAssumption, CallersAssumption, FaultAssumption
    DEF LIFECYCLE_STATES, UiTargets, Outcomes, Callers

-----------------------------------------------------------------------------
(* The inductive invariant                                                 *)

\* The stage that comes before a state.
Before(s) ==
  CASE s = "validated"  -> "draft"
    [] s = "active"     -> "validated"
    [] s = "deprecated" -> "active"
    [] s = "retired"    -> "deprecated"
    [] OTHER            -> "draft"

\* The states a version has had are the first stages up to some stage.
RowsOK ==
  \A v \in Versions :
    /\ state[v] # "absent" => state[v] \in reached[v]
    /\ \A s \in reached[v] : Before(s) \in reached[v]

ClearedOK ==
  \A v \in Versions : evidence[v] => v \in cleared

\* What a caller knows of the row stays true while others change the row: it is
\* about the states the version has had, not about the one it is in.
CallerOK(p) ==
  /\ pc[p] \in {"drafting", "looping"} => p \in Bootstraps
  /\ pc[p] \in {"evaluating", "deciding", "auditing"} => p \in Operators
  /\ p \in Bootstraps /\ pc[p] # "idle" => goal[p] \in Versions
  /\ pc[p] = "updating" =>
       target[p] \in LIFECYCLE_STATES /\ Before(target[p]) \in reached[subject[p]]
  /\ p \in Operators /\ pc[p] = "reloading" => target[p] \in reached[subject[p]]
  /\ pc[p] \in {"deciding", "auditing"} /\ outcome[p] = "success" =>
       target[p] \in reached[subject[p]]
  /\ pc[p] \in {"evaluating", "deciding"} => target[p] = "active"
  /\ pc[p] = "evaluating" /\ seen[p] = "active" => "active" \in reached[subject[p]]
  /\ p \in Operators /\ target[p] = "active" /\ pc[p] \in {"reading", "updating"} =>
       subject[p] \in cleared

IInv ==
  /\ TypeOK
  /\ OneActivePerEntity
  /\ RowsOK
  /\ ClearedOK
  /\ AuditClaimsAreTrue
  /\ FirstActivationHadEvidence
  /\ \A p \in Callers : CallerOK(p)

LEMMA InitInv == Init => IInv
  BY DEF Init, IInv, TypeOK, OneActivePerEntity, RowsOK, ClearedOK, AuditClaimsAreTrue,
     FirstActivationHadEvidence, CallerOK

-----------------------------------------------------------------------------
(* A step of one caller, seen from its local variables and from the others *)

SharedTypes ==
  /\ state \in [Versions -> LIFECYCLE_STATES \cup {"absent"}]
  /\ reached \in [Versions -> SUBSET LIFECYCLE_STATES]
  /\ evidence \in [Versions -> BOOLEAN]
  /\ cleared \in SUBSET Versions
  /\ decisions \in SUBSET Versions
  /\ trail \in [Versions -> UiTargets \cup {"absent"}]
  /\ faults \in 0..MaxFaults

LocalTypes ==
  /\ pc \in [Callers -> {"idle", "reading", "updating", "reloading", "evaluating",
                         "deciding", "auditing", "drafting", "looping"}]
  /\ subject \in [Callers -> Versions \cup {NoVersion}]
  /\ target \in [Callers -> LIFECYCLE_STATES \cup {"absent"}]
  /\ seen \in [Callers -> LIFECYCLE_STATES \cup {"absent"}]
  /\ goal \in [Callers -> Versions \cup {NoVersion}]
  /\ outcome \in [Callers -> Outcomes]

SubjectOK(p) ==
  pc[p] # "idle" =>
    /\ subject[p] \in Versions
    /\ p \in Operators => target[p] \in UiTargets

LEMMA Types == TypeOK <=> SharedTypes /\ LocalTypes /\ \A p \in Callers : SubjectOK(p)
  BY DEF TypeOK, SharedTypes, LocalTypes, SubjectOK

\* Only p's local variables change, and it is left as it should be.
OnlyOf(p) ==
  /\ LocalTypes'
  /\ \A q \in Callers \ {p} :
       /\ pc'[q] = pc[q] /\ subject'[q] = subject[q] /\ target'[q] = target[q]
       /\ seen'[q] = seen[q] /\ goal'[q] = goal[q] /\ outcome'[q] = outcome[q]
  /\ SubjectOK(p)'
  /\ CallerOK(p)'

Grows ==
  /\ \A v \in Versions : reached[v] \subseteq reached'[v]
  /\ cleared \subseteq cleared'

\* No caller's knowledge is lost when another one takes a step.
LEMMA OneCallerSteps ==
  ASSUME IInv, NEW p \in Callers, OnlyOf(p), Grows, SharedTypes',
         OneActivePerEntity', RowsOK', ClearedOK', AuditClaimsAreTrue',
         FirstActivationHadEvidence'
  PROVE  IInv'
  <1>1. SharedTypes /\ LocalTypes /\ \A q \in Callers : SubjectOK(q)
    BY Types DEF IInv
  <1>2. \A q \in Callers : SubjectOK(q)'
    BY <1>1 DEF OnlyOf, SubjectOK
  <1>3. TypeOK'
    BY <1>2, Types DEF OnlyOf, TypeOK, LocalTypes, SharedTypes, SubjectOK
  <1>4. ASSUME NEW q \in Callers, q # p PROVE CallerOK(q)'
    <2>1. CallerOK(q) /\ SubjectOK(q)
      BY <1>1 DEF IInv
    <2>2. /\ pc'[q] = pc[q] /\ subject'[q] = subject[q] /\ target'[q] = target[q]
          /\ seen'[q] = seen[q] /\ goal'[q] = goal[q] /\ outcome'[q] = outcome[q]
      BY <1>4 DEF OnlyOf
    <2>3. CASE pc[q] = "idle"
      BY <2>2, <2>3 DEF CallerOK
    <2>4. CASE pc[q] # "idle"
      <3>1. reached[subject[q]] \subseteq reached'[subject[q]] /\ cleared \subseteq cleared'
        BY <2>1, <2>4 DEF Grows, SubjectOK
      <3> QED BY <2>1, <2>2, <2>4, <3>1 DEF CallerOK
    <2> QED BY <2>3, <2>4
  <1> QED BY <1>3, <1>4 DEF IInv, OnlyOf

\* The same for a step of no caller.
LEMMA NoCallerSteps ==
  ASSUME IInv, UNCHANGED << pc, local >>, Grows, SharedTypes', OneActivePerEntity', RowsOK',
         ClearedOK', AuditClaimsAreTrue', FirstActivationHadEvidence'
  PROVE  IInv'
  <1>1. SharedTypes /\ LocalTypes /\ \A q \in Callers : SubjectOK(q)
    BY Types DEF IInv
  <1>2. TypeOK'
    BY <1>1, Types DEF TypeOK, LocalTypes, SharedTypes, SubjectOK, local
  <1>3. ASSUME NEW q \in Callers PROVE CallerOK(q)'
    <2>1. CallerOK(q) /\ SubjectOK(q)
      BY <1>1 DEF IInv
    <2>2. CASE pc[q] = "idle"
      BY <2>2 DEF CallerOK
    <2>3. CASE pc[q] # "idle"
      <3>1. reached[subject[q]] \subseteq reached'[subject[q]] /\ cleared \subseteq cleared'
        BY <2>1, <2>3 DEF Grows, SubjectOK
      <3> QED BY <2>1, <2>3, <3>1 DEF CallerOK, local
    <2> QED BY <2>2, <2>3
  <1> QED BY <1>2, <1>3 DEF IInv

LEMMA Ends ==
  ASSUME LocalTypes, NEW p \in Callers, End(p)
  PROVE  OnlyOf(p)
  <1>1. LocalTypes' /\ pc'[p] = "idle"
    BY DEF End, Goto, LocalTypes
  <1>2. SubjectOK(p)' /\ CallerOK(p)'
    BY <1>1 DEF SubjectOK, CallerOK
  <1> QED BY <1>1, <1>2 DEF OnlyOf, End, Goto, LocalTypes

LEMMA Concludes ==
  ASSUME LocalTypes, NEW p \in Operators, SubjectOK(p), pc[p] # "idle", Grows,
         NEW r \in {"success", "failed"}, Conclude(p, r),
         r = "success" => target[p] \in reached[subject[p]]
  PROVE  OnlyOf(p)
  <1>1. LocalTypes' /\ outcome'[p] = r /\ subject'[p] = subject[p] /\ target'[p] = target[p]
    BY DEF Conclude, Goto, LocalTypes
  <1>2. /\ pc'[p] \in {"deciding", "auditing"}
        /\ pc'[p] = "deciding" => target[p] = "active"
    BY DEF Conclude, Goto, LocalTypes
  <1>3. SubjectOK(p)'
    BY <1>1 DEF SubjectOK
  <1>4. r = "success" => target[p] \in reached'[subject[p]]
    BY DEF Grows, SubjectOK
  <1>5. CallerOK(p)'
    BY <1>1, <1>2, <1>4 DEF CallerOK
  <1>6. \A q \in Callers \ {p} : pc'[q] = pc[q] /\ outcome'[q] = outcome[q]
    BY DEF Conclude, Goto, LocalTypes
  <1> QED BY <1>1, <1>3, <1>5, <1>6 DEF OnlyOf, Conclude

LEMMA Fails ==
  ASSUME LocalTypes, NEW p \in Callers, SubjectOK(p), pc[p] # "idle", Grows, Fail(p)
  PROVE  OnlyOf(p)
  <1>1. CASE InTry(p) /\ Conclude(p, "failed")
    BY <1>1, Concludes DEF InTry
  <1>2. CASE End(p)
    BY <1>2, Ends
  <1> QED BY <1>1, <1>2 DEF Fail

LEMMA Returns ==
  ASSUME LocalTypes, NEW p \in Callers, SubjectOK(p), CallerOK(p), Grows,
         pc[p] \in {"reading", "reloading"},
         NEW s \in LIFECYCLE_STATES \cup {"absent"}, Return(p, s),
         p \in Operators => target[p] \in reached[subject[p]]
  PROVE  OnlyOf(p)
  <1>1. CASE p \in Apis /\ End(p)
    BY <1>1, Ends
  <1>2. CASE p \in Operators /\ Conclude(p, "success")
    BY <1>2, Concludes
  <1>3. ASSUME p \in Bootstraps, goal[p] \in Versions, UNCHANGED << goal, outcome >>,
               \/ /\ seen' = [seen EXCEPT ![p] = s] /\ Goto(p, "looping")
                  /\ UNCHANGED << subject, target >>
               \/ /\ subject' = [subject EXCEPT ![p] = goal[p]]
                  /\ target' = [target EXCEPT ![p] = "active"]
                  /\ Goto(p, "reading") /\ UNCHANGED seen
        PROVE  OnlyOf(p)
    <2>1. LocalTypes' /\ pc'[p] \in {"looping", "reading"} /\ subject'[p] \in Versions
      BY <1>3 DEF Goto, LocalTypes, SubjectOK
    <2>2. SubjectOK(p)' /\ CallerOK(p)'
      BY <1>3, <2>1 DEF SubjectOK, CallerOK
    <2> QED BY <1>3, <2>1, <2>2 DEF OnlyOf, Goto, LocalTypes
  <1> QED BY <1>1, <1>2, <1>3 DEF Return, CallerOK

-----------------------------------------------------------------------------
(* Steps that leave the rows and the logs alone                            *)

LEMMA LocalStep ==
  ASSUME IInv, NEW p \in Callers, OnlyOf(p), UNCHANGED << rows, logs >>,
         faults' \in 0..MaxFaults
  PROVE  IInv'
  <1>1. SharedTypes
    BY Types DEF IInv
  <1>2. SharedTypes' /\ Grows
    BY <1>1 DEF SharedTypes, Grows, rows, logs
  <1>3. /\ OneActivePerEntity' /\ RowsOK' /\ ClearedOK' /\ AuditClaimsAreTrue'
        /\ FirstActivationHadEvidence'
    BY DEF IInv, OneActivePerEntity, RowsOK, ClearedOK, AuditClaimsAreTrue,
       FirstActivationHadEvidence, rows, logs
  <1> QED BY <1>2, <1>3, OneCallerSteps

LEMMA ReadStep ==
  ASSUME IInv, NEW p \in Callers, Read(p)
  PROVE  IInv'
  <1>1. SharedTypes /\ LocalTypes /\ SubjectOK(p) /\ CallerOK(p) /\ pc[p] = "reading"
    BY Types DEF IInv, Read
  <1>2. Grows /\ faults' = faults
    BY DEF Read, Grows, rows, logs
  <1> DEFINE s == state[subject[p]]
  <1>3. subject[p] \in Versions /\ s \in LIFECYCLE_STATES \cup {"absent"}
    BY <1>1 DEF SubjectOK, SharedTypes
  <1>4. ASSUME s = target[p], Return(p, s) PROVE OnlyOf(p)
    <2>1. p \in Operators => target[p] \in reached[subject[p]]
      BY <1>1, <1>3, <1>4 DEF SubjectOK, RowsOK, IInv
    <2> QED BY <1>1, <1>2, <1>3, <1>4, <2>1, Returns
  <1>5. ASSUME Fail(p) PROVE OnlyOf(p)
    BY <1>1, <1>2, <1>5, Fails
  <1>6. ASSUME target[p] \in Allowed(s), Goto(p, "updating"), UNCHANGED local
        PROVE  OnlyOf(p)
    <2>1. s # "absent" /\ target[p] \in LIFECYCLE_STATES
      BY <1>3, <1>6 DEF Allowed
    <2>2. /\ s \in reached[subject[p]]
          /\ \A r \in reached[subject[p]] : Before(r) \in reached[subject[p]]
      BY <1>3, <2>1 DEF RowsOK, IInv
    <2>3. Before(target[p]) \in reached[subject[p]]
      BY <1>3, <1>6, <2>1, <2>2 DEF Allowed, Before
    <2>4. /\ LocalTypes' /\ pc'[p] = "updating"
          /\ \A q \in Callers \ {p} : pc'[q] = pc[q]
      BY <1>1, <1>6 DEF Goto, local, LocalTypes
    <2>5. SubjectOK(p)' /\ CallerOK(p)'
      BY <1>1, <1>6, <2>1, <2>3, <2>4 DEF SubjectOK, CallerOK, local, Read, rows, logs
    <2> QED BY <1>6, <2>4, <2>5 DEF OnlyOf, local
  <1>7. OnlyOf(p)
    BY <1>4, <1>5, <1>6 DEF Read
  <1> QED BY <1>1, <1>2, <1>7, LocalStep DEF Read, SharedTypes

LEMMA ReloadStep ==
  ASSUME IInv, NEW p \in Callers, Reload(p)
  PROVE  IInv'
  <1>1. SharedTypes /\ LocalTypes /\ SubjectOK(p) /\ CallerOK(p) /\ pc[p] = "reloading"
    BY Types DEF IInv, Reload
  <1>2. Grows /\ faults' = faults
    BY DEF Reload, Grows, rows, logs
  <1>3. state[subject[p]] \in LIFECYCLE_STATES \cup {"absent"}
    BY <1>1 DEF SubjectOK, SharedTypes
  <1>4. p \in Operators => target[p] \in reached[subject[p]]
    BY <1>1 DEF CallerOK
  <1>5. OnlyOf(p)
    BY <1>1, <1>2, <1>3, <1>4, Returns DEF Reload
  <1> QED BY <1>1, <1>2, <1>5, LocalStep DEF Reload, SharedTypes

LEMMA FaultStep ==
  ASSUME IInv, NEW p \in Callers, CallRaises(p) \/ Crash(p)
  PROVE  IInv'
  <1>1. SharedTypes /\ LocalTypes /\ SubjectOK(p) /\ pc[p] # "idle"
    BY Types DEF IInv, CallRaises, Crash
  <1>2. Grows /\ faults' \in 0..MaxFaults /\ UNCHANGED << rows, logs >>
    BY <1>1 DEF CallRaises, Crash, Raise, Grows, rows, logs, SharedTypes
  <1>3. OnlyOf(p)
    BY <1>1, <1>2, Fails, Ends DEF CallRaises, Crash, Raise
  <1> QED BY <1>2, <1>3, LocalStep

LEMMA BeginStep ==
  ASSUME IInv, NEW p \in Callers, ApiTransition(p) \/ UiSubmit(p) \/ EnsureBegin(p)
  PROVE  IInv'
  <1>1. SharedTypes /\ LocalTypes
    BY Types DEF IInv
  <1>2. faults' = faults /\ UNCHANGED << rows, logs, outcome >>
    BY DEF ApiTransition, UiSubmit, EnsureBegin, Begin, rows, logs
  <1>3. ASSUME ApiTransition(p) PROVE OnlyOf(p)
    <2>1. PICK v \in Versions, t \in LIFECYCLE_STATES : Begin(p, v, t, "reading")
      BY <1>3 DEF ApiTransition
    <2>2. p \notin Operators \cup Bootstraps /\ UNCHANGED << seen, goal >>
      BY <1>3 DEF ApiTransition
    <2>3. LocalTypes' /\ pc'[p] = "reading" /\ subject'[p] = v
      BY <1>1, <1>2, <2>1, <2>2 DEF Begin, Goto, LocalTypes
    <2>4. SubjectOK(p)' /\ CallerOK(p)'
      BY <2>2, <2>3 DEF SubjectOK, CallerOK
    <2> QED BY <1>1, <1>2, <2>1, <2>2, <2>3, <2>4 DEF OnlyOf, Begin, Goto, LocalTypes
  <1>4. ASSUME UiSubmit(p) PROVE OnlyOf(p)
    <2>1. PICK v \in Versions, t \in UiTargets :
            /\ state[v] # "absent"
            /\ Begin(p, v, t, IF t = "active" THEN "evaluating" ELSE "reading")
            /\ seen' = [seen EXCEPT ![p] = IF t = "active" THEN state[v] ELSE "absent"]
      BY <1>4 DEF UiSubmit
    <2>2. p \in Operators /\ p \notin Bootstraps /\ UNCHANGED goal
      BY <1>4 DEF UiSubmit
    <2>3. state[v] \in LIFECYCLE_STATES
      BY <1>1, <2>1 DEF SharedTypes
    <2>4. /\ pc'[p] = IF t = "active" THEN "evaluating" ELSE "reading"
          /\ subject'[p] = v /\ target'[p] = t
          /\ seen'[p] = IF t = "active" THEN state[v] ELSE "absent"
      BY <1>1, <2>1 DEF Begin, Goto, LocalTypes
    <2>5. LocalTypes'
      BY <1>1, <1>2, <2>1, <2>2, <2>3 DEF Begin, Goto, LocalTypes
    <2>6. state[v] \in reached[v] /\ reached' = reached
      BY <1>2, <2>1 DEF RowsOK, IInv, rows
    <2>7. SubjectOK(p)' /\ CallerOK(p)'
      BY <2>2, <2>4, <2>6 DEF SubjectOK, CallerOK
    <2> QED BY <1>1, <1>2, <2>1, <2>2, <2>5, <2>7 DEF OnlyOf, Begin, Goto, LocalTypes
  <1>5. ASSUME EnsureBegin(p) PROVE OnlyOf(p)
    <2>1. PICK v \in Versions :
            /\ Begin(p, v, "active", IF state[v] = "absent" THEN "drafting" ELSE "looping")
            /\ goal' = [goal EXCEPT ![p] = v]
            /\ seen' = [seen EXCEPT ![p] = state[v]]
      BY <1>5 DEF EnsureBegin
    <2>2. p \in Bootstraps /\ p \notin Operators
      BY <1>5 DEF EnsureBegin
    <2>3. LocalTypes' /\ pc'[p] \in {"drafting", "looping"} /\ subject'[p] = v /\ goal'[p] = v
      BY <1>1, <1>2, <2>1 DEF Begin, Goto, LocalTypes, SharedTypes
    <2>4. SubjectOK(p)' /\ CallerOK(p)'
      BY <2>2, <2>3 DEF SubjectOK, CallerOK
    <2> QED BY <1>1, <1>2, <2>1, <2>3, <2>4 DEF OnlyOf, Begin, Goto, LocalTypes
  <1> QED BY <1>1, <1>2, <1>3, <1>4, <1>5, LocalStep DEF SharedTypes

LEMMA EvaluateStep ==
  ASSUME IInv, NEW p \in Callers, UiEvaluate(p)
  PROVE  IInv'
  <1>1. SharedTypes /\ LocalTypes /\ SubjectOK(p) /\ CallerOK(p) /\ pc[p] = "evaluating"
    BY Types DEF IInv, UiEvaluate
  <1>2. p \in Operators /\ p \notin Bootstraps /\ target[p] = "active" /\ subject[p] \in Versions
    BY <1>1 DEF CallerOK, SubjectOK
  <1>3. UNCHANGED << rows, logs, subject, target, goal, faults >>
    BY DEF UiEvaluate
  <1>4. LocalTypes' /\ subject'[p] = subject[p] /\ target'[p] = "active"
    BY <1>1, <1>2, <1>3 DEF UiEvaluate, Goto, LocalTypes
  <1>5. PromotionReady(p) => subject[p] \in cleared
    BY <1>1, <1>2 DEF PromotionReady, CallerOK, IInv, ClearedOK, FirstActivationHadEvidence
  <1>6. \/ pc'[p] = "reading" /\ PromotionReady(p)
        \/ pc'[p] = "deciding" /\ outcome'[p] = "failed"
    BY <1>1 DEF UiEvaluate, Goto, LocalTypes
  <1>7. SubjectOK(p)' /\ CallerOK(p)'
    BY <1>2, <1>3, <1>4, <1>5, <1>6 DEF SubjectOK, CallerOK, logs
  <1>8. OnlyOf(p)
    BY <1>1, <1>3, <1>4, <1>7 DEF OnlyOf, UiEvaluate, Goto, LocalTypes
  <1> QED BY <1>1, <1>3, <1>8, LocalStep DEF SharedTypes

LEMMA LoopStep ==
  ASSUME IInv, NEW p \in Callers, EnsureLoop(p)
  PROVE  IInv'
  <1>1. SharedTypes /\ LocalTypes /\ SubjectOK(p) /\ CallerOK(p) /\ pc[p] = "looping"
    BY Types DEF IInv, EnsureLoop
  <1>2. p \in Bootstraps /\ p \notin Operators /\ goal[p] \in Versions
    BY <1>1 DEF CallerOK
  <1>3. ASSUME NEW v \in Versions, NEW t \in LIFECYCLE_STATES, Move(p, v, t)
        PROVE  OnlyOf(p)
    <2>1. LocalTypes' /\ pc'[p] = "reading" /\ subject'[p] = v /\ goal'[p] = goal[p]
      BY <1>1, <1>3 DEF Move, Goto, LocalTypes
    <2>2. SubjectOK(p)' /\ CallerOK(p)'
      BY <1>2, <2>1 DEF SubjectOK, CallerOK
    <2> QED BY <1>1, <1>3, <2>1, <2>2 DEF OnlyOf, Move, Goto, LocalTypes
  <1>4. OnlyOf(p)
    BY <1>1, <1>2, <1>3, Ends DEF EnsureLoop, ActiveSiblings, Siblings
  <1> QED BY <1>1, <1>4, LocalStep DEF EnsureLoop, SharedTypes

-----------------------------------------------------------------------------
(* Steps that write a log                                                  *)

LEMMA DecideStep ==
  ASSUME IInv, NEW p \in Callers, UiDecide(p)
  PROVE  IInv'
  <1>1. SharedTypes /\ LocalTypes /\ SubjectOK(p) /\ CallerOK(p) /\ pc[p] = "deciding"
    BY Types DEF IInv, UiDecide
  <1>2. /\ p \in Operators /\ p \notin Bootstraps /\ target[p] = "active"
        /\ subject[p] \in Versions
        /\ outcome[p] = "success" => "active" \in reached[subject[p]]
    BY <1>1 DEF CallerOK, SubjectOK
  <1>3. UNCHANGED << rows, evidence, cleared, trail, local, faults >>
    BY DEF UiDecide
  <1>4. pc' = [pc EXCEPT ![p] = "auditing"]
    BY DEF UiDecide, Goto
  <1>5. LocalTypes' /\ pc'[p] = "auditing"
    BY <1>1, <1>3, <1>4 DEF LocalTypes, local
  <1>6. SubjectOK(p)' /\ CallerOK(p)'
    BY <1>1, <1>2, <1>3, <1>5 DEF SubjectOK, CallerOK, local, rows
  <1>7. OnlyOf(p)
    BY <1>1, <1>3, <1>4, <1>5, <1>6 DEF OnlyOf, local, LocalTypes
  <1>8. decisions' = decisions \cup Succeeded(p)
    BY DEF UiDecide
  <1>9. SharedTypes' /\ Grows
    BY <1>1, <1>3, <1>8 DEF SharedTypes, Grows, rows, Succeeded
  <1>10. AuditClaimsAreTrue'
    BY <1>2, <1>3, <1>8 DEF IInv, AuditClaimsAreTrue, rows, Succeeded
  <1>11. OneActivePerEntity' /\ RowsOK' /\ ClearedOK' /\ FirstActivationHadEvidence'
    BY <1>3 DEF IInv, OneActivePerEntity, RowsOK, ClearedOK, FirstActivationHadEvidence, rows
  <1> QED BY <1>7, <1>9, <1>10, <1>11, OneCallerSteps

LEMMA AuditStep ==
  ASSUME IInv, NEW p \in Callers, UiAudit(p)
  PROVE  IInv'
  <1>1. SharedTypes /\ LocalTypes /\ SubjectOK(p) /\ CallerOK(p) /\ pc[p] = "auditing"
    BY Types DEF IInv, UiAudit
  <1>2. /\ p \in Operators /\ subject[p] \in Versions /\ target[p] \in UiTargets
        /\ outcome[p] = "success" => target[p] \in reached[subject[p]]
    BY <1>1 DEF CallerOK, SubjectOK
  <1>3. UNCHANGED << rows, evidence, cleared, decisions, faults >>
    BY DEF UiAudit
  <1>4. OnlyOf(p)
    BY <1>1, Ends DEF UiAudit
  <1>5. trail' = [v \in Versions |-> IF v \in Succeeded(p) THEN target[p] ELSE trail[v]]
    BY DEF UiAudit
  <1>6. trail' \in [Versions -> UiTargets \cup {"absent"}]
    BY <1>1, <1>2, <1>5 DEF SharedTypes
  <1>7. SharedTypes' /\ Grows
    BY <1>1, <1>3, <1>6 DEF SharedTypes, Grows, rows
  <1>8. AuditClaimsAreTrue'
    BY <1>2, <1>3, <1>5 DEF IInv, AuditClaimsAreTrue, rows, Succeeded
  <1>9. OneActivePerEntity' /\ RowsOK' /\ ClearedOK' /\ FirstActivationHadEvidence'
    BY <1>3 DEF IInv, OneActivePerEntity, RowsOK, ClearedOK, FirstActivationHadEvidence, rows
  <1> QED BY <1>4, <1>7, <1>8, <1>9, OneCallerSteps

-----------------------------------------------------------------------------
(* Steps that write a row                                                  *)

\* A state is set whose stage has been prepared, and the index allows it.
LEMMA RowWritten ==
  ASSUME IInv, NEW v \in Versions, NEW t \in LIFECYCLE_STATES, SetState(v, t),
         t = "draft" \/ Before(t) \in reached[v], ~Conflicts(v, t),
         UNCHANGED << decisions, trail >>
  PROVE  /\ state' \in [Versions -> LIFECYCLE_STATES \cup {"absent"}]
         /\ reached' \in [Versions -> SUBSET LIFECYCLE_STATES]
         /\ \A w \in Versions : reached[w] \subseteq reached'[w]
         /\ OneActivePerEntity' /\ RowsOK' /\ AuditClaimsAreTrue'
  <1>1. SharedTypes
    BY Types DEF IInv
  <1>2. /\ state' \in [Versions -> LIFECYCLE_STATES \cup {"absent"}]
        /\ reached' \in [Versions -> SUBSET LIFECYCLE_STATES]
    BY <1>1 DEF SharedTypes, SetState
  <1>3. /\ state'[v] = t /\ reached'[v] = reached[v] \cup {t}
        /\ \A w \in Versions \ {v} : state'[w] = state[w] /\ reached'[w] = reached[w]
    BY <1>1 DEF SharedTypes, SetState
  <1>4. \A w \in Versions : reached[w] \subseteq reached'[w]
    BY <1>3
  <1>5. OneActivePerEntity'
    BY <1>3 DEF IInv, OneActivePerEntity, Conflicts, Siblings
  <1>6. Before(t) \in reached'[v]
    BY <1>3 DEF Before
  <1>7. RowsOK'
    BY <1>3, <1>6 DEF IInv, RowsOK
  <1>8. AuditClaimsAreTrue'
    BY <1>4 DEF IInv, AuditClaimsAreTrue
  <1> QED BY <1>2, <1>4, <1>5, <1>7, <1>8

LEMMA UpdateStep ==
  ASSUME IInv, NEW p \in Callers, Update(p)
  PROVE  IInv'
  <1>1. SharedTypes /\ LocalTypes /\ SubjectOK(p) /\ CallerOK(p) /\ pc[p] = "updating"
    BY Types DEF IInv, Update
  <1> DEFINE v == subject[p]
             t == target[p]
  <1>2. v \in Versions /\ t \in LIFECYCLE_STATES /\ Before(t) \in reached[v]
    BY <1>1 DEF SubjectOK, CallerOK
  <1>3. UNCHANGED << evidence, decisions, trail >>
    BY DEF Update
  <1>4. CASE Conflicts(v, t) /\ Fail(p) /\ UNCHANGED << rows, cleared, faults >>
    <2>1. Grows
      BY <1>4 DEF Grows, rows
    <2>2. OnlyOf(p)
      BY <1>1, <1>4, <2>1, Fails
    <2> QED BY <1>1, <1>3, <1>4, <2>2, LocalStep DEF logs, SharedTypes
  <1>5. CASE /\ ~Conflicts(v, t) /\ SetState(v, t) /\ Clear(p)
             /\ (Goto(p, "reloading") /\ UNCHANGED << faults, local >>) \/ Raise(p)
    <2>1. /\ state' \in [Versions -> LIFECYCLE_STATES \cup {"absent"}]
          /\ reached' \in [Versions -> SUBSET LIFECYCLE_STATES]
          /\ \A w \in Versions : reached[w] \subseteq reached'[w]
          /\ OneActivePerEntity' /\ RowsOK' /\ AuditClaimsAreTrue'
      BY <1>2, <1>3, <1>5, RowWritten
    <2>2. /\ cleared \subseteq cleared' /\ cleared' \in SUBSET Versions
          /\ t = "active" => v \in cleared'
      <3>1. cleared' = {w \in Versions :
                          w \in cleared \/ (w = v /\ t = "active" /\ p \notin Operators)}
        BY <1>5 DEF Clear
      <3>2. t = "active" /\ p \in Operators => v \in cleared
        BY <1>1 DEF CallerOK
      <3> QED BY <1>1, <1>2, <3>1, <3>2 DEF SharedTypes
    <2>3. Grows
      BY <2>1, <2>2 DEF Grows
    <2>4. SharedTypes'
      BY <1>1, <1>3, <1>5, <2>1, <2>2 DEF SharedTypes, Raise
    <2>5. t \in reached'[v] /\ \A w \in Versions : w # v => reached'[w] = reached[w]
      BY <1>1, <1>2, <1>5 DEF SetState, SharedTypes
    <2>6. reached'[v] = reached[v] \cup {t}
      BY <1>1, <1>2, <1>5 DEF SetState, SharedTypes
    <2>7. FirstActivationHadEvidence'
      BY <2>2, <2>5, <2>6 DEF IInv, FirstActivationHadEvidence
    <2>8. ClearedOK'
      BY <1>3, <2>2 DEF IInv, ClearedOK
    <2>9. ASSUME Goto(p, "reloading"), UNCHANGED local PROVE OnlyOf(p)
      <3>1. LocalTypes' /\ pc'[p] = "reloading"
        BY <1>1, <2>9 DEF Goto, local, LocalTypes
      <3>2. SubjectOK(p)' /\ CallerOK(p)'
        BY <1>1, <2>5, <2>9, <3>1 DEF SubjectOK, CallerOK, local
      <3> QED BY <1>1, <2>9, <3>1, <3>2 DEF OnlyOf, Goto, local, LocalTypes
    <2>10. OnlyOf(p)
      BY <1>1, <1>5, <2>3, <2>9, Fails DEF Raise
    <2> QED BY <2>1, <2>3, <2>4, <2>7, <2>8, <2>10, OneCallerSteps
  <1> QED BY <1>4, <1>5 DEF Update

LEMMA DraftStep ==
  ASSUME IInv, NEW p \in Callers, EnsureDraft(p)
  PROVE  IInv'
  <1>1. SharedTypes /\ LocalTypes /\ SubjectOK(p) /\ CallerOK(p) /\ pc[p] = "drafting"
    BY Types DEF IInv, EnsureDraft
  <1>2. p \in Bootstraps /\ p \notin Operators /\ goal[p] \in Versions
    BY <1>1 DEF CallerOK
  <1>3. UNCHANGED << logs, faults >>
    BY DEF EnsureDraft
  <1>4. CASE End(p) /\ UNCHANGED rows
    BY <1>1, <1>3, <1>4, Ends, LocalStep DEF SharedTypes
  <1>5. CASE SetState(goal[p], "draft") /\ Goto(p, "reloading") /\ UNCHANGED local
    <2>1. /\ state' \in [Versions -> LIFECYCLE_STATES \cup {"absent"}]
          /\ reached' \in [Versions -> SUBSET LIFECYCLE_STATES]
          /\ \A w \in Versions : reached[w] \subseteq reached'[w]
          /\ OneActivePerEntity' /\ RowsOK' /\ AuditClaimsAreTrue'
      BY <1>2, <1>3, <1>5, RowWritten DEF Conflicts, logs
    <2>2. SharedTypes' /\ Grows
      BY <1>1, <1>3, <2>1 DEF SharedTypes, Grows, logs
    <2>3. \A w \in Versions : "active" \in reached'[w] => "active" \in reached[w]
      BY <1>1, <1>2, <1>5 DEF SetState, SharedTypes
    <2>4. ClearedOK' /\ FirstActivationHadEvidence'
      BY <1>3, <2>3 DEF IInv, ClearedOK, FirstActivationHadEvidence, logs
    <2>5. LocalTypes' /\ pc'[p] = "reloading"
      BY <1>1, <1>5 DEF Goto, local, LocalTypes
    <2>6. SubjectOK(p)' /\ CallerOK(p)'
      BY <1>1, <1>2, <1>5, <2>5 DEF SubjectOK, CallerOK, local
    <2>7. OnlyOf(p)
      BY <1>1, <1>5, <2>5, <2>6 DEF OnlyOf, Goto, local, LocalTypes
    <2> QED BY <2>1, <2>2, <2>4, <2>7, OneCallerSteps
  <1> QED BY <1>4, <1>5 DEF EnsureDraft

-----------------------------------------------------------------------------
(* Steps of requests that are one call                                     *)

LEMMA OneCallRequest ==
  ASSUME IInv, NEW v \in Versions, ApiDraft(v) \/ UiRecordEvidence(v)
  PROVE  IInv'
  <1>1. SharedTypes /\ LocalTypes /\ \A p \in Callers : SubjectOK(p) /\ CallerOK(p)
    BY Types DEF IInv
  <1>2. UNCHANGED << decisions, trail, pc, local, faults >>
    BY DEF ApiDraft, UiRecordEvidence, logs
  <1>3. CASE ApiDraft(v)
    <2>1. SetState(v, "draft") /\ UNCHANGED logs
      BY <1>3 DEF ApiDraft
    <2>2. /\ state' \in [Versions -> LIFECYCLE_STATES \cup {"absent"}]
          /\ reached' \in [Versions -> SUBSET LIFECYCLE_STATES]
          /\ \A w \in Versions : reached[w] \subseteq reached'[w]
          /\ OneActivePerEntity' /\ RowsOK' /\ AuditClaimsAreTrue'
      BY <2>1, RowWritten DEF Conflicts, logs
    <2>3. \A w \in Versions : "active" \in reached'[w] => "active" \in reached[w]
      BY <1>1, <2>1 DEF SetState, SharedTypes
    <2>4. ClearedOK' /\ FirstActivationHadEvidence' /\ SharedTypes' /\ Grows
      BY <1>1, <1>2, <2>1, <2>2, <2>3
      DEF IInv, ClearedOK, FirstActivationHadEvidence, SharedTypes, Grows, logs
    <2> QED BY <2>2, <2>4, <1>1, <1>2, NoCallerSteps
  <1>4. CASE UiRecordEvidence(v)
    <2>1. PICK passes \in BOOLEAN :
            /\ evidence' = [evidence EXCEPT ![v] = passes]
            /\ cleared' = IF passes THEN cleared \cup {v} ELSE cleared
      BY <1>4 DEF UiRecordEvidence
    <2>2. UNCHANGED rows
      BY <1>4 DEF UiRecordEvidence
    <2>3. SharedTypes' /\ Grows
      BY <1>1, <1>2, <2>1, <2>2 DEF SharedTypes, Grows, rows
    <2>4. ClearedOK' /\ FirstActivationHadEvidence'
      BY <1>1, <2>1, <2>2 DEF IInv, ClearedOK, FirstActivationHadEvidence, SharedTypes, rows
    <2>5. OneActivePerEntity' /\ RowsOK' /\ AuditClaimsAreTrue'
      BY <1>2, <2>2 DEF IInv, OneActivePerEntity, RowsOK, AuditClaimsAreTrue, rows
    <2> QED BY <1>1, <1>2, <2>3, <2>4, <2>5, NoCallerSteps
  <1> QED BY <1>3, <1>4

-----------------------------------------------------------------------------
(* The theorems                                                            *)

LEMMA StepInv == IInv /\ [Next]_vars => IInv'
  <1> SUFFICES ASSUME IInv, [Next]_vars PROVE IInv'
    OBVIOUS
  <1>1. CASE UNCHANGED vars
    BY <1>1 DEF vars, IInv, TypeOK, OneActivePerEntity, RowsOK, ClearedOK,
       AuditClaimsAreTrue, FirstActivationHadEvidence, CallerOK
  <1>2. ASSUME NEW p \in Callers,
               \/ Transition(p) \/ ApiTransition(p) \/ Ui(p) \/ Ensure(p)
               \/ CallRaises(p) \/ Crash(p)
        PROVE  IInv'
    BY <1>2, ReadStep, UpdateStep, ReloadStep, BeginStep, EvaluateStep, DecideStep,
       AuditStep, DraftStep, LoopStep, FaultStep DEF Transition, Ui, Ensure
  <1>3. ASSUME NEW v \in Versions, ApiDraft(v) \/ UiRecordEvidence(v)
        PROVE  IInv'
    BY <1>3, OneCallRequest
  <1> QED BY <1>1, <1>2, <1>3 DEF Next

THEOREM Invariance == Spec => []IInv
  BY InitInv, StepInv, PTL DEF Spec

\* Every variable keeps to its type, and a caller that is at work always has a
\* version to work on.
THEOREM TypeCorrect == Spec => []TypeOK
  <1>1. IInv => TypeOK
    BY DEF IInv
  <1> QED BY <1>1, Invariance, PTL

\* The partial unique index of 008_control_plane_registry_v1.sql keeps an entity
\* from having two active versions, whoever races in transition_version_state.
THEOREM OneIsActive == Spec => []OneActivePerEntity
  <1>1. IInv => OneActivePerEntity
    BY DEF IInv
  <1> QED BY <1>1, Invariance, PTL

\* Although the update of transition_version_state does not look at the state it
\* overwrites, a version is in no state whose stages it has not passed through.
THEOREM StagesAreTaken == Spec => []NoStageSkipped
  <1>1. IInv => NoStageSkipped
    <2> SUFFICES ASSUME IInv, NEW v \in Versions, state[v] # "absent"
                 PROVE  /\ "draft" \in reached[v]
                        /\ state[v] = "active" => "validated" \in reached[v]
                        /\ state[v] = "deprecated" => "active" \in reached[v]
                        /\ state[v] = "retired" => "deprecated" \in reached[v]
      BY DEF NoStageSkipped
    <2>1. /\ state[v] \in reached[v] /\ state[v] \in LIFECYCLE_STATES
          /\ \A s \in reached[v] : Before(s) \in reached[v]
      BY DEF IInv, RowsOK, TypeOK
    <2>2. /\ "retired" \in reached[v] => "deprecated" \in reached[v]
          /\ "deprecated" \in reached[v] => "active" \in reached[v]
          /\ "active" \in reached[v] => "validated" \in reached[v]
          /\ "validated" \in reached[v] => "draft" \in reached[v]
      BY <2>1 DEF Before
    <2> QED BY <2>1, <2>2
  <1> QED BY <1>1, Invariance, PTL

\* A success row of the operator UI's logs is about something that happened.
THEOREM ClaimsAreTrue == Spec => []AuditClaimsAreTrue
  <1>1. IInv => AuditClaimsAreTrue
    BY DEF IInv
  <1> QED BY <1>1, Invariance, PTL

\* The governance evaluation of the operator UI is not got round by racing it,
\* as far as the first activation of a version goes.
THEOREM FirstActivationsAreCleared == Spec => []FirstActivationHadEvidence
  <1>1. IInv => FirstActivationHadEvidence
    BY DEF IInv
  <1> QED BY <1>1, Invariance, PTL

-----------------------------------------------------------------------------
(* Bootstraps among themselves                                             *)

\* Nobody uses the admin API or the operator UI to move a version.
OnlyBootstraps == Apis = {} /\ Operators = {}

\* A version that has been validated; bootstraps never take it out of these.
Fit == {"validated", "active", "deprecated"}

\* Which version a bootstrap is moving where, and that its own can be activated.
GoalOK(p) ==
  /\ pc[p] = "drafting" => subject[p] = goal[p] /\ target[p] = "active"
  /\ pc[p] = "looping" /\ seen[p] \in Fit => state[goal[p]] \in Fit
  /\ pc[p] \in {"reading", "updating", "reloading"} =>
       \/ /\ target[p] = "deprecated" /\ subject[p] \in Siblings(goal[p])
          /\ state[goal[p]] \in Fit
       \/ /\ target[p] = "active" /\ subject[p] = goal[p]
          /\ pc[p] # "reloading" => state[goal[p]] \in Fit
       \/ /\ target[p] = "validated" /\ subject[p] = goal[p]
          /\ pc[p] = "reloading" => state[goal[p]] \in Fit

\* A bootstrap that activates its version unless another one is active by then.
Committed(p) ==
  \/ pc[p] = "reading" /\ target[p] = "active"
  \/ /\ pc[p] = "reading" /\ target[p] = "deprecated"
     /\ state[subject[p]] \in {"active", "deprecated"}
  \/ pc[p] = "updating"
  \/ pc[p] = "reloading" /\ target[p] \in {"validated", "deprecated"}
  \/ pc[p] = "looping" /\ seen[p] \in {"validated", "deprecated"}

InUse(e) == \E w \in Versions : EntityOf[w] = e /\ state[w] = "active"
Awaited(e) == \E p \in Callers : Committed(p) /\ EntityOf[goal[p]] = e

\* Who takes the active version of an entity out of use is committed to replace it.
Covered ==
  \A v \in Versions : "active" \in reached[v] =>
    InUse(EntityOf[v]) \/ Awaited(EntityOf[v])

BootInv ==
  /\ \A p \in Callers : GoalOK(p)
  /\ faults = 0 => Covered

LEMMA InitBoot == Init => BootInv
  BY DEF Init, BootInv, GoalOK, Covered

InUseThen(e) == \E w \in Versions : EntityOf[w] = e /\ state'[w] = "active"

\* What a step of p does to what is covered.
Covers(p) ==
  /\ \A v \in Versions : "active" \in reached'[v] =>
       "active" \in reached[v] \/ state'[v] = "active"
  /\ \A w \in Versions : state[w] = "active" /\ state'[w] # "active" =>
       Committed(p)' /\ EntityOf[goal'[p]] = EntityOf[w]
  /\ Committed(p) =>
       (Committed(p)' /\ goal'[p] = goal[p]) \/ InUseThen(EntityOf[goal[p]])
  /\ \A q \in Callers \ {p} : Committed(q) =>
       Committed(q)' \/ (Committed(p)' /\ EntityOf[goal'[p]] = EntityOf[goal[q]])

LEMMA StillCovered ==
  ASSUME Covered, NEW p \in Callers, Covers(p),
         \A q \in Callers \ {p} : goal'[q] = goal[q]
  PROVE  Covered'
  <1> SUFFICES ASSUME NEW v \in Versions, "active" \in reached'[v]
               PROVE  InUse(EntityOf[v])' \/ Awaited(EntityOf[v])'
    BY DEF Covered
  <1>1. CASE state'[v] = "active"
    BY <1>1 DEF InUse
  <1>2. CASE "active" \in reached[v]
    <2>1. CASE InUse(EntityOf[v])
      <3>1. PICK w \in Versions : EntityOf[w] = EntityOf[v] /\ state[w] = "active"
        BY <2>1 DEF InUse
      <3>2. CASE state'[w] = "active"
        BY <3>1, <3>2 DEF InUse
      <3>3. CASE state'[w] # "active"
        <4>1. Committed(p)' /\ EntityOf[goal'[p]] = EntityOf[v]
          BY <3>1, <3>3 DEF Covers
        <4> QED BY <4>1 DEF Awaited
      <3> QED BY <3>2, <3>3
    <2>2. CASE Awaited(EntityOf[v])
      <3>1. PICK q \in Callers : Committed(q) /\ EntityOf[goal[q]] = EntityOf[v]
        BY <2>2 DEF Awaited
      <3>2. CASE q = p
        <4>1. (Committed(p)' /\ goal'[p] = goal[p]) \/ InUseThen(EntityOf[v])
          BY <3>1, <3>2 DEF Covers
        <4> QED BY <3>1, <3>2, <4>1 DEF Awaited, InUse, InUseThen
      <3>3. CASE q # p
        <4>1. Committed(q)' \/ (Committed(p)' /\ EntityOf[goal'[p]] = EntityOf[v])
          BY <3>1, <3>3 DEF Covers
        <4>2. goal'[q] = goal[q]
          BY <3>3
        <4> QED BY <3>1, <4>1, <4>2 DEF Awaited
      <3> QED BY <3>2, <3>3
    <2> QED BY <1>2, <2>1, <2>2 DEF Covered
  <1> QED BY <1>1, <1>2 DEF Covers

FitStays == \A v \in Versions : state[v] \in Fit => state'[v] \in Fit

\* What a bootstrap knows holds as long as versions stay fit.
LEMMA OthersGoals ==
  ASSUME IInv, NEW q \in Callers, q \in Bootstraps, GoalOK(q), FitStays,
         pc'[q] = pc[q], subject'[q] = subject[q], target'[q] = target[q],
         seen'[q] = seen[q], goal'[q] = goal[q]
  PROVE  GoalOK(q)'
  <1>1. CASE pc[q] = "idle"
    BY <1>1 DEF GoalOK
  <1>2. CASE pc[q] # "idle"
    <2>1. goal[q] \in Versions
      BY <1>2 DEF IInv, CallerOK
    <2>2. state[goal[q]] \in Fit => state'[goal[q]] \in Fit
      BY <2>1 DEF FitStays
    <2> QED BY <2>2 DEF GoalOK, Siblings
  <1> QED BY <1>1, <1>2

\* One step of p, by what it does to p and to the versions.
LEMMA BootStep ==
  ASSUME OnlyBootstraps, IInv, BootInv, NEW p \in Callers, GoalOK(p)', FitStays,
         \A q \in Callers \ {p} :
           /\ pc'[q] = pc[q] /\ subject'[q] = subject[q] /\ target'[q] = target[q]
           /\ seen'[q] = seen[q] /\ goal'[q] = goal[q],
         faults' = 0 => faults = 0 /\ Covers(p)
  PROVE  BootInv'
  <1>1. \A q \in Callers \ {p} : GoalOK(q)'
    BY OthersGoals DEF BootInv, OnlyBootstraps
  <1>2. faults' = 0 => Covered'
    BY StillCovered DEF BootInv
  <1> QED BY <1>1, <1>2 DEF BootInv

\* A step that leaves the versions alone.
LEMMA QuietBoot ==
  ASSUME OnlyBootstraps, IInv, BootInv, NEW p \in Callers, GoalOK(p)', UNCHANGED rows,
         \A q \in Callers \ {p} :
           /\ pc'[q] = pc[q] /\ subject'[q] = subject[q] /\ target'[q] = target[q]
           /\ seen'[q] = seen[q] /\ goal'[q] = goal[q],
         faults' = 0 =>
           /\ faults = 0
           /\ Committed(p) =>
                (Committed(p)' /\ goal'[p] = goal[p]) \/ InUse(EntityOf[goal[p]])
  PROVE  BootInv'
  <1>1. FitStays
    BY DEF FitStays, rows
  <1>2. \A q \in Callers \ {p} : Committed(q) => Committed(q)'
    BY DEF Committed, rows
  <1>3. InUse(EntityOf[goal[p]]) => InUseThen(EntityOf[goal[p]])
    BY DEF InUse, InUseThen, rows
  <1>4. faults' = 0 => faults = 0 /\ Covers(p)
    BY <1>2, <1>3 DEF Covers, rows
  <1> QED BY <1>1, <1>4, BootStep

LEMMA EndLocals ==
  ASSUME LocalTypes, NEW p \in Callers, End(p)
  PROVE  /\ pc'[p] = "idle"
         /\ \A q \in Callers \ {p} :
              /\ pc'[q] = pc[q] /\ subject'[q] = subject[q] /\ target'[q] = target[q]
              /\ seen'[q] = seen[q] /\ goal'[q] = goal[q]
  BY DEF End, Goto, LocalTypes

LEMMA BootEnds ==
  ASSUME OnlyBootstraps, IInv, BootInv, NEW p \in Callers, End(p), UNCHANGED rows,
         faults' = 0 => faults = 0 /\ (Committed(p) => InUse(EntityOf[goal[p]]))
  PROVE  BootInv'
  <1>1. LocalTypes
    BY Types DEF IInv
  <1>2. GoalOK(p)'
    BY <1>1, EndLocals DEF GoalOK
  <1> QED BY <1>1, <1>2, EndLocals, QuietBoot

\* The row comes back to a bootstrap that has read it or written it.
LEMMA BootReturns ==
  ASSUME OnlyBootstraps, IInv, BootInv, NEW p \in Callers, pc[p] \in {"reading", "reloading"},
         Return(p, state[subject[p]]), UNCHANGED << rows, faults >>,
         pc[p] = "reading" => state[subject[p]] = target[p]
  PROVE  BootInv'
  <1> DEFINE s == state[subject[p]]
  <1>1. LocalTypes /\ GoalOK(p) /\ goal[p] \in Versions /\ p \in Bootstraps
    BY Types DEF IInv, BootInv, CallerOK, OnlyBootstraps
  <1>2. CASE /\ subject[p] = goal[p]
             /\ seen' = [seen EXCEPT ![p] = s] /\ Goto(p, "looping")
             /\ UNCHANGED << subject, target, goal, outcome >>
    <2>1. /\ pc'[p] = "looping" /\ seen'[p] = s /\ goal' = goal /\ state' = state
          /\ \A q \in Callers \ {p} :
               /\ pc'[q] = pc[q] /\ subject'[q] = subject[q] /\ target'[q] = target[q]
               /\ seen'[q] = seen[q] /\ goal'[q] = goal[q]
      BY <1>1, <1>2 DEF Goto, LocalTypes, rows
    <2>2. GoalOK(p)'
      BY <1>2, <2>1 DEF GoalOK
    <2>3. Committed(p) => Committed(p)' \/ s = "active"
      BY <1>1, <1>2, <2>1 DEF Committed, GoalOK, Siblings, Fit
    <2>4. s = "active" => InUse(EntityOf[goal[p]])
      BY <1>1, <1>2 DEF InUse
    <2> QED BY <2>1, <2>2, <2>3, <2>4, QuietBoot
  <1>3. CASE /\ subject[p] # goal[p]
             /\ subject' = [subject EXCEPT ![p] = goal[p]]
             /\ target' = [target EXCEPT ![p] = "active"]
             /\ Goto(p, "reading")
             /\ UNCHANGED << seen, goal, outcome >>
    <2>1. /\ pc'[p] = "reading" /\ subject'[p] = goal[p] /\ target'[p] = "active"
          /\ goal' = goal /\ state' = state
          /\ \A q \in Callers \ {p} :
               /\ pc'[q] = pc[q] /\ subject'[q] = subject[q] /\ target'[q] = target[q]
               /\ seen'[q] = seen[q] /\ goal'[q] = goal[q]
      BY <1>1, <1>3 DEF Goto, LocalTypes, rows
    <2>2. GoalOK(p)' /\ Committed(p)'
      BY <1>1, <1>3, <2>1 DEF GoalOK, Committed
    <2> QED BY <2>1, <2>2, QuietBoot
  <1> QED BY <1>1, <1>2, <1>3 DEF Return, OnlyBootstraps

LEMMA BootReads ==
  ASSUME OnlyBootstraps, IInv, BootInv, NEW p \in Callers, Read(p)
  PROVE  BootInv'
  <1> DEFINE s == state[subject[p]]
  <1>1. LocalTypes /\ GoalOK(p) /\ pc[p] = "reading" /\ p \notin Operators
    BY Types DEF IInv, BootInv, Read, OnlyBootstraps
  <1>2. UNCHANGED << rows, faults >>
    BY DEF Read
  <1>3. CASE s = target[p] /\ Return(p, s)
    BY <1>1, <1>2, <1>3, BootReturns
  <1>4. CASE s # target[p] /\ target[p] \notin Allowed(s) /\ Fail(p)
    <2>1. ~ Committed(p)
      BY <1>1, <1>4 DEF Committed, GoalOK, Fit, Allowed
    <2>2. End(p)
      BY <1>1, <1>4 DEF Fail, InTry
    <2> QED BY <1>2, <2>1, <2>2, BootEnds
  <1>5. CASE Goto(p, "updating") /\ UNCHANGED local
    <2>1. /\ pc'[p] = "updating" /\ UNCHANGED << subject, target, seen, goal >>
          /\ \A q \in Callers \ {p} : pc'[q] = pc[q]
      BY <1>1, <1>5 DEF Goto, LocalTypes, local
    <2>2. GoalOK(p)' /\ Committed(p)'
      BY <1>1, <1>2, <2>1 DEF GoalOK, Committed, rows, Siblings
    <2> QED BY <1>2, <2>1, <2>2, QuietBoot
  <1> QED BY <1>3, <1>4, <1>5 DEF Read

\* The update of another caller's version overwrites what that caller counts on only
\* if it commits its own.
LEMMA BootUpdates ==
  ASSUME OnlyBootstraps, IInv, BootInv, NEW p \in Callers, Update(p)
  PROVE  BootInv'
  <1> DEFINE v == subject[p]
             t == target[p]
  <1>1. /\ SharedTypes /\ LocalTypes /\ GoalOK(p) /\ pc[p] = "updating" /\ p \notin Operators
        /\ v \in Versions /\ goal[p] \in Versions /\ EntityOf[goal[p]] = EntityOf[v]
    BY Types DEF IInv, BootInv, Update, OnlyBootstraps, SubjectOK, CallerOK, GoalOK, Siblings
  <1>2. t \in Fit
    BY <1>1 DEF GoalOK, Fit
  <1>3. CASE Conflicts(v, t) /\ Fail(p) /\ UNCHANGED << rows, cleared, faults >>
    <2>1. End(p)
      BY <1>1, <1>3 DEF Fail, InTry
    <2>2. InUse(EntityOf[goal[p]])
      BY <1>1, <1>3 DEF Conflicts, Siblings, InUse
    <2> QED BY <1>3, <2>1, <2>2, BootEnds
  <1>4. CASE /\ SetState(v, t)
             /\ (Goto(p, "reloading") /\ UNCHANGED << faults, local >>) \/ Raise(p)
    <2>1. /\ state'[v] = t /\ reached'[v] = reached[v] \cup {t}
          /\ \A w \in Versions \ {v} : state'[w] = state[w] /\ reached'[w] = reached[w]
      BY <1>1, <1>4 DEF SetState, SharedTypes
    <2>2. FitStays
      BY <1>2, <2>1 DEF FitStays
    <2>3. CASE Raise(p)
      <3>1. End(p) /\ faults' = faults + 1
        BY <1>1, <2>3 DEF Raise, Fail, InTry
      <3>2. faults' # 0
        BY <1>1, <3>1 DEF SharedTypes
      <3>3. GoalOK(p)'
        BY <1>1, <3>1, EndLocals DEF GoalOK
      <3> QED BY <1>1, <2>2, <3>1, <3>2, <3>3, EndLocals, BootStep
    <2>4. CASE Goto(p, "reloading") /\ UNCHANGED << faults, local >>
      <3>1. /\ pc'[p] = "reloading" /\ UNCHANGED << subject, target, seen, goal, faults >>
            /\ \A q \in Callers \ {p} : pc'[q] = pc[q]
        BY <1>1, <2>4 DEF Goto, LocalTypes, local
      <3>2. GoalOK(p)'
        BY <1>1, <2>1, <2>2, <3>1 DEF GoalOK, FitStays, Siblings, Fit
      <3>3. t # "active" => Committed(p)'
        BY <1>2, <3>1 DEF Committed, Fit
      <3>4. \A u \in Versions : "active" \in reached'[u] =>
              "active" \in reached[u] \/ state'[u] = "active"
        BY <2>1
      <3>5. \A w \in Versions : state[w] = "active" /\ state'[w] # "active" =>
              Committed(p)' /\ EntityOf[goal'[p]] = EntityOf[w]
        BY <1>1, <2>1, <3>1, <3>3
      <3>6. Committed(p)' \/ InUseThen(EntityOf[goal[p]])
        BY <1>1, <2>1, <3>3 DEF InUseThen
      <3>7. ASSUME NEW q \in Callers \ {p}, Committed(q), ~ Committed(q)'
            PROVE  Committed(p)' /\ EntityOf[goal'[p]] = EntityOf[goal[q]]
        <4>1. /\ pc[q] = "reading" /\ target[q] = "deprecated"
              /\ state[subject[q]] \in {"active", "deprecated"}
              /\ state'[subject[q]] \notin {"active", "deprecated"}
          BY <3>1, <3>7 DEF Committed
        <4>2. subject[q] \in Siblings(goal[q])
          BY <4>1 DEF BootInv, GoalOK
        <4>3. subject[q] \in Versions /\ EntityOf[subject[q]] = EntityOf[goal[q]]
          BY <4>2 DEF Siblings
        <4>4. subject[q] = v /\ t = "validated"
          BY <1>2, <2>1, <4>1, <4>3 DEF Fit
        <4> QED BY <1>1, <3>1, <3>3, <4>3, <4>4
      <3>8. Covers(p)
        BY <3>1, <3>4, <3>5, <3>6, <3>7 DEF Covers
      <3> QED BY <2>2, <3>1, <3>2, <3>8, BootStep
    <2> QED BY <1>4, <2>3, <2>4
  <1> QED BY <1>3, <1>4 DEF Update

LEMMA BootBegins ==
  ASSUME OnlyBootstraps, IInv, BootInv, NEW p \in Callers, EnsureBegin(p)
  PROVE  BootInv'
  <1>1. LocalTypes
    BY Types DEF IInv
  <1>2. PICK v \in Versions :
          /\ Begin(p, v, "active", IF state[v] = "absent" THEN "drafting" ELSE "looping")
          /\ goal' = [goal EXCEPT ![p] = v]
          /\ seen' = [seen EXCEPT ![p] = state[v]]
    BY DEF EnsureBegin
  <1>3. UNCHANGED << rows, faults >> /\ pc[p] = "idle"
    BY <1>2 DEF EnsureBegin, Begin
  <1>4. /\ pc'[p] = IF state[v] = "absent" THEN "drafting" ELSE "looping"
        /\ subject'[p] = v /\ target'[p] = "active" /\ goal'[p] = v /\ seen'[p] = state[v]
        /\ \A q \in Callers \ {p} :
             /\ pc'[q] = pc[q] /\ subject'[q] = subject[q] /\ target'[q] = target[q]
             /\ seen'[q] = seen[q] /\ goal'[q] = goal[q]
    BY <1>1, <1>2 DEF Begin, Goto, LocalTypes
  <1>5. GoalOK(p)' /\ ~ Committed(p)
    BY <1>3, <1>4 DEF GoalOK, Committed, rows
  <1> QED BY <1>3, <1>4, <1>5, QuietBoot

LEMMA BootDrafts ==
  ASSUME OnlyBootstraps, IInv, BootInv, NEW p \in Callers, EnsureDraft(p)
  PROVE  BootInv'
  <1>1. /\ SharedTypes /\ LocalTypes /\ GoalOK(p) /\ pc[p] = "drafting"
        /\ goal[p] \in Versions /\ ~ Committed(p)
    BY Types DEF IInv, BootInv, EnsureDraft, CallerOK, OnlyBootstraps, Committed
  <1>2. faults' = faults
    BY DEF EnsureDraft
  <1>3. CASE End(p) /\ UNCHANGED rows
    BY <1>1, <1>2, <1>3, BootEnds
  <1>4. CASE /\ state[goal[p]] = "absent" /\ SetState(goal[p], "draft")
             /\ Goto(p, "reloading") /\ UNCHANGED local
    <2>1. /\ reached'[goal[p]] = reached[goal[p]] \cup {"draft"} /\ state'[goal[p]] = "draft"
          /\ \A w \in Versions \ {goal[p]} : state'[w] = state[w] /\ reached'[w] = reached[w]
      BY <1>1, <1>4 DEF SetState, SharedTypes
    <2>2. /\ pc'[p] = "reloading" /\ UNCHANGED << subject, target, seen, goal >>
          /\ \A q \in Callers \ {p} : pc'[q] = pc[q]
      BY <1>1, <1>4 DEF Goto, LocalTypes, local
    <2>3. FitStays
      BY <1>4, <2>1 DEF FitStays, Fit
    <2>4. GoalOK(p)'
      BY <1>1, <2>2 DEF GoalOK
    <2>5. \A q \in Callers \ {p} : Committed(q) => Committed(q)'
      <3> SUFFICES ASSUME NEW q \in Callers \ {p}, Committed(q) PROVE Committed(q)'
        OBVIOUS
      <3>1. pc[q] # "idle" => subject[q] \in Versions
        BY Types DEF IInv, SubjectOK
      <3> QED BY <1>4, <2>1, <2>2, <3>1 DEF Committed
    <2>6. Covers(p)
      BY <1>1, <1>4, <2>1, <2>5 DEF Covers
    <2> QED BY <1>2, <2>2, <2>3, <2>4, <2>6, BootStep
  <1> QED BY <1>3, <1>4 DEF EnsureDraft

LEMMA BootLoops ==
  ASSUME OnlyBootstraps, IInv, BootInv, NEW p \in Callers, EnsureLoop(p)
  PROVE  BootInv'
  <1>1. LocalTypes /\ GoalOK(p) /\ pc[p] = "looping" /\ goal[p] \in Versions
    BY Types DEF IInv, BootInv, EnsureLoop, CallerOK, OnlyBootstraps
  <1>2. UNCHANGED << rows, faults >>
    BY DEF EnsureLoop
  <1>3. CASE seen[p] \in {"active", "retired"} /\ End(p)
    BY <1>1, <1>2, <1>3, BootEnds DEF Committed
  <1>4. ASSUME NEW v \in Versions, NEW t \in LIFECYCLE_STATES, Move(p, v, t)
        PROVE  /\ pc'[p] = "reading" /\ subject'[p] = v /\ target'[p] = t /\ goal' = goal
               /\ \A q \in Callers \ {p} :
                    /\ pc'[q] = pc[q] /\ subject'[q] = subject[q] /\ target'[q] = target[q]
                    /\ seen'[q] = seen[q] /\ goal'[q] = goal[q]
    BY <1>1, <1>4 DEF Move, Goto, LocalTypes
  <1>5. CASE seen[p] = "draft" /\ Move(p, goal[p], "validated")
    <2>1. GoalOK(p)' /\ ~ Committed(p)
      BY <1>1, <1>4, <1>5 DEF GoalOK, Committed
    <2> QED BY <1>1, <1>2, <1>4, <1>5, <2>1, QuietBoot
  <1>6. ASSUME seen[p] \in {"validated", "deprecated"}, NEW w \in ActiveSiblings(goal[p]),
               Move(p, w, "deprecated")
        PROVE  BootInv'
    <2>1. w \in Siblings(goal[p]) /\ w \in Versions /\ EntityOf[w] = EntityOf[goal[p]]
          /\ state[w] = "active"
      BY <1>6 DEF ActiveSiblings, Siblings
    <2>2. GoalOK(p)'
      BY <1>1, <1>2, <1>4, <1>6, <2>1 DEF GoalOK, Fit, Siblings, rows
    <2>3. InUse(EntityOf[goal[p]])
      BY <2>1 DEF InUse
    <2> QED BY <1>2, <1>4, <1>6, <2>1, <2>2, <2>3, QuietBoot
  <1>7. CASE seen[p] \in {"validated", "deprecated"} /\ Move(p, goal[p], "active")
    <2>1. GoalOK(p)' /\ Committed(p)'
      BY <1>1, <1>2, <1>4, <1>7 DEF GoalOK, Fit, Committed, rows
    <2> QED BY <1>1, <1>2, <1>4, <1>7, <2>1, QuietBoot
  <1> QED BY <1>3, <1>5, <1>6, <1>7 DEF EnsureLoop

LEMMA BootFaults ==
  ASSUME OnlyBootstraps, IInv, BootInv, NEW p \in Callers, CallRaises(p) \/ Crash(p)
  PROVE  BootInv'
  <1>1. faults' = faults + 1 /\ faults \in Nat /\ UNCHANGED rows /\ End(p)
    BY DEF CallRaises, Crash, Raise, Fail, InTry, OnlyBootstraps, IInv, TypeOK
  <1> QED BY <1>1, BootEnds

LEMMA BootOthers ==
  ASSUME OnlyBootstraps, IInv, BootInv, UNCHANGED << pc, local, faults >>,
         UNCHANGED rows \/ \E v \in Versions : ApiDraft(v)
  PROVE  BootInv'
  <1>1. SharedTypes /\ \A p \in Callers : SubjectOK(p)
    BY Types DEF IInv
  <1>2. \A w \in Versions :
          /\ "active" \in reached'[w] => "active" \in reached[w]
          /\ state[w] \in Fit => state'[w] = state[w]
    BY <1>1 DEF ApiDraft, SetState, SharedTypes, Fit, rows
  <1>3. \A q \in Callers : GoalOK(q)'
    BY <1>2, OthersGoals DEF FitStays, BootInv, OnlyBootstraps, local
  <1>4. \A q \in Callers : Committed(q) => Committed(q)'
    <2> SUFFICES ASSUME NEW q \in Callers, Committed(q) PROVE Committed(q)'
      OBVIOUS
    <2>1. pc[q] # "idle" => subject[q] \in Versions
      BY <1>1 DEF SubjectOK
    <2> QED BY <1>2, <2>1 DEF Committed, Fit, local
  <1>5. Covered => Covered'
    <2> SUFFICES ASSUME Covered, NEW v \in Versions, "active" \in reached'[v]
                 PROVE  InUse(EntityOf[v])' \/ Awaited(EntityOf[v])'
      BY DEF Covered
    <2>1. InUse(EntityOf[v]) \/ Awaited(EntityOf[v])
      BY <1>2 DEF Covered
    <2>2. InUse(EntityOf[v]) => InUse(EntityOf[v])'
      BY <1>2 DEF InUse, Fit
    <2>3. Awaited(EntityOf[v]) => Awaited(EntityOf[v])'
      BY <1>4 DEF Awaited, local
    <2> QED BY <2>1, <2>2, <2>3
  <1> QED BY <1>3, <1>5 DEF BootInv

LEMMA StepBoot ==
  ASSUME OnlyBootstraps
  PROVE  IInv /\ BootInv /\ [Next]_vars => BootInv'
  <1> SUFFICES ASSUME IInv, BootInv, [Next]_vars PROVE BootInv'
    OBVIOUS
  <1>1. CASE UNCHANGED vars
    BY <1>1, BootOthers DEF vars, local, rows
  <1>2. ASSUME NEW p \in Callers, Transition(p) PROVE BootInv'
    <2>1. CASE Reload(p)
      BY <2>1, BootReturns DEF Reload
    <2> QED BY <1>2, <2>1, BootReads, BootUpdates DEF Transition
  <1>3. ASSUME NEW p \in Callers, Ensure(p) \/ CallRaises(p) \/ Crash(p) PROVE BootInv'
    BY <1>3, BootBegins, BootDrafts, BootLoops, BootFaults DEF Ensure
  <1>4. ASSUME NEW p \in Callers, ApiTransition(p) \/ Ui(p) PROVE FALSE
    BY <1>4 DEF ApiTransition, Ui, UiSubmit, UiEvaluate, UiDecide, UiAudit, IInv, CallerOK,
       OnlyBootstraps
  <1>5. ASSUME NEW v \in Versions, ApiDraft(v) \/ UiRecordEvidence(v) PROVE BootInv'
    BY <1>5, BootOthers DEF ApiDraft, UiRecordEvidence, OnlyBootstraps
  <1> QED BY <1>1, <1>2, <1>3, <1>4, <1>5 DEF Next

\* As long as only the bootstrap command moves versions, and none of its calls is
\* broken off, an entity that has had an active version has one whenever all of them
\* have ended: ensure_active_version races with itself without harm.
THEOREM BootstrapsKeepOneActive ==
  ASSUME OnlyBootstraps
  PROVE  Spec => []BootstrapsLeaveOneActive
  <1>1. Init => IInv /\ BootInv
    BY InitInv, InitBoot
  <1>2. (IInv /\ BootInv) /\ [Next]_vars => (IInv /\ BootInv)'
    BY StepInv, StepBoot
  <1>3. IInv /\ BootInv => BootstrapsLeaveOneActive
    BY DEF BootInv, Covered, InUse, Awaited, Committed, BootstrapsLeaveOneActive
  <1> QED BY <1>1, <1>2, <1>3, PTL DEF Spec

-----------------------------------------------------------------------------
(* Callers that do not race                                                *)

\* No two callers are between the read and the update of the same version.
\* They may be at any other point of it, and at other versions.
NobodyRaces ==
  \A p, q \in Callers :
    pc[p] = "updating" /\ pc[q] = "updating" /\ subject[p] = subject[q] => p = q

\* What a caller has checked of the row when it read it still holds at the update.
CheckHolds(p) == pc[p] = "updating" => target[p] \in Allowed(state[subject[p]])

RaceInv == \A p \in Callers : CheckHolds(p)

LEMMA InitRace == Init => RaceInv
  BY DEF Init, RaceInv, CheckHolds

\* A caller that comes to its update has just read the row.
LEMMA ReadsBefore ==
  ASSUME IInv, RaceInv, NEW p \in Callers,
         \/ Transition(p) \/ ApiTransition(p) \/ Ui(p) \/ Ensure(p)
         \/ CallRaises(p) \/ Crash(p)
  PROVE  CheckHolds(p)'
  <1>1. SUFFICES ASSUME pc'[p] = "updating" PROVE target'[p] \in Allowed(state'[subject'[p]])
    BY DEF CheckHolds
  <1>2. pc \in [Callers -> {"idle", "reading", "updating", "reloading", "evaluating",
                            "deciding", "auditing", "drafting", "looping"}]
    BY DEF IInv, TypeOK
  <1>3. CASE Read(p)
    BY <1>1, <1>2, <1>3
       DEF Read, Return, Fail, InTry, Conclude, End, Goto, rows, local
  <1>4. CASE Update(p) \/ Reload(p)
    BY <1>1, <1>2, <1>4
       DEF Update, Reload, Return, Raise, Fail, InTry, Conclude, End, Goto
  <1>5. CASE ApiTransition(p) \/ Ui(p) \/ Ensure(p)
    BY <1>1, <1>2, <1>5
       DEF ApiTransition, Ui, UiSubmit, UiEvaluate, UiDecide, UiAudit, Ensure, EnsureBegin,
           EnsureDraft, EnsureLoop, Begin, Move, End, Goto
  <1>6. CASE CallRaises(p) \/ Crash(p)
    BY <1>1, <1>2, <1>6 DEF CallRaises, Crash, Raise, Fail, InTry, Conclude, End, Goto
  <1> QED BY <1>3, <1>4, <1>5, <1>6 DEF Transition

\* What a step does to a version: it is drafted, or the one caller at its
\* update moves it to where that caller has checked it may go.
LEMMA HowVersionsMove ==
  ASSUME IInv, [Next]_vars, NEW v \in Versions, state'[v] # state[v]
  PROVE  \/ state[v] = "absent"
         \/ \E p \in Callers : Update(p) /\ subject[p] = v /\ state'[v] = target[p]
  <1>1. CASE UNCHANGED vars
    BY <1>1 DEF vars
  <1>2. ASSUME NEW w \in Versions, ApiDraft(w) \/ UiRecordEvidence(w)
        PROVE  state[v] = "absent"
    BY <1>2 DEF ApiDraft, UiRecordEvidence, SetState, rows, IInv, TypeOK
  <1>3. ASSUME NEW p \in Callers, Update(p)
        PROVE  subject[p] = v /\ state'[v] = target[p]
    <2>1. pc[p] = "updating" /\ state' = [state EXCEPT ![subject[p]] = target[p]]
      BY <1>3 DEF Update, SetState, rows
    <2> QED BY <2>1 DEF IInv, TypeOK
  <1>4. ASSUME NEW p \in Callers, EnsureDraft(p)
        PROVE  state[v] = "absent"
    BY <1>4 DEF EnsureDraft, SetState, rows, IInv, TypeOK
  <1>5. ASSUME NEW p \in Callers,
               \/ Read(p) \/ Reload(p) \/ ApiTransition(p) \/ Ui(p) \/ EnsureBegin(p)
               \/ EnsureLoop(p) \/ CallRaises(p) \/ Crash(p)
        PROVE  FALSE
    BY <1>5 DEF Read, Reload, ApiTransition, Ui, UiSubmit, UiEvaluate, UiDecide, UiAudit,
       EnsureBegin, EnsureLoop, CallRaises, Crash, rows
  <1> QED BY <1>1, <1>2, <1>3, <1>4, <1>5 DEF Next, Transition, Ensure

\* A caller at its update is not moved by others.
LEMMA OthersStay ==
  ASSUME IInv, NEW p \in Callers, NEW q \in Callers \ {p},
         \/ Transition(p) \/ ApiTransition(p) \/ Ui(p) \/ Ensure(p)
         \/ CallRaises(p) \/ Crash(p)
  PROVE  pc'[q] = pc[q] /\ subject'[q] = subject[q] /\ target'[q] = target[q]
  <1>1. TypeOK
    BY DEF IInv
  <1>2. CASE Transition(p)
    BY <1>1, <1>2 DEF Transition, Read, Update, Reload, Return, Raise, Fail, InTry, Conclude,
       End, Goto, local, TypeOK
  <1>3. CASE ApiTransition(p) \/ Ui(p)
    BY <1>1, <1>3 DEF ApiTransition, Ui, UiSubmit, UiEvaluate, UiDecide, UiAudit, Begin, End,
       Goto, local, TypeOK
  <1>4. CASE Ensure(p)
    BY <1>1, <1>4 DEF Ensure, EnsureBegin, EnsureDraft, EnsureLoop, Begin, Move, End, Goto,
       local, TypeOK
  <1>5. CASE CallRaises(p) \/ Crash(p)
    BY <1>1, <1>5 DEF CallRaises, Crash, Raise, Fail, InTry, Conclude, End, Goto, local, TypeOK
  <1> QED BY <1>2, <1>3, <1>4, <1>5

LEMMA RaceInductive ==
  ASSUME IInv, RaceInv, NobodyRaces, [Next]_vars
  PROVE  RaceInv'
  <1>1. ASSUME NEW q \in Callers, pc[q] = "updating", pc'[q] = pc[q], subject'[q] = subject[q],
               target'[q] = target[q]
        PROVE  CheckHolds(q)'
    <2>1. target[q] \in Allowed(state[subject[q]]) /\ subject[q] \in Versions
      BY <1>1 DEF RaceInv, CheckHolds, IInv, TypeOK
    <2>2. state[subject[q]] # "absent"
      BY <2>1 DEF Allowed
    <2>3. state'[subject[q]] = state[subject[q]]
      <3> SUFFICES ASSUME state'[subject[q]] # state[subject[q]] PROVE FALSE
        OBVIOUS
      <3>1. PICK p \in Callers : Update(p) /\ subject[p] = subject[q]
        BY <2>1, <2>2, HowVersionsMove
      <3>2. p = q
        BY <1>1, <3>1 DEF Update, NobodyRaces
      <3>3. pc'[q] # "updating"
        BY <3>1, <3>2 DEF Update, Raise, Fail, Conclude, End, Goto, IInv, TypeOK
      <3> QED BY <1>1, <3>3
    <2> QED BY <1>1, <2>1, <2>3 DEF CheckHolds
  <1>2. CASE UNCHANGED vars
    BY <1>2 DEF vars, RaceInv, CheckHolds
  <1>3. ASSUME NEW v \in Versions, ApiDraft(v) \/ UiRecordEvidence(v)
        PROVE  RaceInv'
    <2> SUFFICES ASSUME NEW q \in Callers, pc'[q] = "updating" PROVE CheckHolds(q)'
      BY DEF RaceInv, CheckHolds
    <2>1. pc' = pc /\ subject' = subject /\ target' = target
      BY <1>3 DEF ApiDraft, UiRecordEvidence, local
    <2> QED BY <1>1, <2>1
  <1>4. ASSUME NEW p \in Callers,
               \/ Transition(p) \/ ApiTransition(p) \/ Ui(p) \/ Ensure(p)
               \/ CallRaises(p) \/ Crash(p)
        PROVE  RaceInv'
    <2> SUFFICES ASSUME NEW q \in Callers, pc'[q] = "updating" PROVE CheckHolds(q)'
      BY DEF RaceInv, CheckHolds
    <2>1. CASE q = p
      BY <1>4, <2>1, ReadsBefore
    <2>2. CASE q # p
      <3>1. pc'[q] = pc[q] /\ subject'[q] = subject[q] /\ target'[q] = target[q]
        BY <1>4, <2>2, OthersStay
      <3> QED BY <1>1, <3>1
    <2> QED BY <2>1, <2>2
  <1> QED BY <1>2, <1>3, <1>4 DEF Next

\* Divergence 1 takes two callers between the read and the update of one
\* version: as long as that does not happen, each transition that any number of
\* API callers, UI requests and bootstraps make is an edge of
\* ENTITY_LIFECYCLE.md, whatever raises and whoever dies on the way.
THEOREM UnracedFollowLifecycle == Spec /\ []NobodyRaces => LifecycleFollowed
  <1>1. IInv /\ RaceInv /\ NobodyRaces /\ [Next]_vars => RaceInv'
    BY RaceInductive
  <1>2. ASSUME IInv, RaceInv, [Next]_vars
        PROVE  [\A v \in Versions : state'[v] # state[v] =>
                  state[v] = "absent" \/ state'[v] \in Allowed(state[v])]_vars
    <2> SUFFICES ASSUME NEW v \in Versions, state'[v] # state[v]
                 PROVE  state[v] = "absent" \/ state'[v] \in Allowed(state[v])
      OBVIOUS
    <2>1. CASE state[v] = "absent"
      BY <2>1
    <2>2. CASE state[v] # "absent"
      <3>1. PICK p \in Callers : Update(p) /\ subject[p] = v /\ state'[v] = target[p]
        BY <1>2, <2>2, HowVersionsMove
      <3>2. CheckHolds(p) /\ pc[p] = "updating"
        BY <1>2, <3>1 DEF RaceInv, Update
      <3> QED BY <3>1, <3>2 DEF CheckHolds
    <2> QED BY <2>1, <2>2
  <1> QED BY <1>1, <1>2, InitRace, Invariance, PTL DEF Spec, LifecycleFollowed

=============================================================================
