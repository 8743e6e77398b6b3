--------------------------- MODULE RunFlowProofs ---------------------------
(* Theorems about RunFlow for any number of runs, generations, callers and *)
(* troubles.                                                               *)
EXTENDS RunFlow, IndexProofs

USE AliasAssumption, NoGenerationAssumption, FaultAssumption, RunsAssumption,
    OwnCollectionAssumption, TroublesAssumption
    DEF Passed

-----------------------------------------------------------------------------
(* The runs, admins and make are nothing but callers of the lifecycle      *)

AnyCall(p) == Build(p) \/ Validate(p) \/ Promote(p) \/ Rollback(p) \/ CallRaises(p)

LEMMA IndexPart == FlowNext => [Next]_vars
  <1> SUFFICES ASSUME FlowNext PROVE [Next]_vars
    OBVIOUS
  <1>1. ASSUME NEW p \in Operators, AnyCall(p) PROVE [Next]_vars
    BY <1>1 DEF AnyCall, Next
  <1>2. ASSUME NEW r \in Runs, Prepare(r) \/ Conclude(r) \/ Abort(r) PROVE [Next]_vars
    BY <1>2 DEF Prepare, BeginRun, Configure, OpenEmbeddings, CloseEmbeddings, Conclude, Query,
       Search, WriteAudit, BindingFails, Export, Deliver, LogRun, Abort, LogEarlyFailure,
       LogFailure, RunRaises, RunDies
  <1>3. ASSUME NEW r \in Runs, Index(r) PROVE [Next]_vars
    <2>1. AnyCall(r) \/ UNCHANGED vars
      BY <1>3 DEF AnyCall, Index, BuildOwn, ValidateLatest, PromoteLatest, IndexCallRaises,
         NothingToTake
    <2> QED BY <1>1, <2>1
  <1>4. ASSUME NEW p \in Operators, AdminOperation(p) \/ MakeBuild(p) PROVE [Next]_vars
    BY <1>1, <1>4 DEF AnyCall, AdminOperation, MakeBuild
  <1> QED BY <1>2, <1>3, <1>4 DEF FlowNext

\* run_minimal_vertical_slice and the DAG tasks: every behaviour of the runs is
\* a behaviour of the index lifecycle, so what is proved of any callers holds here.
THEOREM FlowIsLifecycle == FlowSpec => Spec
  <1>1. FlowInit => Init
    BY DEF FlowInit
  <1>2. [FlowNext]_allVars => [Next]_vars
    BY IndexPart DEF allVars, vars
  <1> QED BY <1>1, <1>2, PTL DEF FlowSpec, Spec

OthersStay(p) == \A q \in Operators \ {p} : pc'[q] = pc[q]

LEMMA CallFrame ==
  ASSUME TypeOK, NEW p \in Operators, AnyCall(p)
  PROVE  OthersStay(p)
  <1>1. ASSUME NEW next, Goto(p, next) PROVE OthersStay(p)
    BY <1>1 DEF Goto, TypeOK, OthersStay
  <1>2. ASSUME Finish(p) \/ Raise(p) PROVE OthersStay(p)
    BY <1>1, <1>2 DEF Finish, Raise, End
  <1>3. ASSUME NEW next, Proceed(p, next) \/ Returns(p, next) PROVE OthersStay(p)
    BY <1>1, <1>2, <1>3 DEF Returns, Proceed
  <1>4. ASSUME NEW g, NEW next, Choose(p, g, next) PROVE OthersStay(p)
    BY <1>1, <1>4 DEF Choose
  <1>5. CASE Build(p)
    BY <1>2, <1>3, <1>4, <1>5 DEF Build, CreateCollection, UpsertPoints, RecordGeneration
  <1>6. CASE Validate(p)
    BY <1>2, <1>3, <1>4, <1>6 DEF Validate, LoadBuilt, Check, MarkValidation
  <1>7. CASE Promote(p)
    BY <1>1, <1>2, <1>3, <1>4, <1>7
       DEF Promote, LoadValidated, ResolvePrevious, SwitchToPromoted, MarkPromoted, AuditPromotion
  <1>8. CASE Rollback(p)
    BY <1>1, <1>2, <1>3, <1>4, <1>8
       DEF Rollback, LoadPromoted, ResolveCurrent, ReadTarget, SwitchBack, MarkRolledBack,
           AuditRollback
  <1>9. CASE CallRaises(p)
    BY <1>2, <1>9 DEF CallRaises
  <1> QED BY <1>5, <1>6, <1>7, <1>8, <1>9 DEF AnyCall

\* A collection fit to serve stays so, and an alias keeps pointing somewhere.
LEMMA FitStays ==
  ASSUME IInv, IInv', [Next]_vars
  PROVE  /\ \A g \in Generations : Fit(g) => Fit(g)'
         /\ \A a \in Aliases : alias[a] # NoGeneration => alias'[a] # NoGeneration
  <1>1. TypeOK /\ TypeOK' /\ [Contract!Next]_(Contract!vars)
    BY ContractStep DEF IInv
  <1>2. Wholes \subseteq Wholes' /\ Approved \subseteq Approved'
    BY <1>1 DEF Contract!Next, Contract!Build, Contract!Approve, Contract!Serve, Contract!vars,
       Wholes, Approved
  <1>3. \A g \in Generations : Fit(g) => Fit(g)'
    BY <1>2 DEF Wholes, Approved, Fit
  <1>4. \A a \in Aliases : alias[a] # NoGeneration => alias'[a] # NoGeneration
    BY <1>1 DEF Contract!Next, Contract!Build, Contract!Approve, Contract!Serve, Contract!vars,
       TypeOK, OrNone
  <1> QED BY <1>3, <1>4

-----------------------------------------------------------------------------
(* The inductive invariant                                                 *)

\* What a run has promoted, searched and audited stays fit to serve.
UsesOK(r) ==
  /\ promoted[r] # NoGeneration => Fit(promoted[r])
  /\ audited[r] # NoGeneration => Fit(audited[r])
  /\ \A g \in searched[r] : Fit(g) /\ AliasOf[g] = FlowAlias
  /\ phase[r] \in {"querying", "searching", "auditing"} => promoted[r] # NoGeneration
  /\ phase[r] = "searching" => alias[FlowAlias] # NoGeneration

\* A candidate reaches the export only past the audit, and the event comes last.
RecordsOK(r) ==
  /\ phase[r] = "exporting" /\ found[r] # "none" => audited[r] # NoGeneration
  /\ r \in staged \/ delivered[r] # "none" => audited[r] # NoGeneration
  /\ phase[r] = "logging" \/ << r, "ok" >> \in events =>
       /\ audited[r] # NoGeneration
       /\ delivered[r] = IF r \in staged THEN "complete" ELSE "empty"
  /\ << r, "ok" >> \in events => phase[r] \in {"failing"} \cup Stopped

FlowInv ==
  /\ IInv
  /\ FlowTypeOK
  /\ \A r \in Runs : UsesOK(r) /\ RecordsOK(r)

LEMMA FlowInitInv == FlowInit => FlowInv
  <1> SUFFICES ASSUME FlowInit PROVE FlowInv
    OBVIOUS
  <1>1. IInv
    BY InitInv DEF FlowInit
  <1>2. FlowTypeOK
    BY <1>1 DEF FlowInit, FlowTypeOK, IInv, OrNone, Sizes, Active, Body, Handlers
  <1>3. ASSUME NEW r \in Runs PROVE UsesOK(r) /\ RecordsOK(r)
    BY DEF FlowInit, UsesOK, RecordsOK
  <1> QED BY <1>1, <1>2, <1>3 DEF FlowInv

\* What may change for a run when a step is not its own.
Untouched(r) ==
  /\ phase'[r] = phase[r] /\ promoted'[r] = promoted[r] /\ searched'[r] = searched[r]
  /\ found'[r] = found[r] /\ audited'[r] = audited[r] /\ delivered'[r] = delivered[r]
  /\ r \in staged' <=> r \in staged
  /\ << r, "ok" >> \in events' <=> << r, "ok" >> \in events

\* Past its index operations no index step of its own can be pending for a run.
LEMMA FitKept ==
  ASSUME FlowInv, IInv', FlowNext
  PROVE  /\ \A g \in Generations : Fit(g) => Fit(g)'
         /\ \A r \in Runs : alias[FlowAlias] # NoGeneration => alias'[FlowAlias] # NoGeneration
  <1>1. /\ \A g \in Generations : Fit(g) => Fit(g)'
        /\ \A a \in Aliases : alias[a] # NoGeneration => alias'[a] # NoGeneration
    BY IndexPart, FitStays DEF FlowInv
  <1>2. \A r \in Runs : FlowAlias \in Aliases
    OBVIOUS
  <1> QED BY <1>1, <1>2

LEMMA UntouchedStep ==
  ASSUME FlowInv, IInv', FlowNext, NEW r \in Runs, Untouched(r)
  PROVE  UsesOK(r)' /\ RecordsOK(r)'
  <1>1. /\ UsesOK(r) /\ RecordsOK(r)
        /\ promoted[r] \in OrNone /\ audited[r] \in OrNone /\ searched[r] \subseteq Generations
    BY DEF FlowInv, FlowTypeOK
  <1>2. UsesOK(r)'
    BY <1>1, FitKept DEF UsesOK, Untouched, OrNone
  <1>3. RecordsOK(r)'
    BY <1>1 DEF RecordsOK, Untouched
  <1> QED BY <1>2, <1>3

\* An exception leaves the body of a run for a handler or ends it.
LEMMA HandlerEnds ==
  ASSUME NEW r \in Runs, phase[r] \in Active
  PROVE  /\ Handler(r) \in Handlers \cup {"raised"}
         /\ phase[r] # "configuring" => Handler(r) \in {"failing", "raised"}
  BY DEF Handler, Handlers

-----------------------------------------------------------------------------
(* How a step moves a run                                                  *)

\* One run moves on; past its index operations it has none pending.
Moves(r) ==
  /\ phase' \in [Runs -> {"idle"} \cup Active \cup Stopped]
  /\ \A s \in Runs \ {r} : phase'[s] = phase[s] /\ pc'[s] = pc[s]
  /\ phase'[r] \in Active \ IndexPhases => pc'[r] = "idle"

FlowTypes ==
  /\ embeddings \in Sizes
  /\ opener \in Runs \cup {NoRun}
  /\ source \in [Generations -> Sizes]
  /\ promoted \in [Runs -> OrNone]
  /\ searched \in [Runs -> SUBSET Generations]
  /\ found \in [Runs -> {"none", "rejected", "approved"}]
  /\ audited \in [Runs -> OrNone]
  /\ staged \in SUBSET Runs
  /\ delivered \in [Runs -> {"none", "empty", "complete"}]
  /\ events \in SUBSET ((Runs \cup {NoRun}) \X {"ok", "failed"})
  /\ alone \in SUBSET Runs
  /\ troubles \in 0..MaxTroubles

LEMMA MoveStep ==
  ASSUME FlowInv, FlowNext, NEW r \in Runs, Moves(r), FlowTypes',
         UsesOK(r)', RecordsOK(r)', \A s \in Runs \ {r} : Untouched(s)
  PROVE  FlowInv'
  <1>1. IInv' /\ IInv
    BY IndexPart, InductiveStep DEF FlowInv
  <1>2. FlowTypeOK'
    BY <1>1 DEF FlowInv, FlowTypeOK, Moves, FlowTypes, IInv
  <1>3. \A s \in Runs \ {r} : UsesOK(s)' /\ RecordsOK(s)'
    BY <1>1, UntouchedStep
  <1> QED BY <1>1, <1>2, <1>3 DEF FlowInv

\* A run moves by Enter; where it raises, by Handler.
LEMMA Entered ==
  ASSUME FlowInv, NEW r \in Runs, pc[r] = "idle", UNCHANGED vars,
         NEW next \in Active \cup Stopped, Enter(r, next)
  PROVE  Moves(r) /\ phase'[r] = next
  BY DEF FlowInv, FlowTypeOK, Enter, Moves, vars

LEMMA TroubleTyped ==
  ASSUME FlowInv, Trouble PROVE troubles' \in 0..MaxTroubles
  BY DEF FlowInv, FlowTypeOK, TypeOK, Trouble

LEMMA Returned ==
  ASSUME FlowInv, NEW r \in Runs, phase[r] \in Body \ IndexPhases, UNCHANGED vars,
         NEW next \in Active \cup Stopped, ReturnsTo(r, next)
  PROVE  /\ Moves(r) /\ troubles' \in 0..MaxTroubles
         /\ \/ phase'[r] = next
            \/ phase'[r] \in Handlers \cup {"raised"}
               /\ (phase[r] # "configuring" => phase'[r] \in {"failing", "raised"})
  <1>1. phase[r] \in Active /\ pc[r] = "idle" /\ troubles \in 0..MaxTroubles
    BY DEF FlowInv, FlowTypeOK, Active, IndexPhases, Body
  <1>2. CASE Enter(r, next) /\ UNCHANGED troubles
    BY <1>1, <1>2, Entered
  <1>3. CASE Enter(r, Handler(r)) /\ Trouble
    <2>1. Handler(r) \in Active \cup Stopped
      BY <1>1, HandlerEnds DEF Active, Stopped
    <2> QED BY <1>1, <1>3, <2>1, Entered, HandlerEnds, TroubleTyped
  <1> QED BY <1>2, <1>3 DEF ReturnsTo

Closed == {"failing"} \cup Stopped

\* Steps that neither search nor record anything and lead to no phase that
\* presupposes some of it.
LEMMA PlainStep ==
  ASSUME FlowInv, FlowNext, NEW r \in Runs, Moves(r), UNCHANGED << found_vars, records >>,
         embeddings' \in Sizes, opener' \in Runs \cup {NoRun},
         source' \in [Generations -> Sizes], alone' \in SUBSET Runs,
         troubles' \in 0..MaxTroubles,
         phase'[r] \notin {"querying", "searching", "auditing", "exporting", "logging"},
         phase[r] \in Closed => phase'[r] \in Closed
  PROVE  FlowInv'
  <1>1. FlowTypes /\ UsesOK(r) /\ RecordsOK(r) /\ IInv'
    BY IndexPart, InductiveStep DEF FlowInv, FlowTypeOK, FlowTypes
  <1>2. FlowTypes'
    BY <1>1 DEF FlowTypes, found_vars, records
  <1>3. UsesOK(r)'
    BY <1>1, FitKept DEF UsesOK, found_vars, records, FlowTypes, OrNone
  <1>4. RecordsOK(r)'
    BY <1>1 DEF RecordsOK, found_vars, records, Closed
  <1>5. \A s \in Runs \ {r} : Untouched(s)
    BY DEF Moves, Untouched, found_vars, records
  <1> QED BY <1>2, <1>3, <1>4, <1>5, MoveStep

-----------------------------------------------------------------------------
(* The steps of a run outside of its index operations                      *)

LEMMA PlainSteps ==
  ASSUME FlowInv, FlowNext, NEW r \in Runs,
         \/ BeginRun(r) \/ Configure(r) \/ OpenEmbeddings(r) \/ CloseEmbeddings(r)
         \/ NothingToTake(r) \/ RunRaises(r) \/ RunDies(r)
  PROVE  FlowInv'
  <1>1. FlowTypes /\ pc[r] = "idle" /\ UNCHANGED << vars, found_vars, records >>
    BY DEF BeginRun, Configure, OpenEmbeddings, CloseEmbeddings, NothingToTake, RunRaises,
       RunDies, FlowInv, FlowTypeOK, FlowTypes, flow, Active, Body, IndexPhases
  <1>2. PICK next \in Active \cup Stopped :
          /\ Enter(r, next)
          /\ next \notin {"querying", "searching", "auditing", "exporting", "logging"}
          /\ phase[r] \in Closed => next \in Closed
    BY HandlerEnds
       DEF BeginRun, Configure, OpenEmbeddings, CloseEmbeddings, NothingToTake, RunRaises, RunDies,
           Refuse, Active, Body, IndexPhases, Handlers, Stopped, Closed
  <1>3. Moves(r) /\ phase'[r] = next
    BY <1>1, <1>2, Entered
  <1>4. embeddings' \in Sizes /\ opener' \in Runs \cup {NoRun} /\ source' \in [Generations -> Sizes]
    BY <1>1 DEF BeginRun, Configure, OpenEmbeddings, CloseEmbeddings, NothingToTake, RunRaises,
       RunDies, FlowTypes, flow, files, Sizes
  <1>5. alone' \in SUBSET Runs /\ troubles' \in 0..MaxTroubles
    BY <1>1, TroubleTyped
       DEF BeginRun, Configure, OpenEmbeddings, CloseEmbeddings, NothingToTake, RunRaises, RunDies,
           Refuse, FlowTypes, flow, EndedAlone
  <1> QED BY <1>1, <1>2, <1>3, <1>4, <1>5, PlainStep

LEMMA ExportStep ==
  ASSUME FlowInv, FlowNext, NEW r \in Runs, Export(r)
  PROVE  FlowInv'
  <1>1. phase[r] = "exporting" /\ FlowTypes /\ UsesOK(r) /\ RecordsOK(r)
    BY DEF Export, FlowInv, FlowTypeOK, FlowTypes
  <1>2. /\ Moves(r) /\ troubles' \in 0..MaxTroubles
        /\ phase'[r] \in {"delivering", "failing", "raised"}
    BY <1>1, Returned DEF Export, Body, IndexPhases, Active
  <1>3. /\ staged' = IF found[r] = "approved" THEN staged \cup {r} ELSE staged
        /\ found' = [found EXCEPT ![r] = "none"]
        /\ UNCHANGED << vars, files, promoted, searched, audited, delivered, events, alone >>
    BY DEF Export
  <1>4. FlowTypes'
    BY <1>1, <1>2, <1>3 DEF FlowTypes, files
  <1>5. UsesOK(r)'
    BY <1>1, <1>2, <1>3 DEF UsesOK, Fit, vars
  <1>6. RecordsOK(r)'
    BY <1>1, <1>2, <1>3 DEF RecordsOK, FlowTypes, Stopped
  <1>7. \A s \in Runs \ {r} : Untouched(s)
    BY <1>1, <1>2, <1>3 DEF FlowTypes, Moves, Untouched
  <1> QED BY <1>2, <1>4, <1>5, <1>6, <1>7, MoveStep

LEMMA Known ==
  ASSUME FlowInv, NEW r \in Runs
  PROVE  /\ FlowTypes /\ UsesOK(r) /\ RecordsOK(r) /\ HeldOK(r)
         /\ phase[r] \in Active \ IndexPhases => pc[r] = "idle"
  BY DEF FlowInv, FlowTypeOK, FlowTypes, IInv

\* The alias that a run searches through serves only what is fit.
LEMMA Serves ==
  ASSUME FlowInv, NEW r \in Runs, alias[FlowAlias] # NoGeneration
  PROVE  /\ alias[FlowAlias] \in Generations
         /\ Fit(alias[FlowAlias]) /\ AliasOf[alias[FlowAlias]] = FlowAlias
  <1>1. FlowAlias \in Aliases
    OBVIOUS
  <1> QED BY <1>1 DEF FlowInv, IInv, TypeOK, ServedOK, OrNone

LEMMA QueryStep ==
  ASSUME FlowInv, FlowNext, NEW r \in Runs, Query(r)
  PROVE  FlowInv'
  <1>1. FlowTypes /\ UsesOK(r) /\ RecordsOK(r) /\ phase[r] = "querying" /\ pc[r] = "idle"
    BY Known DEF Query, Active, Body, IndexPhases
  <1>2. UNCHANGED << vars, files, promoted, found, records, alone >>
    BY DEF Query
  <1>3. CASE alias[FlowAlias] = NoGeneration
    <2>1. Enter(r, Handler(r)) /\ UNCHANGED << searched, troubles >>
      BY <1>3 DEF Query, Refuse
    <2>2. Handler(r) \in {"failing", "raised"}
      BY <1>1, HandlerEnds DEF Active, Body
    <2>3. Moves(r) /\ phase'[r] \in {"failing", "raised"}
      BY <1>1, <1>2, <2>1, <2>2, Entered DEF Active, Handlers, Stopped
    <2> QED BY <1>1, <1>2, <2>1, <2>3, PlainStep
            DEF FlowTypes, files, found_vars, Closed, Stopped
  <1>4. CASE alias[FlowAlias] # NoGeneration
    <2>1. /\ Enter(r, "searching") /\ UNCHANGED troubles
          /\ searched' = [searched EXCEPT ![r] = @ \cup {alias[FlowAlias]}]
      BY <1>4 DEF Query, Uses
    <2>2. Moves(r) /\ phase'[r] = "searching"
      BY <1>1, <1>2, <2>1, Entered DEF Active, Body
    <2>3. FlowTypes'
      BY <1>1, <1>2, <1>4, <2>1, Serves DEF FlowTypes, files, records
    <2>4. UsesOK(r)'
      BY <1>1, <1>2, <1>4, <2>1, <2>2, Serves DEF UsesOK, FlowTypes, Fit, vars, records
    <2>5. RecordsOK(r)'
      BY <1>1, <1>2, <2>2 DEF RecordsOK, records, Stopped
    <2>6. \A s \in Runs \ {r} : Untouched(s)
      BY <1>1, <1>2, <2>1, <2>2 DEF Moves, Untouched, FlowTypes, records
    <2> QED BY <2>2, <2>3, <2>4, <2>5, <2>6, MoveStep
  <1> QED BY <1>3, <1>4

LEMMA SearchStep ==
  ASSUME FlowInv, FlowNext, NEW r \in Runs, Search(r)
  PROVE  FlowInv'
  <1>1. FlowTypes /\ UsesOK(r) /\ RecordsOK(r) /\ phase[r] = "searching" /\ pc[r] = "idle"
    BY Known DEF Search, Active, Body, IndexPhases
  <1>2. PICK best \in {"none", "rejected", "approved"} :
          /\ found' = [found EXCEPT ![r] = best]
          /\ searched' = [searched EXCEPT ![r] = @ \cup {alias[FlowAlias]}]
          /\ Enter(r, "auditing")
          /\ UNCHANGED << vars, files, promoted, records, alone, troubles >>
    BY DEF Search, Uses
  <1>3. alias[FlowAlias] # NoGeneration
    BY <1>1 DEF UsesOK
  <1>4. Moves(r) /\ phase'[r] = "auditing"
    BY <1>1, <1>2, Entered DEF Active, Body
  <1>5. FlowTypes'
    BY <1>1, <1>2, <1>3, Serves DEF FlowTypes, files, records
  <1>6. UsesOK(r)'
    BY <1>1, <1>2, <1>3, <1>4, Serves DEF UsesOK, FlowTypes, Fit, vars, records
  <1>7. RecordsOK(r)'
    BY <1>1, <1>2, <1>4 DEF RecordsOK, records, Stopped
  <1>8. \A s \in Runs \ {r} : Untouched(s)
    BY <1>1, <1>2, <1>4 DEF Moves, Untouched, FlowTypes, records
  <1> QED BY <1>4, <1>5, <1>6, <1>7, <1>8, MoveStep

LEMMA WriteAuditStep ==
  ASSUME FlowInv, FlowNext, NEW r \in Runs, WriteAudit(r)
  PROVE  FlowInv'
  <1>1. FlowTypes /\ UsesOK(r) /\ RecordsOK(r) /\ phase[r] = "auditing"
    BY Known DEF WriteAudit
  <1>2. /\ audited' = [audited EXCEPT ![r] = promoted[r]]
        /\ UNCHANGED << vars, files, found_vars, staged, delivered, events, alone >>
    BY DEF WriteAudit
  <1>3. Moves(r) /\ troubles' \in 0..MaxTroubles /\ phase'[r] \in {"exporting", "failing", "raised"}
    BY <1>1, <1>2, Returned DEF WriteAudit, Body, IndexPhases, Active
  <1>4. promoted[r] \in Generations /\ Fit(promoted[r])
    BY <1>1 DEF FlowTypes, UsesOK, OrNone
  <1>5. FlowTypes'
    BY <1>1, <1>2, <1>3 DEF FlowTypes, files, found_vars
  <1>6. UsesOK(r)'
    BY <1>1, <1>2, <1>3, <1>4 DEF UsesOK, FlowTypes, Fit, vars, found_vars
  <1>7. RecordsOK(r)'
    BY <1>1, <1>2, <1>3, <1>4 DEF RecordsOK, FlowTypes, Stopped
  <1>8. \A s \in Runs \ {r} : Untouched(s)
    BY <1>1, <1>2, <1>3 DEF Moves, Untouched, FlowTypes, found_vars
  <1> QED BY <1>3, <1>5, <1>6, <1>7, <1>8, MoveStep

\* The one step into the export without an audit row leaves nothing to export.
LEMMA BindingFailsStep ==
  ASSUME FlowInv, FlowNext, NEW r \in Runs, BindingFails(r)
  PROVE  FlowInv'
  <1>1. FlowTypes /\ UsesOK(r) /\ RecordsOK(r) /\ phase[r] = "auditing" /\ pc[r] = "idle"
    BY Known DEF BindingFails, Active, Body, IndexPhases
  <1>2. UNCHANGED << vars, flow >> /\ troubles' \in 0..MaxTroubles
    BY TroubleTyped DEF BindingFails
  <1>3. PICK next \in {"exporting", "failing", "raised"} :
          Enter(r, next) /\ (next = "exporting" => found[r] = "none")
    BY <1>1, HandlerEnds DEF BindingFails, Active, Body
  <1>4. Moves(r) /\ phase'[r] = next
    BY <1>1, <1>2, <1>3, Entered DEF Active, Body, Handlers, Stopped
  <1>5. FlowTypes'
    BY <1>1, <1>2 DEF FlowTypes, flow, files, found_vars, records
  <1>6. UsesOK(r)'
    BY <1>1, <1>2, <1>4 DEF UsesOK, Fit, vars, flow, found_vars, records
  <1>7. RecordsOK(r)'
    BY <1>1, <1>2, <1>3, <1>4 DEF RecordsOK, flow, found_vars, records, Stopped
  <1>8. \A s \in Runs \ {r} : Untouched(s)
    BY <1>2, <1>4 DEF Moves, Untouched, flow, found_vars, records
  <1> QED BY <1>4, <1>5, <1>6, <1>7, <1>8, MoveStep

LEMMA DeliverStep ==
  ASSUME FlowInv, FlowNext, NEW r \in Runs, Deliver(r)
  PROVE  FlowInv'
  <1>1. FlowTypes /\ UsesOK(r) /\ RecordsOK(r) /\ phase[r] = "delivering" /\ pc[r] = "idle"
    BY Known DEF Deliver, Active, Body, IndexPhases
  <1>2. UNCHANGED << vars, files, found_vars, audited, staged, events, alone >>
    BY DEF Deliver
  <1>3. CASE audited[r] = NoGeneration
    <2>1. Enter(r, Handler(r)) /\ UNCHANGED << delivered, troubles >>
      BY <1>3 DEF Deliver, Refuse
    <2>2. Handler(r) \in {"failing", "raised"}
      BY <1>1, HandlerEnds DEF Active, Body
    <2>3. Moves(r) /\ phase'[r] \in {"failing", "raised"}
      BY <1>1, <1>2, <2>1, <2>2, Entered DEF Active, Handlers, Stopped
    <2> QED BY <1>1, <1>2, <2>1, <2>3, PlainStep DEF FlowTypes, files, records, Closed, Stopped
  <1>4. CASE audited[r] # NoGeneration
    <2>1. /\ delivered' = [delivered EXCEPT ![r] = IF r \in staged THEN "complete" ELSE "empty"]
          /\ ReturnsTo(r, "logging")
      BY <1>4 DEF Deliver
    <2>2. Moves(r) /\ troubles' \in 0..MaxTroubles /\ phase'[r] \in {"logging", "failing", "raised"}
      BY <1>1, <1>2, <2>1, Returned DEF Body, IndexPhases, Active
    <2>3. FlowTypes'
      BY <1>1, <1>2, <2>1, <2>2 DEF FlowTypes, files, found_vars
    <2>4. UsesOK(r)'
      BY <1>1, <1>2, <2>2 DEF UsesOK, Fit, vars, found_vars
    <2>5. RecordsOK(r)'
      BY <1>1, <1>2, <1>4, <2>1, <2>2 DEF RecordsOK, FlowTypes, Stopped
    <2>6. \A s \in Runs \ {r} : Untouched(s)
      BY <1>1, <1>2, <2>1, <2>2 DEF Moves, Untouched, FlowTypes, found_vars
    <2> QED BY <2>2, <2>3, <2>4, <2>5, <2>6, MoveStep
  <1> QED BY <1>3, <1>4

LEMMA LogRunStep ==
  ASSUME FlowInv, FlowNext, NEW r \in Runs, LogRun(r)
  PROVE  FlowInv'
  <1>1. FlowTypes /\ UsesOK(r) /\ RecordsOK(r) /\ phase[r] = "logging"
    BY Known DEF LogRun
  <1>2. /\ events' = events \cup {<< r, "ok" >>}
        /\ UNCHANGED << vars, files, found_vars, audited, staged, delivered, alone >>
    BY DEF LogRun
  <1>3. Moves(r) /\ troubles' \in 0..MaxTroubles /\ phase'[r] \in {"returned", "failing", "raised"}
    BY <1>1, <1>2, Returned DEF LogRun, Body, IndexPhases, Stopped
  <1>4. FlowTypes'
    BY <1>1, <1>2, <1>3 DEF FlowTypes, files, found_vars
  <1>5. UsesOK(r)'
    BY <1>1, <1>2, <1>3 DEF UsesOK, Fit, vars, found_vars
  <1>6. RecordsOK(r)'
    BY <1>1, <1>2, <1>3 DEF RecordsOK, found_vars, Stopped
  <1>7. \A s \in Runs \ {r} : Untouched(s)
    BY <1>2, <1>3 DEF Moves, Untouched, found_vars
  <1> QED BY <1>3, <1>4, <1>5, <1>6, <1>7, MoveStep

\* A failed event says nothing of an ok one.
LEMMA LogFailureStep ==
  ASSUME FlowInv, FlowNext, NEW r \in Runs, LogEarlyFailure(r) \/ LogFailure(r)
  PROVE  FlowInv'
  <1>1. FlowTypes /\ UsesOK(r) /\ RecordsOK(r) /\ phase[r] \in Handlers /\ pc[r] = "idle"
    BY Known DEF LogEarlyFailure, LogFailure, Active, Body, IndexPhases, Handlers
  <1>2. /\ Enter(r, "raised") /\ troubles' \in 0..MaxTroubles
        /\ UNCHANGED << vars, files, found_vars, audited, staged, delivered, alone >>
    BY <1>1, TroubleTyped DEF LogEarlyFailure, LogFailure, FlowTypes
  <1>3. PICK who \in Runs \cup {NoRun} : events' \in {events, events \cup {<< who, "failed" >>}}
    BY DEF LogEarlyFailure, LogFailure
  <1>4. \A s \in Runs : << s, "ok" >> \in events' <=> << s, "ok" >> \in events
    BY <1>3
  <1>5. Moves(r) /\ phase'[r] = "raised"
    BY <1>1, <1>2, Entered DEF Stopped
  <1>6. FlowTypes'
    BY <1>1, <1>2, <1>3 DEF FlowTypes, files, found_vars
  <1>7. UsesOK(r)'
    BY <1>1, <1>2, <1>5 DEF UsesOK, Fit, vars, found_vars
  <1>8. RecordsOK(r)'
    BY <1>1, <1>2, <1>4, <1>5 DEF RecordsOK, found_vars, Stopped
  <1>9. \A s \in Runs \ {r} : Untouched(s)
    BY <1>2, <1>4, <1>5 DEF Moves, Untouched, found_vars
  <1> QED BY <1>5, <1>6, <1>7, <1>8, <1>9, MoveStep

-----------------------------------------------------------------------------
(* The index operations of a run                                           *)

\* The phases that an index step of a run leads to, but for the query.
Around == {"building", "validating", "promoting", "early_logging", "failing", "raised", "crashed"}

LEMMA IndexMove ==
  ASSUME FlowInv, NEW r \in Runs, phase[r] \in IndexPhases, AnyCall(r),
         NEW next \in Active \cup Stopped, phase' = [phase EXCEPT ![r] = next],
         next \in Active \ IndexPhases => pc'[r] = "idle"
  PROVE  Moves(r) /\ phase'[r] = next
  <1>1. TypeOK /\ phase \in [Runs -> {"idle"} \cup Active \cup Stopped]
    BY DEF FlowInv, FlowTypeOK
  <1> QED BY <1>1, CallFrame DEF Moves, OthersStay

LEMMA Progresses ==
  ASSUME FlowInv, NEW r \in Runs, phase[r] \in IndexPhases, AnyCall(r),
         NEW last, NEW next \in Active, Progress(r, last, next)
  PROVE  /\ Moves(r)
         /\ \/ phase'[r] \in Around
            \/ phase'[r] = next /\ pc[r] = last
  <1>1. phase \in [Runs -> {"idle"} \cup Active \cup Stopped]
    BY DEF FlowInv, FlowTypeOK
  <1>2. Handler(r) \in {"failing", "raised"}
    BY HandlerEnds DEF Active, Body, IndexPhases
  <1>3. CASE UNCHANGED phase
    <2>1. phase' = [phase EXCEPT ![r] = phase[r]]
      BY <1>1, <1>3
    <2> QED BY <2>1, IndexMove DEF Active, Body, IndexPhases, Around
  <1>4. CASE pc'[r] = "idle" /\ pc[r] = last /\ Enter(r, next)
    BY <1>4, IndexMove DEF Enter
  <1>5. CASE pc'[r] = "idle" /\ Enter(r, Handler(r))
    BY <1>2, <1>5, IndexMove DEF Enter, Active, Handlers, Stopped, Around
  <1>6. CASE Enter(r, "crashed")
    BY <1>6, IndexMove DEF Enter, Active, Body, Handlers, Stopped, Around
  <1> QED BY <1>3, <1>4, <1>5, <1>6 DEF Progress, Completes

LEMMA AroundStep ==
  ASSUME FlowInv, FlowNext, NEW r \in Runs, phase[r] \in IndexPhases, Moves(r),
         phase'[r] \in Around, UNCHANGED << embeddings, opener, found_vars, records, alone, troubles >>,
         source' \in [Generations -> Sizes]
  PROVE  FlowInv'
  BY Known, PlainStep DEF FlowTypes, Around, Closed, IndexPhases, Stopped

LEMMA BuildOwnStep ==
  ASSUME FlowInv, FlowNext, NEW r \in Runs, BuildOwn(r)
  PROVE  FlowInv'
  <1>1. /\ phase[r] \in IndexPhases /\ AnyCall(r) /\ Progress(r, "recording", "validating")
        /\ UNCHANGED << embeddings, opener, found_vars, records, alone, troubles >>
    BY DEF BuildOwn, AnyCall, IndexPhases
  <1>2. source' \in [Generations -> Sizes]
    BY Known DEF BuildOwn, FlowTypes
  <1>3. Moves(r) /\ phase'[r] \in Around
    BY <1>1, Progresses DEF Active, Body, IndexPhases, Around
  <1> QED BY <1>1, <1>2, <1>3, AroundStep

LEMMA ValidateLatestStep ==
  ASSUME FlowInv, FlowNext, NEW r \in Runs, ValidateLatest(r)
  PROVE  FlowInv'
  <1>1. /\ phase[r] \in IndexPhases /\ AnyCall(r) /\ Progress(r, "validate_marking", "promoting")
        /\ UNCHANGED << flow, troubles >>
    BY DEF ValidateLatest, AnyCall, IndexPhases
  <1>2. Moves(r) /\ phase'[r] \in Around
    BY <1>1, Progresses DEF Active, Body, IndexPhases, Around
  <1> QED BY <1>1, <1>2, Known, AroundStep DEF flow, files, FlowTypes

LEMMA IndexCallRaisesStep ==
  ASSUME FlowInv, FlowNext, NEW r \in Runs, IndexCallRaises(r)
  PROVE  FlowInv'
  <1>1. /\ phase[r] \in IndexPhases /\ AnyCall(r) /\ UNCHANGED << flow, troubles >>
        /\ pc'[r] = "idle" /\ TypeOK
    BY DEF IndexCallRaises, AnyCall, CallRaises, Raise, End, Goto, FlowInv, FlowTypeOK, TypeOK
  <1>2. PICK next \in {"failing", "raised", "crashed"} : Enter(r, next)
    BY <1>1, HandlerEnds DEF IndexCallRaises, Active, Body, IndexPhases
  <1>3. Moves(r) /\ phase'[r] \in Around
    BY <1>1, <1>2, IndexMove DEF Enter, Active, Handlers, Stopped, Around
  <1> QED BY <1>1, <1>3, Known, AroundStep DEF flow, files, FlowTypes

\* What a run has promoted when its promotion returns is what its caller held.
LEMMA PromoteLatestStep ==
  ASSUME FlowInv, FlowNext, NEW r \in Runs, PromoteLatest(r)
  PROVE  FlowInv'
  <1>1. /\ phase[r] \in IndexPhases /\ AnyCall(r) /\ Progress(r, "promote_auditing", "querying")
        /\ UNCHANGED << files, searched, found, records, alone, troubles >>
        /\ promoted' = IF phase'[r] = "querying" THEN [promoted EXCEPT ![r] = current[r]]
                                                 ELSE promoted
    BY DEF PromoteLatest, AnyCall, IndexPhases
  <1>2. Moves(r) /\ (phase'[r] \in Around \/ (phase'[r] = "querying" /\ pc[r] = "promote_auditing"))
    <2>1. "querying" \in Active
      BY DEF Active, Body
    <2> QED BY <1>1, <2>1, Progresses
  <1>3. CASE phase'[r] \in Around
    BY <1>1, <1>2, <1>3, Known, AroundStep DEF files, found_vars, FlowTypes, Around
  <1>4. CASE phase'[r] = "querying" /\ pc[r] = "promote_auditing"
    <2>1. FlowTypes /\ UsesOK(r) /\ RecordsOK(r) /\ HeldOK(r) /\ TypeOK
      BY Known DEF FlowInv, FlowTypeOK
    <2>2. current[r] \in Generations /\ Fit(current[r])
      BY <1>4, <2>1 DEF TypeOK, HeldOK, Calls, Promoting
    <2>3. IInv'
      BY IndexPart, InductiveStep DEF FlowInv
    <2>4. promoted'[r] = current[r] /\ \A s \in Runs \ {r} : promoted'[s] = promoted[s]
      BY <1>1, <1>4, <2>1 DEF FlowTypes
    <2>5. FlowTypes'
      BY <1>1, <1>4, <2>1, <2>2 DEF FlowTypes, files, records, OrNone
    <2>6. UsesOK(r)'
      BY <1>1, <1>4, <2>1, <2>2, <2>3, <2>4, FitKept DEF UsesOK, FlowTypes, records, OrNone
    <2>7. RecordsOK(r)'
      BY <1>1, <1>4, <2>1 DEF RecordsOK, records, IndexPhases, Stopped
    <2>8. \A s \in Runs \ {r} : Untouched(s)
      BY <1>1, <1>2, <2>4 DEF Moves, Untouched, records
    <2> QED BY <1>2, <2>5, <2>6, <2>7, <2>8, MoveStep
  <1> QED BY <1>2, <1>3, <1>4

-----------------------------------------------------------------------------
(* Operations for admins and make                                          *)

LEMMA ErrandStep ==
  ASSUME FlowInv, FlowNext, NEW p \in Operators, AdminOperation(p) \/ MakeBuild(p)
  PROVE  FlowInv'
  <1>1. /\ FlowTypeOK /\ IInv /\ IInv' /\ TypeOK
    BY IndexPart, InductiveStep DEF FlowInv, IInv
  <1>2. AnyCall(p) /\ Errand(p) /\ UNCHANGED << phase, found_vars, records >>
    BY DEF AdminOperation, MakeBuild, AnyCall
  <1>3. alone' \in SUBSET Runs /\ troubles' \in 0..MaxTroubles
    BY <1>1, <1>2 DEF Errand, Trouble, EndedAlone, FlowTypeOK, TypeOK
  <1>4. embeddings' \in Sizes /\ opener' \in Runs \cup {NoRun} /\ source' \in [Generations -> Sizes]
    BY <1>1 DEF AdminOperation, MakeBuild, FlowTypeOK, files, Sizes
  <1>5. \A r \in Runs : phase'[r] \in Active \ IndexPhases => pc'[r] = "idle"
    BY <1>1, <1>2, CallFrame DEF OthersStay, Errand, Running, FlowTypeOK
  <1>6. FlowTypeOK'
    BY <1>1, <1>2, <1>3, <1>4, <1>5 DEF FlowTypeOK, IInv, found_vars, records
  <1>7. \A r \in Runs : Untouched(r)
    BY <1>2 DEF Untouched, found_vars, records
  <1> QED BY <1>1, <1>6, <1>7, UntouchedStep DEF FlowInv

-----------------------------------------------------------------------------
(* The theorems                                                            *)

LEMMA FlowInductiveStep == FlowInv /\ [FlowNext]_allVars => FlowInv'
  <1> SUFFICES ASSUME FlowInv, [FlowNext]_allVars PROVE FlowInv'
    OBVIOUS
  <1>1. CASE UNCHANGED allVars
    <2>1. IInv'
      BY <1>1, InductiveStep DEF allVars, FlowInv
    <2>2. UNCHANGED << vars, phase, flow, troubles >>
      BY <1>1 DEF allVars
    <2>3. FlowTypeOK'
      BY <2>1, <2>2 DEF FlowInv, FlowTypeOK, IInv, vars, flow, files, found_vars, records
    <2>4. ASSUME NEW r \in Runs PROVE UsesOK(r)' /\ RecordsOK(r)'
      BY <2>2 DEF FlowInv, UsesOK, RecordsOK, Fit, vars, flow, found_vars, records
    <2> QED BY <2>1, <2>3, <2>4 DEF FlowInv
  <1>2. CASE FlowNext
    <2>1. ASSUME NEW r \in Runs, Prepare(r) PROVE FlowInv'
      BY <1>2, <2>1, PlainSteps DEF Prepare
    <2>2. ASSUME NEW r \in Runs, Index(r) PROVE FlowInv'
      BY <1>2, <2>2, PlainSteps, BuildOwnStep, ValidateLatestStep, PromoteLatestStep,
         IndexCallRaisesStep DEF Index
    <2>3. ASSUME NEW r \in Runs, Conclude(r) PROVE FlowInv'
      BY <1>2, <2>3, QueryStep, SearchStep, WriteAuditStep, BindingFailsStep, ExportStep,
         DeliverStep, LogRunStep DEF Conclude
    <2>4. ASSUME NEW r \in Runs, Abort(r) PROVE FlowInv'
      BY <1>2, <2>4, PlainSteps, LogFailureStep DEF Abort
    <2> QED BY <1>2, <2>1, <2>2, <2>3, <2>4, ErrandStep DEF FlowNext
  <1> QED BY <1>1, <1>2

\* The inductive invariant holds in every state of every behaviour of the runs.
THEOREM FlowInvariance == FlowSpec => []FlowInv
  BY FlowInitInv, FlowInductiveStep, PTL DEF FlowSpec

\* Every variable of the runs keeps its type, and a run has an index operation
\* pending only while it is building, validating or promoting.
THEOREM FlowTypeCorrect == FlowSpec => []FlowTypeOK
  <1>1. FlowInv => FlowTypeOK
    BY DEF FlowInv
  <1> QED BY <1>1, FlowInvariance, PTL

\* retrieve_audience and insert_audit: every collection that any number of runs
\* search or audit is whole and validated, however they and the admins race.
THEOREM RunsUseFitIndexes == FlowSpec => []UsedIndexesAreFit
  <1>1. FlowInv => UsedIndexesAreFit
    BY DEF FlowInv, FlowTypeOK, UsesOK, UsedIndexesAreFit, Used, Fit, OrNone
  <1> QED BY <1>1, FlowInvariance, PTL

\* _insert_run_lineage_binding and export_table: nothing is staged or delivered for
\* a run without a committed audit row, although the error of the binding is swallowed.
THEOREM ExportsAreAudited == FlowSpec => []NothingLeavesUnaudited
  <1>1. FlowInv => NothingLeavesUnaudited
    BY DEF FlowInv, RecordsOK, NothingLeavesUnaudited
  <1> QED BY <1>1, FlowInvariance, PTL

\* log_run_event: an ok event stands for an audit row and a delivery that has taken
\* all that was staged, for any number of runs and troubles.
THEOREM OkEventsAreBacked == FlowSpec => []OkIsBacked
  <1>1. FlowInv => OkIsBacked
    BY DEF FlowInv, RecordsOK, OkIsBacked
  <1> QED BY <1>1, FlowInvariance, PTL

-----------------------------------------------------------------------------
(* A run that nothing overlaps                                             *)

Newest(g) == created # << >> /\ created[Len(created)] = g

\* The collection of a run was built from a complete embeddings file.
FromAll(r) == source[OwnCollection[r]] = "complete"

UsesOwn(r) ==
  /\ Used(r) \subseteq {OwnCollection[r]}
  /\ Used(r) # {} => FromAll(r)

NobodyElse(r) == \A q \in Operators \ {r} : ~ Busy(q)

\* Nobody else does anything during a lone run; so it builds from the file it
\* has written, and what is latest in its status is the generation it built.
LoneOK(r) ==
  LET own == OwnCollection[r] IN
  /\ UsesOwn(r)
  /\ phase[r] \in Active \cup Stopped
  /\ phase[r] \in Active => NobodyElse(r)
  /\ phase[r] = "embedding" => opener = r
  /\ phase[r] = "building" =>
       \/ pc[r] = "idle" /\ embeddings = "complete"
       \/ pc[r] \in Building /\ current[r] = own /\ FromAll(r)
  /\ phase[r] = "validating" =>
       /\ FromAll(r) /\ Newest(own) /\ row[own].status = "built"
       /\ pc[r] = "idle" \/ (pc[r] \in Validating /\ current[r] = own)
  /\ phase[r] = "promoting" =>
       /\ FromAll(r) /\ Newest(own)
       /\ \/ pc[r] = "idle" /\ row[own].status = "validated"
          \/ pc[r] \in Promoting /\ current[r] = own
       /\ pc[r] \in {"promote_marking", "promote_auditing"} => alias[FlowAlias] = own
  /\ phase[r] \in {"querying", "searching"} => alias[FlowAlias] = own
  /\ phase[r] \in {"querying", "searching", "auditing"} => promoted[r] = own /\ FromAll(r)

LoneInv ==
  \A r \in Runs :
    /\ phase[r] = "idle" => Used(r) = {}
    /\ r \in alone => LoneOK(r)

LEMMA LoneInit == FlowInit => LoneInv
  BY DEF FlowInit, LoneInv, Used

OwnStep(r) == Prepare(r) \/ Index(r) \/ Conclude(r) \/ Abort(r)

LEMMA OwnMove ==
  ASSUME FlowInv, NEW r \in Runs, OwnStep(r)
  PROVE  OthersStay(r) /\ \A s \in Runs \ {r} : phase'[s] = phase[s]
  <1>1. TypeOK /\ phase \in [Runs -> {"idle"} \cup Active \cup Stopped]
    BY DEF FlowInv, FlowTypeOK
  <1>2. AnyCall(r) \/ UNCHANGED vars
    BY DEF OwnStep, Prepare, BeginRun, Configure, OpenEmbeddings, CloseEmbeddings, Conclude, Query,
       Search, WriteAudit, BindingFails, Export, Deliver, LogRun, Abort, LogEarlyFailure,
       LogFailure, RunRaises, RunDies, AnyCall, Index, BuildOwn, ValidateLatest, PromoteLatest,
       IndexCallRaises, NothingToTake
  <1>3. OthersStay(r)
    BY <1>1, <1>2, CallFrame DEF OthersStay, vars
  <1>4. UNCHANGED phase \/ \E next : Enter(r, next)
    <2>1. CASE Prepare(r) \/ Abort(r)
      BY <2>1 DEF Prepare, BeginRun, Configure, OpenEmbeddings, CloseEmbeddings, Abort,
         LogEarlyFailure, LogFailure, RunRaises, RunDies, Refuse
    <2>2. CASE Index(r)
      BY <2>2 DEF Index, BuildOwn, ValidateLatest, PromoteLatest, IndexCallRaises, NothingToTake,
         Progress, Refuse
    <2>3. CASE Conclude(r)
      BY <2>3 DEF Conclude, Query, Search, WriteAudit, BindingFails, Export, Deliver, LogRun,
         ReturnsTo, Refuse
    <2> QED BY <2>1, <2>2, <2>3 DEF OwnStep
  <1> QED BY <1>1, <1>3, <1>4 DEF Enter

LEMMA StillAlone ==
  ASSUME FlowInv, NEW r \in Runs, NobodyElse(r), OwnStep(r)
  PROVE  NobodyElse(r)'
  BY OwnMove DEF NobodyElse, Busy, Running, OthersStay

\* Phases in which a lone run relies on nothing but what it has used.
Loose == {"configuring", "preparing", "exporting", "delivering", "logging"}
           \cup Handlers \cup Stopped

LEMMA LooseStep ==
  ASSUME NEW r \in Runs, UsesOwn(r)', NobodyElse(r)', phase'[r] \in Loose
  PROVE  LoneOK(r)'
  BY DEF LoneOK, Loose, Handlers, Stopped, Active, Body

LEMMA HandlerLoose == ASSUME NEW r PROVE Handler(r) \in Loose
  BY DEF Handler, Loose, Handlers, Stopped

\* A generation that was recorded last is the latest of the status it is in.
LEMMA NewestIsLatest ==
  ASSUME TypeOK, NEW status, NEW own, Newest(own), row[own].status = status,
         NEW g, IsLatest(g, status)
  PROVE  g = own
  <1>1. PICK i \in DOMAIN created :
          /\ created[i] = g
          /\ \A k \in DOMAIN created : k > i => row[created[k]].status # status
    BY DEF IsLatest
  <1>2. created \in Seq(Generations) /\ Len(created) \in DOMAIN created
        /\ i \in Nat /\ i <= Len(created)
    BY DEF TypeOK, Newest
  <1>3. ~ (Len(created) > i)
    BY <1>1, <1>2 DEF Newest
  <1> QED BY <1>1, <1>2, <1>3 DEF Newest

-----------------------------------------------------------------------------
(* The steps of a lone run                                                 *)

USE DEF Building, Validating, Promoting

LEMMA LonePrepare ==
  ASSUME FlowInv, NEW r \in Runs, LoneOK(r), phase[r] \in Active, Prepare(r)
  PROVE  LoneOK(r)'
  <1>1. NobodyElse(r)'
    BY StillAlone DEF LoneOK, OwnStep
  <1>2. FlowTypes /\ phase \in [Runs -> {"idle"} \cup Active \cup Stopped]
    BY Known DEF FlowInv, FlowTypeOK
  <1>3. phase[r] # "idle"
    BY DEF Active, Body, Handlers, IndexPhases
  <1>4. UsesOwn(r)'
    BY <1>3 DEF LoneOK, UsesOwn, Used, FromAll, Prepare, BeginRun, Configure, OpenEmbeddings,
       CloseEmbeddings, flow, files, found_vars, records
  <1>5. CASE Configure(r)
    BY <1>1, <1>2, <1>4, <1>5, LooseStep DEF Configure, Enter, Loose
  <1>6. CASE OpenEmbeddings(r)
    <2>1. phase'[r] = "embedding" /\ opener' = r
      BY <1>2, <1>6 DEF OpenEmbeddings, Enter
    <2> QED BY <1>1, <1>4, <2>1 DEF LoneOK, Active, Body
  <1>7. CASE CloseEmbeddings(r)
    <2>1. phase[r] = "embedding" /\ opener = r /\ pc[r] = "idle" /\ UNCHANGED vars
      BY <1>7, Known DEF CloseEmbeddings, LoneOK, Active, Body, IndexPhases
    <2>2. embeddings' = "complete" /\ phase'[r] = "building" /\ pc'[r] = "idle"
      BY <1>2, <1>7, <2>1 DEF CloseEmbeddings, Enter, vars
    <2> QED BY <1>1, <1>4, <2>2 DEF LoneOK, Active, Body, IndexPhases
  <1> QED BY <1>3, <1>5, <1>6, <1>7 DEF Prepare, BeginRun

LEMMA LoneBuild ==
  ASSUME FlowInv, NEW r \in Runs, LoneOK(r), BuildOwn(r)
  PROVE  LoneOK(r)'
  <1> DEFINE own == OwnCollection[r]
  <1>1. phase[r] = "building" /\ phase[r] \in Active /\ TypeOK /\ BuilderOK(r)
        /\ source \in [Generations -> Sizes]
        /\ phase \in [Runs -> {"idle"} \cup Active \cup Stopped]
    BY DEF BuildOwn, Active, Body, IndexPhases, FlowInv, FlowTypeOK, IInv
  <1>2. NobodyElse(r)'
    BY <1>1, StillAlone DEF LoneOK, OwnStep, Index
  <1>3. UNCHANGED << embeddings, found_vars, records >> /\ Used(r)' = Used(r)
    BY DEF BuildOwn, Used, found_vars, records
  <1>4. CASE pc[r] = "idle"
    <2>1. CreateCollection(r)
      BY <1>4 DEF BuildOwn, Build, UpsertPoints, RecordGeneration
    <2>2. pc'[r] = "filling" /\ faults' = faults
      BY <1>1, <2>1 DEF CreateCollection, Choose, Goto, TypeOK
    <2>3. current'[r] = own /\ source' = [source EXCEPT ![own] = embeddings]
      BY <1>4 DEF BuildOwn
    <2>4. embeddings = "complete"
      BY <1>1, <1>4 DEF LoneOK
    <2>5. FromAll(r)'
      BY <1>1, <2>3, <2>4 DEF FromAll
    <2>6. phase'[r] = "building"
      BY <1>1, <2>2 DEF BuildOwn, Progress
    <2> QED BY <1>2, <1>3, <2>2, <2>3, <2>5, <2>6 DEF LoneOK, UsesOwn, Active, Body, IndexPhases
  <1>5. CASE pc[r] # "idle"
    <2>1. pc[r] \in Building /\ current[r] = own /\ FromAll(r) /\ FromAll(r)'
      BY <1>1, <1>5 DEF LoneOK, BuildOwn, FromAll
    <2>2. UsesOwn(r)'
      BY <1>3, <2>1 DEF LoneOK, UsesOwn
    <2>3. CASE UpsertPoints(r)
      <3>1. pc'[r] = "recording" /\ faults' = faults /\ current' = current
        BY <1>1, <2>3 DEF UpsertPoints, Proceed, Goto, local, TypeOK
      <3>2. phase'[r] = "building"
        BY <1>1, <3>1 DEF BuildOwn, Progress
      <3> QED BY <1>2, <2>1, <2>2, <3>1, <3>2 DEF LoneOK, Active, Body, IndexPhases
    <2>4. CASE RecordGeneration(r)
      <3>1. pc'[r] = "idle" /\ created' = Append(created, own)
            /\ row' = [row EXCEPT ![own] = [NoRow EXCEPT !.status = "built"]]
        BY <1>1, <2>1, <2>4 DEF RecordGeneration, Finish, End, Goto, TypeOK
      <3>2. row'[own].status = "built"
        <4>1. [NoRow EXCEPT !.status = "built"].status = "built"
          BY DEF NoRow
        <4> QED BY <1>1, <3>1, <4>1 DEF TypeOK
      <3>3. Newest(own)'
        BY <1>1, <3>1 DEF Newest, TypeOK
      <3>4. phase'[r] \in Loose \cup {"validating"}
        BY <1>1, <3>1, HandlerLoose DEF BuildOwn, Progress, Enter, Loose, Stopped
      <3>5. CASE phase'[r] = "validating"
        BY <1>2, <2>1, <2>2, <3>1, <3>2, <3>3, <3>5 DEF LoneOK, Active, Body, IndexPhases
      <3> QED BY <1>2, <2>2, <3>4, <3>5, LooseStep
    <2> QED BY <1>5, <2>3, <2>4 DEF BuildOwn, Build, CreateCollection, Choose
  <1> QED BY <1>4, <1>5

LEMMA LoneValidate ==
  ASSUME FlowInv, NEW r \in Runs, LoneOK(r), ValidateLatest(r)
  PROVE  LoneOK(r)'
  <1> DEFINE own == OwnCollection[r]
  <1>1. phase[r] = "validating" /\ phase[r] \in Active /\ TypeOK
        /\ phase \in [Runs -> {"idle"} \cup Active \cup Stopped]
    BY DEF ValidateLatest, Active, Body, IndexPhases, FlowInv, FlowTypeOK
  <1>2. NobodyElse(r)'
    BY <1>1, StillAlone DEF LoneOK, OwnStep, Index
  <1>3. UsesOwn(r)' /\ FromAll(r)'
    BY <1>1 DEF ValidateLatest, LoneOK, UsesOwn, FromAll, Used, flow, files, found_vars, records
  <1>4. /\ Newest(own) /\ row[own].status = "built"
        /\ pc[r] = "idle" \/ (pc[r] \in Validating /\ current[r] = own)
    BY <1>1 DEF LoneOK
  <1> HIDE DEF own
  <1>5. CASE LoadBuilt(r)
    <2>1. PICK g \in Generations : IsLatest(g, "built") /\ Choose(r, g, "checking")
      BY <1>5 DEF LoadBuilt
    <2>2. g = own
      BY <1>1, <1>4, <2>1, NewestIsLatest
    <2>3. pc'[r] = "checking" /\ current'[r] = own /\ faults' = faults
          /\ UNCHANGED << row, created >>
      BY <1>1, <1>5, <2>1, <2>2 DEF LoadBuilt, Choose, Goto, stores, TypeOK
    <2>4. phase'[r] = "validating"
      BY <1>1, <2>3 DEF ValidateLatest, Progress
    <2> QED BY <1>2, <1>3, <1>4, <2>3, <2>4 DEF LoneOK, Newest, Active, Body, IndexPhases, own
  <1>6. CASE Check(r)
    <2>1. /\ pc[r] = "checking" /\ UNCHANGED << row, created >> /\ faults' = faults
          /\ pc'[r] = "idle" \/ (pc'[r] = "validate_marking" /\ current' = current)
      BY <1>1, <1>6 DEF Check, Finish, End, Proceed, Goto, stores, local, TypeOK
    <2>2. CASE pc'[r] = "idle"
      <3>1. phase'[r] \in Loose
        BY <1>1, <2>1, <2>2, HandlerLoose DEF ValidateLatest, Progress, Completes, Enter
      <3> QED BY <1>2, <1>3, <3>1, LooseStep
    <2>3. CASE pc'[r] # "idle"
      <3>1. phase'[r] = "validating"
        BY <1>1, <2>1, <2>3 DEF ValidateLatest, Progress
      <3> QED BY <1>2, <1>3, <1>4, <2>1, <2>3, <3>1
              DEF LoneOK, Newest, Active, Body, IndexPhases, own
    <2> QED BY <2>2, <2>3
  <1>7. CASE MarkValidation(r)
    <2>1. /\ pc'[r] = "idle" /\ created' = created /\ current[r] = own
          /\ row' = [row EXCEPT ![own].status = "validated"]
      BY <1>1, <1>4, <1>7 DEF MarkValidation, SetStatus, Finish, End, Goto, TypeOK
    <2>2. row'[own].status = "validated"
      BY <1>1, <2>1 DEF TypeOK, Row, own
    <2>3. phase'[r] \in Loose \cup {"promoting"}
      BY <1>1, <2>1, HandlerLoose DEF ValidateLatest, Progress, Enter, Loose, Stopped
    <2>4. CASE phase'[r] = "promoting"
      BY <1>2, <1>3, <1>4, <2>1, <2>2, <2>4 DEF LoneOK, Newest, Active, Body, IndexPhases, own
    <2> QED BY <1>2, <1>3, <2>3, <2>4, LooseStep
  <1> QED BY <1>5, <1>6, <1>7 DEF ValidateLatest, Validate

LEMMA LonePromote ==
  ASSUME FlowInv, NEW r \in Runs, LoneOK(r), PromoteLatest(r)
  PROVE  LoneOK(r)'
  <1> DEFINE own == OwnCollection[r]
  <1>1. phase[r] = "promoting" /\ phase[r] \in Active /\ TypeOK /\ FlowTypes
        /\ phase \in [Runs -> {"idle"} \cup Active \cup Stopped]
    BY Known DEF PromoteLatest, Active, Body, IndexPhases, FlowInv, FlowTypeOK
  <1>2. NobodyElse(r)'
    BY <1>1, StillAlone DEF LoneOK, OwnStep, Index
  <1>3. UsesOwn(r)' /\ FromAll(r)'
    BY <1>1 DEF PromoteLatest, LoneOK, UsesOwn, FromAll, Used, files, records
  <1>4. /\ Newest(own) /\ own \in Generations /\ AliasOf[own] = FlowAlias
        /\ \/ pc[r] = "idle" /\ row[own].status = "validated"
           \/ pc[r] \in Promoting /\ current[r] = own
        /\ pc[r] \in {"promote_marking", "promote_auditing"} => alias[FlowAlias] = own
    BY <1>1 DEF LoneOK
  <1> HIDE DEF own
  <1>5. ASSUME created' = created, phase'[r] = "promoting", pc'[r] \in Promoting,
               current'[r] = own,
               pc'[r] \in {"promote_marking", "promote_auditing"} => alias'[FlowAlias] = own
        PROVE  LoneOK(r)'
    BY <1>2, <1>3, <1>4, <1>5 DEF LoneOK, Newest, Active, Body, IndexPhases, own
  <1>6. pc'[r] # "idle" /\ faults' = faults => phase'[r] = "promoting"
    BY <1>1 DEF PromoteLatest, Progress
  <1>7. pc'[r] = "idle" /\ ~ Completes(r, "promote_auditing") => phase'[r] \in Loose
    BY <1>1, HandlerLoose DEF PromoteLatest, Progress, Enter, Loose, Stopped
  <1>8. CASE LoadValidated(r)
    <2>1. PICK g \in Generations : IsLatest(g, "validated") /\ Choose(r, g, "promote_resolving")
      BY <1>8 DEF LoadValidated
    <2>2. pc[r] = "idle"
      BY <2>1 DEF Choose
    <2>3. g = own
      BY <1>1, <1>4, <2>1, <2>2, NewestIsLatest
    <2> QED BY <1>1, <1>5, <1>6, <1>8, <2>1, <2>3 DEF LoadValidated, Choose, Goto, stores, TypeOK
  <1>9. CASE ResolvePrevious(r)
    <2>1. /\ pc'[r] = "promote_switching" /\ faults' = faults /\ current' = current
          /\ created' = created /\ pc[r] = "promote_resolving"
      BY <1>1, <1>9 DEF ResolvePrevious, Goto, stores, TypeOK
    <2> QED BY <1>4, <1>5, <1>6, <2>1
  <1>10. CASE SwitchToPromoted(r)
    <2>1. pc[r] = "promote_switching" /\ current[r] = own /\ created' = created
      BY <1>4, <1>10 DEF SwitchToPromoted
    <2>2. alias' = [alias EXCEPT ![FlowAlias] = own] /\ FlowAlias \in Aliases
      BY <1>4, <1>10, <2>1 DEF SwitchToPromoted, Own
    <2>3. alias'[FlowAlias] = own
      BY <1>1, <2>2 DEF TypeOK
    <2>4. \/ pc'[r] = "promote_marking" /\ current' = current /\ faults' = faults
          \/ pc'[r] = "idle"
      BY <1>1, <1>10 DEF SwitchToPromoted, Returns, Proceed, Raise, End, Goto, local, TypeOK
    <2>5. CASE pc'[r] = "idle"
      <3>1. phase'[r] \in Loose
        BY <1>7, <2>1, <2>5 DEF Completes
      <3> QED BY <1>2, <1>3, <3>1, LooseStep
    <2> QED BY <1>5, <1>6, <2>1, <2>3, <2>4, <2>5
  <1>11. CASE MarkPromoted(r)
    <2>1. /\ pc[r] = "promote_marking" /\ current[r] = own /\ created' = created
          /\ alias' = alias /\ alias[FlowAlias] = own
      BY <1>4, <1>11 DEF MarkPromoted
    <2>2. \/ pc'[r] = "promote_auditing" /\ current' = current /\ faults' = faults
          \/ pc'[r] = "idle"
      BY <1>1, <1>11 DEF MarkPromoted, Returns, Proceed, Raise, End, Goto, local, TypeOK
    <2>3. CASE pc'[r] = "idle"
      <3>1. phase'[r] \in Loose
        BY <1>7, <2>1, <2>3 DEF Completes
      <3> QED BY <1>2, <1>3, <3>1, LooseStep
    <2> QED BY <1>5, <1>6, <2>1, <2>2, <2>3
  <1>12. CASE AuditPromotion(r)
    <2>1. /\ pc[r] = "promote_auditing" /\ current[r] = own /\ alias' = alias
          /\ alias[FlowAlias] = own /\ pc'[r] = "idle"
      BY <1>1, <1>4, <1>12 DEF AuditPromotion, Finish, End, Goto, TypeOK
    <2>2. phase'[r] \in Loose \cup {"querying"}
      BY <1>1, <2>1, HandlerLoose DEF PromoteLatest, Progress, Enter, Loose, Stopped
    <2>3. CASE phase'[r] = "querying"
      <3>1. promoted'[r] = own
        BY <1>1, <2>1, <2>3 DEF PromoteLatest, FlowTypes
      <3> QED BY <1>2, <1>3, <2>1, <2>3, <3>1 DEF LoneOK, Active, Body, own
    <2> QED BY <1>2, <1>3, <2>2, <2>3, LooseStep
  <1> QED BY <1>8, <1>9, <1>10, <1>11, <1>12 DEF PromoteLatest, Promote

LEMMA LoneRefused ==
  ASSUME FlowInv, NEW r \in Runs, LoneOK(r), phase[r] \in Active,
         \/ IndexCallRaises(r) \/ NothingToTake(r) \/ Abort(r) \/ BindingFails(r)
         \/ Export(r) \/ Deliver(r) \/ LogRun(r)
  PROVE  LoneOK(r)'
  <1>1. NobodyElse(r)'
    BY StillAlone DEF LoneOK, OwnStep, Index, Conclude
  <1>2. phase \in [Runs -> {"idle"} \cup Active \cup Stopped]
    BY DEF FlowInv, FlowTypeOK
  <1>3. UsesOwn(r)'
    BY DEF IndexCallRaises, NothingToTake, Abort, LogEarlyFailure, LogFailure, RunRaises, RunDies,
       BindingFails, Export, Deliver, LogRun, LoneOK, UsesOwn, Used, FromAll, flow, files,
       found_vars, records
  <1>4. \E next \in Loose : Enter(r, next)
    <2>1. Handler(r) \in Loose /\ {"exporting", "delivering", "logging"} \subseteq Loose
          /\ Stopped \subseteq Loose /\ {"raised", "crashed", "returned"} \subseteq Loose
      BY HandlerLoose DEF Loose, Stopped
    <2> QED BY <2>1 DEF IndexCallRaises, NothingToTake, Abort, LogEarlyFailure, LogFailure, RunRaises,
       RunDies, BindingFails, Export, Deliver, LogRun, Refuse, ReturnsTo
  <1>5. phase'[r] \in Loose
    BY <1>2, <1>4 DEF Enter
  <1> QED BY <1>1, <1>3, <1>5, LooseStep

\* What a lone run reads through the alias or audits is what it promoted.
LEMMA LoneUse ==
  ASSUME FlowInv, NEW r \in Runs, LoneOK(r), Query(r) \/ Search(r) \/ WriteAudit(r)
  PROVE  LoneOK(r)'
  <1> DEFINE own == OwnCollection[r]
  <1>1. /\ phase[r] \in {"querying", "searching", "auditing"} /\ phase[r] \in Active
        /\ FlowTypes /\ phase \in [Runs -> {"idle"} \cup Active \cup Stopped]
    BY Known DEF Query, Search, WriteAudit, Active, Body, FlowInv, FlowTypeOK
  <1>2. NobodyElse(r)'
    BY <1>1, StillAlone DEF LoneOK, OwnStep, Conclude
  <1>3. /\ promoted[r] = own /\ FromAll(r) /\ UsesOwn(r)
        /\ phase[r] \in {"querying", "searching"} => alias[FlowAlias] = own
    BY <1>1 DEF LoneOK
  <1>4. FromAll(r)' /\ UNCHANGED << alias, promoted >>
    BY <1>3 DEF Query, Search, WriteAudit, FromAll, files, vars, found_vars, records
  <1>5. searched'[r] \subseteq searched[r] \cup {own} /\ audited'[r] \in {audited[r], own}
    BY <1>1, <1>3 DEF Query, Search, WriteAudit, Uses, FlowTypes, records, found_vars
  <1>6. UsesOwn(r)'
    BY <1>3, <1>4, <1>5 DEF UsesOwn, Used
  <1>7. \/ phase'[r] \in Loose
        \/ phase'[r] = "searching" /\ phase[r] = "querying"
        \/ phase'[r] = "auditing"
    BY <1>1, HandlerLoose DEF Query, Search, WriteAudit, Refuse, ReturnsTo, Enter, Loose
  <1>8. CASE phase'[r] = "searching" /\ phase[r] = "querying"
    BY <1>2, <1>3, <1>4, <1>6, <1>8 DEF LoneOK, Active, Body
  <1>9. CASE phase'[r] = "auditing"
    BY <1>2, <1>3, <1>4, <1>6, <1>9 DEF LoneOK, Active, Body
  <1> QED BY <1>2, <1>6, <1>7, <1>8, <1>9, LooseStep

LEMMA LoneOwnStep ==
  ASSUME FlowInv, NEW r \in Runs, LoneOK(r), phase[r] \in Active, OwnStep(r)
  PROVE  LoneOK(r)'
  BY LonePrepare, LoneBuild, LoneValidate, LonePromote, LoneRefused, LoneUse
     DEF OwnStep, Index, Conclude

-----------------------------------------------------------------------------
(* The steps of the others                                                 *)

\* Whoever starts something ends the loneliness of all runs that go on.
LEMMA NobodyJoins ==
  ASSUME NEW r \in Runs, phase[r] \in Active, r \in alone', NobodyElse(r), FlowNext
  PROVE  OwnStep(r)
  <1>1. r \notin EndedAlone
    BY DEF EndedAlone, Active, Body, IndexPhases, Handlers, Stopped
  <1>2. ASSUME NEW s \in Runs, s # r, OwnStep(s) PROVE FALSE
    <2>1. phase[s] \notin Active
      BY <1>2 DEF NobodyElse, Busy, Running
    <2>2. BeginRun(s)
      BY <1>2, <2>1 DEF OwnStep, Prepare, Configure, OpenEmbeddings, CloseEmbeddings, Index,
         BuildOwn, ValidateLatest, PromoteLatest, IndexCallRaises, NothingToTake, Conclude, Query,
         Search, WriteAudit, BindingFails, Export, Deliver, LogRun, Abort, LogEarlyFailure,
         LogFailure, RunRaises, RunDies, Active, Body, IndexPhases, Handlers
    <2>3. alone' \subseteq EndedAlone \cup {s}
      BY <2>2 DEF BeginRun
    <2> QED BY <1>1, <1>2, <2>3
  <1>3. ASSUME NEW p \in Operators, Errand(p) PROVE FALSE
    <2>1. p # r
      BY <1>3 DEF Errand, Running
    <2>2. pc[p] = "idle"
      BY <2>1 DEF NobodyElse, Busy
    <2> QED BY <1>1, <1>3, <2>2 DEF Errand
  <1> QED BY <1>2, <1>3 DEF FlowNext, OwnStep, AdminOperation, MakeBuild

\* What a run has used, and its collection, are changed by nobody else.
LEMMA UsedByOthers ==
  ASSUME FlowInv, NEW r \in Runs, FlowNext, ~ OwnStep(r)
  PROVE  phase'[r] = phase[r] /\ Used(r)' = Used(r) /\ FromAll(r)' = FromAll(r)
  <1>1. FlowTypes
    BY Known
  <1>2. ASSUME NEW s \in Runs \ {r}, OwnStep(s)
        PROVE  phase'[r] = phase[r] /\ Used(r)' = Used(r) /\ FromAll(r)' = FromAll(r)
    <2>1. phase'[r] = phase[r]
      BY <1>2, OwnMove
    <2>2. searched'[r] = searched[r] /\ audited'[r] = audited[r]
      <3>1. CASE Prepare(s) \/ Abort(s)
        BY <3>1 DEF Prepare, BeginRun, Configure, OpenEmbeddings, CloseEmbeddings, Abort,
           LogEarlyFailure, LogFailure, RunRaises, RunDies, flow, found_vars, records
      <3>2. CASE Index(s)
        BY <3>2 DEF Index, BuildOwn, ValidateLatest, PromoteLatest, IndexCallRaises, NothingToTake,
           flow, found_vars, records
      <3>3. CASE Conclude(s)
        BY <1>1, <3>3 DEF Conclude, Query, Search, WriteAudit, BindingFails, Export, Deliver,
           LogRun, Uses, flow, found_vars, records, FlowTypes
      <3> QED BY <1>2, <3>1, <3>2, <3>3 DEF OwnStep
    <2>3. source'[OwnCollection[r]] = source[OwnCollection[r]]
      <3>1. CASE BuildOwn(s)
        <4>1. OwnCollection[r] # OwnCollection[s]
          OBVIOUS
        <4> QED BY <1>1, <3>1, <4>1 DEF BuildOwn, FlowTypes
      <3>2. CASE ~ BuildOwn(s)
        BY <1>2, <3>2 DEF OwnStep, Prepare, BeginRun, Configure, OpenEmbeddings, CloseEmbeddings,
           Abort, LogEarlyFailure, LogFailure, RunRaises, RunDies, Index, ValidateLatest,
           PromoteLatest, IndexCallRaises, NothingToTake, Conclude, Query, Search, WriteAudit,
           BindingFails, Export, Deliver, LogRun, flow, files
      <3> QED BY <3>1, <3>2
    <2> QED BY <2>1, <2>2, <2>3 DEF Used, FromAll
  <1>3. ASSUME NEW p \in Operators, AdminOperation(p) \/ MakeBuild(p)
        PROVE  phase'[r] = phase[r] /\ Used(r)' = Used(r) /\ FromAll(r)' = FromAll(r)
    <2>1. phase' = phase /\ Used(r)' = Used(r)
      BY <1>3 DEF AdminOperation, MakeBuild, Used, found_vars, records
    <2>2. source'[OwnCollection[r]] = source[OwnCollection[r]]
      <3>1. CASE MakeBuild(p) /\ pc[p] = "idle"
        <4>1. source' = [source EXCEPT ![current'[p]] = "complete"]
              /\ current'[p] # OwnCollection[r]
          BY <3>1 DEF MakeBuild, OwnCollections
        <4> QED BY <1>1, <4>1 DEF FlowTypes
      <3>2. CASE ~ (MakeBuild(p) /\ pc[p] = "idle")
        BY <1>3, <3>2 DEF AdminOperation, MakeBuild, files
      <3> QED BY <3>1, <3>2
    <2> QED BY <2>1, <2>2 DEF FromAll
  <1> QED BY <1>2, <1>3 DEF FlowNext, OwnStep

LEMMA LoneNext ==
  ASSUME FlowInv, LoneInv, [FlowNext]_allVars
  PROVE  LoneInv'
  <1>1. CASE UNCHANGED allVars
    BY <1>1 DEF allVars, vars, flow, files, found_vars, records, LoneInv, LoneOK, UsesOwn, Used,
       FromAll, NobodyElse, Busy, Running, Newest
  <1>2. CASE FlowNext
    <2> SUFFICES ASSUME NEW r \in Runs
                 PROVE  /\ phase'[r] = "idle" => Used(r)' = {}
                        /\ r \in alone' => LoneOK(r)'
      BY DEF LoneInv
    <2>1. FlowTypes /\ phase \in [Runs -> {"idle"} \cup Active \cup Stopped]
      BY Known DEF FlowInv, FlowTypeOK
    <2>2. CASE BeginRun(r)
      <3>1. phase[r] = "idle" /\ phase'[r] = "configuring"
        BY <2>1, <2>2 DEF BeginRun, Enter
      <3>2. Used(r)' = {}
        BY <2>2, <3>1 DEF BeginRun, Used, found_vars, records, LoneInv
      <3>3. ASSUME r \in alone' PROVE LoneOK(r)'
        <4>1. r \notin EndedAlone
          BY <3>1 DEF EndedAlone, Stopped
        <4>2. NobodyElse(r)
          BY <2>2, <3>3, <4>1 DEF BeginRun, NobodyElse
        <4>3. NobodyElse(r)'
          BY <2>2, <4>2, StillAlone DEF OwnStep, Prepare
        <4> QED BY <3>1, <3>2, <4>3, LooseStep DEF UsesOwn, Loose
      <3> QED BY <3>1, <3>3
    <2>3. CASE OwnStep(r) /\ ~ BeginRun(r)
      <3>1. phase[r] \in Active
        BY <2>3 DEF OwnStep, Prepare, Configure, OpenEmbeddings, CloseEmbeddings, Index,
           BuildOwn, ValidateLatest, PromoteLatest, IndexCallRaises, NothingToTake, Conclude, Query,
           Search, WriteAudit, BindingFails, Export, Deliver, LogRun, Abort, LogEarlyFailure,
           LogFailure, RunRaises, RunDies, Active, Body, IndexPhases, Handlers
      <3>2. phase'[r] # "idle"
        <4>1. Handler(r) # "idle"
          BY DEF Handler
        <4> QED BY <2>1, <2>3, <3>1, <4>1 DEF OwnStep, Prepare, Configure, OpenEmbeddings,
           CloseEmbeddings, Index, BuildOwn, ValidateLatest, PromoteLatest, IndexCallRaises,
           NothingToTake, Conclude, Query, Search, WriteAudit, BindingFails, Export, Deliver, LogRun,
           Abort, LogEarlyFailure, LogFailure, RunRaises, RunDies, Active, Body, IndexPhases,
           Handlers, Progress, ReturnsTo, Refuse, Enter
      <3>3. ASSUME r \in alone' PROVE r \in alone
        BY <2>3, <3>3 DEF OwnStep, Prepare, Configure, OpenEmbeddings, CloseEmbeddings, Index,
           BuildOwn, ValidateLatest, PromoteLatest, IndexCallRaises, NothingToTake, Conclude, Query,
           Search, WriteAudit, BindingFails, Export, Deliver, LogRun, Abort, LogEarlyFailure,
           LogFailure, RunRaises, RunDies, flow
      <3> QED BY <2>3, <3>1, <3>2, <3>3, LoneOwnStep DEF LoneInv
    <2>4. CASE ~ OwnStep(r)
      <3>1. phase'[r] = phase[r] /\ Used(r)' = Used(r) /\ FromAll(r)' = FromAll(r)
        BY <1>2, <2>4, UsedByOthers
      <3>2. ASSUME r \in alone' PROVE LoneOK(r)'
        <4>1. r \in alone
          <5>1. ASSUME NEW s \in Runs, s # r, BeginRun(s) PROVE r \in alone
            BY <3>2, <5>1 DEF BeginRun, EndedAlone
          <5>2. ASSUME NEW p \in Operators, Errand(p) PROVE r \in alone
            BY <3>2, <5>2 DEF Errand, EndedAlone
          <5> QED BY <1>2, <2>4, <3>2, <5>1, <5>2 DEF FlowNext, OwnStep, Prepare, Configure,
             OpenEmbeddings, CloseEmbeddings, Index, BuildOwn, ValidateLatest, PromoteLatest,
             IndexCallRaises, NothingToTake, Conclude, Query, Search, WriteAudit, BindingFails,
             Export, Deliver, LogRun, Abort, LogEarlyFailure, LogFailure, RunRaises, RunDies, flow,
             AdminOperation, MakeBuild
        <4>2. LoneOK(r)
          BY <4>1 DEF LoneInv
        <4>3. phase[r] \in Stopped
          BY <1>2, <2>4, <3>2, <4>2, NobodyJoins DEF LoneOK
        <4> QED BY <3>1, <4>2, <4>3 DEF LoneOK, UsesOwn, Stopped, Active, Body, IndexPhases, Handlers
      <3> QED BY <3>1, <3>2 DEF LoneInv
    <2> QED BY <2>2, <2>3, <2>4
  <1> QED BY <1>1, <1>2

\* run_minimal_vertical_slice: for any number of runs, callers and troubles, a run
\* that nothing overlaps searches and audits only the collection it has built, and
\* has built that from its own complete embeddings file.
THEOREM LoneRunsAreTheirOwn == FlowSpec => []LoneRunUsesItsOwnIndex
  <1>1. FlowInv /\ LoneInv => LoneRunUsesItsOwnIndex
    BY DEF LoneRunUsesItsOwnIndex, LoneInv, LoneOK, UsesOwn, FromAll, FlowInv, FlowTypeOK
  <1>2. FlowInv /\ LoneInv /\ [FlowNext]_allVars => LoneInv'
    BY LoneNext
  <1> QED BY <1>1, <1>2, LoneInit, FlowInvariance, PTL DEF FlowSpec

=============================================================================
