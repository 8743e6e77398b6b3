----------------------------- MODULE IndexProofs -----------------------------
(* Theorems about IndexLifecycle for any number of aliases, generations,   *)
(* callers and faults.                                                     *)
EXTENDS IndexLifecycle, FiniteSetTheorems, TLAPS

USE AliasAssumption, NoGenerationAssumption, FaultAssumption

-----------------------------------------------------------------------------
(* The inductive invariant                                                 *)

Passed == {"validated", "promoted", "rolled_back"}

\* A collection that may be served: whole, and past built.
Fit(g) == collection[g] = "whole" /\ row[g].status \in Passed

\* A collection that has passed validation is whole, and one with a row exists.
RowsOK ==
  \A g \in Generations :
    /\ row[g].status \in Passed => collection[g] = "whole"
    /\ collection[g] = "absent" => row[g].status = "absent"

\* A builder works on a collection that nobody else builds and that has no row.
BuilderOK(p) ==
  pc[p] \in Building =>
    /\ collection[current[p]] # "absent"
    /\ row[current[p]].status = "absent"
    /\ pc[p] = "filling" => collection[current[p]] = "filling"
    /\ \A q \in Operators \ {p} : pc[q] \in Building => current[q] # current[p]

\* What a caller holds between its reads and its writes is still fit to serve.
HeldOK(p) ==
  /\ pc[p] \in Validating => row[current[p]].status # "absent"
  /\ pc[p] = "validate_marking" => collection[current[p]] = "whole"
  /\ pc[p] \in Promoting \cup RollingBack => Fit(current[p])
  /\ pc[p] \in {"promote_switching", "promote_marking", "rollback_switching",
                "rollback_marking"} /\ previous[p] # NoGeneration =>
       Fit(previous[p]) /\ AliasOf[previous[p]] = AliasOf[current[p]]

TargetsOK ==
  \A g \in Generations : row[g].previous # NoGeneration =>
    Fit(row[g].previous) /\ AliasOf[row[g].previous] = AliasOf[g]

ServedOK ==
  \A a \in Aliases : alias[a] # NoGeneration => Fit(alias[a]) /\ AliasOf[alias[a]] = a

IInv ==
  /\ TypeOK
  /\ RowsOK
  /\ \A p \in Operators : BuilderOK(p) /\ HeldOK(p)
  /\ TargetsOK
  /\ ServedOK

USE DEF Calls, Building, Validating, Promoting, RollingBack, Passed

LEMMA InitInv == Init => IInv
  BY DEF Init, IInv, TypeOK, RowsOK, BuilderOK, HeldOK, TargetsOK, ServedOK, Row, NoRow,
     OrNone, Fit

\* The ways a call ends, seen from the one operator that made it.
LEMMA Ends ==
  ASSUME TypeOK, NEW p \in Operators, NEW next \in Calls,
         Finish(p) \/ Raise(p) \/ Returns(p, next)
  PROVE  /\ faults' \in 0..MaxFaults
         /\ \/ /\ pc' = [pc EXCEPT ![p] = "idle"]
               /\ current' = [current EXCEPT ![p] = NoGeneration]
               /\ previous' = [previous EXCEPT ![p] = NoGeneration]
            \/ /\ pc' = [pc EXCEPT ![p] = next] /\ UNCHANGED << current, previous >>
               /\ Returns(p, next)
  BY DEF TypeOK, Finish, Raise, Returns, Proceed, End, Goto, local

-----------------------------------------------------------------------------
(* Steps that leave collections, rows and aliases alone                    *)

LEMMA LocalStep ==
  ASSUME IInv, TypeOK', NEW p \in Operators, UNCHANGED << collection, row, created, alias >>,
         \A q \in Operators \ {p} :
           pc'[q] = pc[q] /\ current'[q] = current[q] /\ previous'[q] = previous[q],
         pc'[p] \notin Building, HeldOK(p)'
  PROVE  IInv'
  <1>1. \A q \in Operators : BuilderOK(q)'
    BY DEF IInv, BuilderOK
  <1>2. \A q \in Operators : HeldOK(q)'
    BY DEF IInv, HeldOK, Fit
  <1>3. RowsOK' /\ TargetsOK' /\ ServedOK'
    BY DEF IInv, RowsOK, TargetsOK, ServedOK, Fit
  <1> QED BY <1>1, <1>2, <1>3 DEF IInv

LEMMA EndStep ==
  ASSUME IInv, NEW p \in Operators, UNCHANGED << collection, row, created, alias >>,
         trail' \in [Aliases -> OrNone], Finish(p) \/ Raise(p)
  PROVE  IInv'
  <1>1. TypeOK
    BY DEF IInv
  <1>2. /\ pc' = [pc EXCEPT ![p] = "idle"] /\ faults' \in 0..MaxFaults
        /\ current' = [current EXCEPT ![p] = NoGeneration]
        /\ previous' = [previous EXCEPT ![p] = NoGeneration]
    BY <1>1 DEF TypeOK, Finish, Raise, End, Goto
  <1>3. TypeOK'
    BY <1>1, <1>2 DEF TypeOK, OrNone
  <1>4. HeldOK(p)' /\ pc'[p] = "idle"
    BY <1>1, <1>2 DEF TypeOK, HeldOK
  <1>5. \A q \in Operators \ {p} :
          pc'[q] = pc[q] /\ current'[q] = current[q] /\ previous'[q] = previous[q]
    BY <1>1, <1>2 DEF TypeOK
  <1> QED BY <1>3, <1>4, <1>5, LocalStep

LEMMA LoadStep ==
  ASSUME IInv, NEW p \in Operators, LoadBuilt(p) \/ LoadValidated(p) \/ LoadPromoted(p)
  PROVE  IInv'
  <1>1. TypeOK
    BY DEF IInv
  <1>2. PICK g \in Generations, next \in Calls \ Building :
          /\ Choose(p, g, next) /\ UNCHANGED stores
          /\ row[g].status # "absent"
          /\ next = "checking" \/ (next \in {"promote_resolving", "rollback_resolving"}
                                     /\ row[g].status \in Passed)
    <2>1. CASE LoadBuilt(p)
      BY <2>1 DEF LoadBuilt, IsLatest
    <2>2. CASE LoadValidated(p)
      BY <2>2 DEF LoadValidated, IsLatest
    <2>3. CASE LoadPromoted(p)
      BY <2>3 DEF LoadPromoted, IsLatest
    <2> QED BY <2>1, <2>2, <2>3
  <1>3. /\ pc' = [pc EXCEPT ![p] = next] /\ current' = [current EXCEPT ![p] = g]
        /\ UNCHANGED << previous, faults >> /\ UNCHANGED << collection, row, created, alias, trail >>
    BY <1>2 DEF Choose, Goto, stores
  <1>4. TypeOK'
    BY <1>1, <1>2, <1>3 DEF TypeOK, OrNone
  <1>5. HeldOK(p)'
    <2>1. pc'[p] = next /\ current'[p] = g
      BY <1>1, <1>3 DEF TypeOK
    <2>2. row[g].status \in Passed => Fit(g) /\ Fit(g)'
      BY <1>3 DEF IInv, RowsOK, Fit
    <2> QED BY <1>2, <1>3, <2>1, <2>2 DEF HeldOK
  <1>6. pc'[p] \notin Building /\ \A q \in Operators \ {p} :
          pc'[q] = pc[q] /\ current'[q] = current[q] /\ previous'[q] = previous[q]
    BY <1>1, <1>2, <1>3 DEF TypeOK
  <1> QED BY <1>3, <1>4, <1>5, <1>6, LocalStep

LEMMA CheckStep ==
  ASSUME IInv, NEW p \in Operators, Check(p)
  PROVE  IInv'
  <1>1. TypeOK
    BY DEF IInv
  <1>2. pc[p] = "checking" /\ UNCHANGED << collection, row, created, alias, trail >>
    BY DEF Check, stores
  <1>3. CASE Finish(p)
    BY <1>1, <1>2, <1>3, EndStep DEF TypeOK
  <1>4. CASE collection[current[p]] = "whole" /\ Proceed(p, "validate_marking")
    <2>1. pc' = [pc EXCEPT ![p] = "validate_marking"] /\ UNCHANGED << current, previous, faults >>
      BY <1>4 DEF Proceed, Goto, local
    <2>2. TypeOK'
      BY <1>1, <1>2, <2>1 DEF TypeOK
    <2>3. HeldOK(p)' /\ pc'[p] \notin Building
      BY <1>1, <1>2, <1>4, <2>1 DEF TypeOK, IInv, HeldOK
    <2>4. \A q \in Operators \ {p} :
            pc'[q] = pc[q] /\ current'[q] = current[q] /\ previous'[q] = previous[q]
      BY <1>1, <2>1 DEF TypeOK
    <2> QED BY <1>2, <2>2, <2>3, <2>4, LocalStep
  <1> QED BY <1>3, <1>4 DEF Check

\* The reads of an alias or a row hold a collection that is fit for the alias.
LEMMA ReadStep ==
  ASSUME IInv, NEW p \in Operators, ResolvePrevious(p) \/ ResolveCurrent(p) \/ ReadTarget(p)
  PROVE  IInv'
  <1>1. TypeOK /\ HeldOK(p)
    BY DEF IInv
  <1>2. /\ pc[p] \in {"promote_resolving", "rollback_resolving", "rollback_reading"}
        /\ UNCHANGED << collection, row, created, alias, trail >>
    BY DEF ResolvePrevious, ResolveCurrent, ReadTarget, stores
  <1>3. current[p] \in Generations /\ Own(p) \in Aliases /\ Fit(current[p])
    BY <1>1, <1>2 DEF TypeOK, HeldOK, Own
  <1>4. CASE Finish(p)
    BY <1>1, <1>2, <1>4, EndStep DEF TypeOK
  <1>5. CASE ResolvePrevious(p)
    <2>1. /\ pc[p] = "promote_resolving" /\ previous' = [previous EXCEPT ![p] = alias[Own(p)]]
          /\ pc' = [pc EXCEPT ![p] = "promote_switching"] /\ UNCHANGED << current, faults >>
      BY <1>5 DEF ResolvePrevious, Goto
    <2>2. TypeOK'
      <3>1. alias[Own(p)] \in OrNone
        BY <1>1, <1>3 DEF TypeOK
      <3>2. previous' \in [Operators -> OrNone] /\ pc' \in [Operators -> {"idle"} \cup Calls]
        BY <1>1, <2>1, <3>1 DEF TypeOK
      <3>3. \A q \in Operators :
              /\ pc'[q] \in Calls => current'[q] \in Generations
              /\ pc'[q] \in {"rollback_switching", "rollback_marking", "rollback_auditing"} =>
                   previous'[q] \in Generations
        BY <1>1, <1>3, <2>1 DEF TypeOK
      <3> QED BY <1>1, <1>2, <2>1, <3>2, <3>3 DEF TypeOK
    <2>3. /\ pc'[p] = "promote_switching" /\ current'[p] = current[p]
          /\ previous'[p] = alias[Own(p)] /\ \A g \in Generations : Fit(g)' = Fit(g)
      BY <1>1, <1>2, <2>1 DEF TypeOK, Fit
    <2>4. alias[Own(p)] # NoGeneration =>
            /\ alias[Own(p)] \in Generations /\ Fit(alias[Own(p)])
            /\ AliasOf[alias[Own(p)]] = AliasOf[current[p]]
      BY <1>1, <1>3 DEF IInv, ServedOK, TypeOK, OrNone, Own
    <2>5. HeldOK(p)'
      BY <1>3, <2>3, <2>4 DEF HeldOK
    <2>6. \A q \in Operators \ {p} :
            pc'[q] = pc[q] /\ current'[q] = current[q] /\ previous'[q] = previous[q]
      BY <1>1, <2>1 DEF TypeOK
    <2> QED BY <1>2, <2>2, <2>3, <2>5, <2>6, LocalStep
  <1>6. CASE ResolveCurrent(p) /\ ~Finish(p)
    <2>1. /\ pc[p] = "rollback_resolving" /\ alias[Own(p)] # NoGeneration
          /\ current' = [current EXCEPT ![p] = alias[Own(p)]]
          /\ pc' = [pc EXCEPT ![p] = "rollback_reading"] /\ UNCHANGED << previous, faults >>
      BY <1>6 DEF ResolveCurrent, Goto
    <2>2. alias[Own(p)] \in Generations /\ Fit(alias[Own(p)])
      BY <1>1, <1>3, <2>1 DEF IInv, ServedOK, TypeOK, OrNone
    <2>3. TypeOK'
      BY <1>1, <1>2, <2>1, <2>2 DEF TypeOK, OrNone
    <2>4. /\ pc'[p] = "rollback_reading" /\ current'[p] = alias[Own(p)]
          /\ \A g \in Generations : Fit(g)' = Fit(g)
      BY <1>1, <1>2, <2>1 DEF TypeOK, Fit
    <2>5. HeldOK(p)'
      BY <2>2, <2>4 DEF HeldOK
    <2>6. \A q \in Operators \ {p} :
            pc'[q] = pc[q] /\ current'[q] = current[q] /\ previous'[q] = previous[q]
      BY <1>1, <2>1 DEF TypeOK
    <2> QED BY <1>2, <2>3, <2>4, <2>5, <2>6, LocalStep
  <1>7. CASE ReadTarget(p) /\ ~Finish(p)
    <2> DEFINE target == row[current[p]].previous
    <2>1. /\ pc[p] = "rollback_reading" /\ target # NoGeneration
          /\ previous' = [previous EXCEPT ![p] = target]
          /\ pc' = [pc EXCEPT ![p] = "rollback_switching"] /\ UNCHANGED << current, faults >>
      BY <1>7 DEF ReadTarget, Goto
    <2>2. target \in Generations /\ Fit(target) /\ AliasOf[target] = AliasOf[current[p]]
      BY <1>1, <1>3, <2>1 DEF IInv, TargetsOK, TypeOK, Row, OrNone
    <2> HIDE DEF target
    <2>3. TypeOK'
      BY <1>1, <1>2, <1>3, <2>1, <2>2 DEF TypeOK, OrNone
    <2>4. /\ pc'[p] = "rollback_switching" /\ current'[p] = current[p] /\ previous'[p] = target
          /\ \A g \in Generations : Fit(g)' = Fit(g)
      BY <1>1, <1>2, <2>1 DEF TypeOK, Fit
    <2>5. HeldOK(p)'
      BY <1>3, <2>2, <2>4 DEF HeldOK
    <2>6. \A q \in Operators \ {p} :
            pc'[q] = pc[q] /\ current'[q] = current[q] /\ previous'[q] = previous[q]
      BY <1>1, <2>1 DEF TypeOK
    <2> QED BY <1>2, <2>3, <2>4, <2>5, <2>6, LocalStep
  <1> QED BY <1>4, <1>5, <1>6, <1>7

LEMMA AuditStep ==
  ASSUME IInv, NEW p \in Operators, AuditPromotion(p) \/ AuditRollback(p) \/ CallRaises(p)
  PROVE  IInv'
  <1>1. TypeOK
    BY DEF IInv
  <1>2. trail' \in [Aliases -> OrNone]
    BY <1>1 DEF TypeOK, AuditPromotion, AuditRollback, CallRaises, stores
  <1>3. UNCHANGED << collection, row, created, alias >> /\ (Finish(p) \/ Raise(p))
    BY DEF AuditPromotion, AuditRollback, CallRaises, stores
  <1> QED BY <1>2, <1>3, EndStep

-----------------------------------------------------------------------------
(* Steps that change a collection, a row or an alias                       *)

\* Collections only become whole, rows only appear, and what is fit stays fit.
Grows ==
  \A g \in Generations :
    /\ collection[g] = "whole" => collection'[g] = "whole"
    /\ row[g].status # "absent" => row'[g].status # "absent"
    /\ row[g].status \in Passed => row'[g].status \in Passed

Others(p) ==
  \A q \in Operators \ {p} :
    pc'[q] = pc[q] /\ current'[q] = current[q] /\ previous'[q] = previous[q]

LocalTypes ==
  /\ pc \in [Operators -> {"idle"} \cup Calls]
  /\ current \in [Operators -> OrNone]
  /\ previous \in [Operators -> OrNone]
  /\ faults \in 0..MaxFaults
  /\ \A p \in Operators :
       /\ pc[p] \in Calls => current[p] \in Generations
       /\ pc[p] \in {"rollback_switching", "rollback_marking", "rollback_auditing"} =>
            previous[p] \in Generations

LEMMA StoreStep ==
  ASSUME IInv, TypeOK', NEW p \in Operators, Grows, Others(p), RowsOK', TargetsOK', ServedOK',
         \A q \in Operators : BuilderOK(q)', HeldOK(p)'
  PROVE  IInv'
  <1>1. \A q \in Operators \ {p} : HeldOK(q)'
    <2> SUFFICES ASSUME NEW q \in Operators \ {p} PROVE HeldOK(q)'
      OBVIOUS
    <2>1. /\ HeldOK(q) /\ TypeOK
          /\ pc'[q] = pc[q] /\ current'[q] = current[q] /\ previous'[q] = previous[q]
      BY DEF IInv, Others
    <2>2. \A g \in Generations : Fit(g) => Fit(g)'
      BY DEF Grows, Fit
    <2>3. /\ pc[q] \in Calls => current[q] \in Generations
          /\ previous[q] # NoGeneration => previous[q] \in Generations
      BY <2>1 DEF TypeOK, OrNone
    <2> QED BY <2>1, <2>2, <2>3 DEF HeldOK, Grows
  <1> QED BY <1>1 DEF IInv

\* An operation that returns from a call or ends with it.
LEMMA ReturnLocals ==
  ASSUME TypeOK, NEW p \in Operators, NEW next \in Calls \ Building, pc[p] \in Calls,
         Finish(p) \/ Returns(p, next),
         next \in {"rollback_switching", "rollback_marking", "rollback_auditing"} =>
           previous[p] \in Generations
  PROVE  /\ LocalTypes' /\ Others(p)
         /\ \/ pc'[p] = "idle"
            \/ pc'[p] = next /\ current'[p] = current[p] /\ previous'[p] = previous[p]
  <1>1. faults' \in 0..MaxFaults /\
        \/ /\ pc' = [pc EXCEPT ![p] = "idle"]
           /\ current' = [current EXCEPT ![p] = NoGeneration]
           /\ previous' = [previous EXCEPT ![p] = NoGeneration]
        \/ /\ pc' = [pc EXCEPT ![p] = next] /\ UNCHANGED << current, previous >>
    BY Ends
  <1>2. CASE /\ pc' = [pc EXCEPT ![p] = "idle"]
             /\ current' = [current EXCEPT ![p] = NoGeneration]
             /\ previous' = [previous EXCEPT ![p] = NoGeneration]
    BY <1>1, <1>2 DEF TypeOK, LocalTypes, Others, OrNone
  <1>3. CASE pc' = [pc EXCEPT ![p] = next] /\ UNCHANGED << current, previous >>
    BY <1>1, <1>3 DEF TypeOK, LocalTypes, Others
  <1> QED BY <1>1, <1>2, <1>3

LEMMA CreateStep ==
  ASSUME IInv, NEW p \in Operators, CreateCollection(p)
  PROVE  IInv'
  <1>1. TypeOK /\ RowsOK /\ TargetsOK /\ ServedOK
    BY DEF IInv
  <1>2. PICK g \in Generations :
          /\ collection[g] = "absent" /\ collection' = [collection EXCEPT ![g] = "filling"]
          /\ pc' = [pc EXCEPT ![p] = "filling"] /\ current' = [current EXCEPT ![p] = g]
          /\ UNCHANGED << row, created, alias, trail, previous, faults >>
    BY DEF CreateCollection, Choose, Goto
  <1>3. TypeOK'
    BY <1>1, <1>2 DEF TypeOK, OrNone
  <1>4. /\ pc'[p] = "filling" /\ current'[p] = g /\ collection'[g] = "filling"
        /\ \A h \in Generations \ {g} : collection'[h] = collection[h]
        /\ row[g].status = "absent" /\ row' = row /\ alias' = alias
    BY <1>1, <1>2 DEF TypeOK, RowsOK
  <1>5. Others(p)
    BY <1>1, <1>2 DEF TypeOK, Others
  <1>6. Grows /\ \A h \in Generations : Fit(h) => Fit(h)'
    BY <1>2, <1>4 DEF Grows, Fit
  <1>7. RowsOK'
    BY <1>1, <1>4 DEF RowsOK
  <1>8. TargetsOK' /\ ServedOK'
    BY <1>1, <1>4, <1>6 DEF TargetsOK, ServedOK, TypeOK, Row, OrNone
  <1>9. \A q \in Operators \ {p} :
          pc[q] \in Building => current[q] \in Generations \ {g}
    BY <1>1, <1>2 DEF IInv, BuilderOK, TypeOK
  <1>10. \A q \in Operators \ {p} : BuilderOK(q)'
    <2> SUFFICES ASSUME NEW q \in Operators \ {p} PROVE BuilderOK(q)'
      OBVIOUS
    <2>1. BuilderOK(q) /\ pc'[q] = pc[q] /\ current'[q] = current[q]
      BY <1>5 DEF IInv, Others
    <2> QED BY <1>4, <1>5, <1>9, <2>1 DEF BuilderOK, Others
  <1>11. BuilderOK(p)'
    BY <1>4, <1>5, <1>9 DEF BuilderOK, Others
  <1>12. HeldOK(p)'
    BY <1>4 DEF HeldOK
  <1> QED BY <1>3, <1>5, <1>6, <1>7, <1>8, <1>10, <1>11, <1>12, StoreStep

LEMMA UpsertStep ==
  ASSUME IInv, NEW p \in Operators, UpsertPoints(p)
  PROVE  IInv'
  <1> DEFINE g == current[p]
  <1>1. TypeOK /\ RowsOK /\ TargetsOK /\ ServedOK /\ BuilderOK(p)
    BY DEF IInv
  <1>2. PICK size \in {"short", "whole"} :
          /\ pc[p] = "filling" /\ collection' = [collection EXCEPT ![g] = size]
          /\ pc' = [pc EXCEPT ![p] = "recording"]
          /\ UNCHANGED << row, created, alias, trail, current, previous, faults >>
    BY DEF UpsertPoints, Proceed, Goto, local
  <1>3. TypeOK'
    BY <1>1, <1>2 DEF TypeOK
  <1>4. /\ g \in Generations /\ collection[g] = "filling" /\ row[g].status = "absent"
        /\ pc'[p] = "recording" /\ current'[p] = g /\ collection'[g] = size
        /\ \A h \in Generations \ {g} : collection'[h] = collection[h]
        /\ row' = row /\ alias' = alias
        /\ \A q \in Operators \ {p} : pc[q] \in Building => current[q] # g
    BY <1>1, <1>2 DEF TypeOK, BuilderOK
  <1>5. Others(p)
    BY <1>1, <1>2 DEF TypeOK, Others
  <1> HIDE DEF g
  <1>6. Grows /\ \A h \in Generations : Fit(h) => Fit(h)'
    BY <1>4 DEF Grows, Fit
  <1>7. RowsOK'
    BY <1>1, <1>2, <1>4 DEF RowsOK
  <1>8. TargetsOK' /\ ServedOK'
    BY <1>1, <1>4, <1>6 DEF TargetsOK, ServedOK, TypeOK, Row, OrNone
  <1>9. \A q \in Operators \ {p} : BuilderOK(q)'
    <2> SUFFICES ASSUME NEW q \in Operators \ {p}, pc[q] \in Building PROVE BuilderOK(q)'
      BY <1>5 DEF BuilderOK, Others
    <2>1. BuilderOK(q) /\ pc'[q] = pc[q] /\ current'[q] = current[q] /\ current[q] \in Generations
      BY <1>1, <1>5 DEF IInv, Others, TypeOK
    <2> QED BY <1>4, <1>5, <2>1 DEF BuilderOK, Others
  <1>10. BuilderOK(p)'
    BY <1>2, <1>4, <1>5 DEF BuilderOK, Others
  <1>11. HeldOK(p)'
    BY <1>4 DEF HeldOK
  <1> QED BY <1>3, <1>5, <1>6, <1>7, <1>8, <1>9, <1>10, <1>11, StoreStep

LEMMA RecordStep ==
  ASSUME IInv, NEW p \in Operators, RecordGeneration(p)
  PROVE  IInv'
  <1> DEFINE g == current[p]
  <1>1. TypeOK /\ RowsOK /\ TargetsOK /\ ServedOK /\ BuilderOK(p)
    BY DEF IInv
  <1>2. /\ pc[p] = "recording" /\ Finish(p) /\ UNCHANGED << collection, alias, trail >>
        /\ row' = [row EXCEPT ![g] = [status |-> "built", previous |-> NoGeneration]]
        /\ created' = Append(created, g)
    <2>1. [NoRow EXCEPT !.status = "built"] = [status |-> "built", previous |-> NoGeneration]
      BY DEF NoRow
    <2> HIDE DEF g
    <2> QED BY <2>1 DEF RecordGeneration, g
  <1>3. /\ pc' = [pc EXCEPT ![p] = "idle"] /\ UNCHANGED faults
        /\ current' = [current EXCEPT ![p] = NoGeneration]
        /\ previous' = [previous EXCEPT ![p] = NoGeneration]
    BY <1>2 DEF Finish, End, Goto
  <1>4. /\ g \in Generations /\ collection[g] # "absent" /\ row[g].status = "absent"
        /\ \A q \in Operators \ {p} : pc[q] \in Building => current[q] # g
    BY <1>1, <1>2 DEF TypeOK, BuilderOK
  <1> HIDE DEF g
  <1>5. created' \in Seq(Generations) /\ row' \in [Generations -> Row]
    <2>1. [status |-> "built", previous |-> NoGeneration] \in Row
      BY DEF Row, OrNone
    <2> QED BY <1>1, <1>2, <1>4, <2>1 DEF TypeOK
  <1>6. TypeOK'
    BY <1>1, <1>2, <1>3, <1>5 DEF TypeOK, OrNone
  <1>7. /\ pc'[p] = "idle" /\ collection' = collection /\ alias' = alias
        /\ row'[g].status = "built" /\ row'[g].previous = NoGeneration
        /\ \A h \in Generations \ {g} : row'[h] = row[h]
    BY <1>1, <1>2, <1>3, <1>4 DEF TypeOK
  <1>8. Others(p)
    BY <1>1, <1>3 DEF TypeOK, Others
  <1>9. Grows /\ \A h \in Generations : Fit(h) => Fit(h)'
    BY <1>4, <1>7 DEF Grows, Fit
  <1>10. RowsOK'
    BY <1>1, <1>4, <1>7 DEF RowsOK
  <1>11. TargetsOK' /\ ServedOK'
    BY <1>1, <1>7, <1>9 DEF TargetsOK, ServedOK, TypeOK, Row, OrNone
  <1>12. \A q \in Operators \ {p} : BuilderOK(q)'
    <2> SUFFICES ASSUME NEW q \in Operators \ {p}, pc[q] \in Building PROVE BuilderOK(q)'
      BY <1>8 DEF BuilderOK, Others
    <2>1. BuilderOK(q) /\ pc'[q] = pc[q] /\ current'[q] = current[q] /\ current[q] \in Generations
      BY <1>1, <1>8 DEF IInv, Others, TypeOK
    <2> QED BY <1>4, <1>7, <1>8, <2>1 DEF BuilderOK, Others
  <1>13. BuilderOK(p)' /\ HeldOK(p)'
    BY <1>7 DEF BuilderOK, HeldOK
  <1> QED BY <1>6, <1>8, <1>9, <1>10, <1>11, <1>12, <1>13, StoreStep

\* A row that exists, of a whole collection, is marked with a status past built.
LEMMA MarkStep ==
  ASSUME IInv, TypeOK', NEW p \in Operators, NEW g \in Generations,
         UNCHANGED << collection, alias >>, collection[g] = "whole",
         row[g].status # "absent", row'[g].status \in Passed,
         \A h \in Generations \ {g} : row'[h] = row[h],
         row'[g].previous # NoGeneration =>
           Fit(row'[g].previous) /\ AliasOf[row'[g].previous] = AliasOf[g],
         Others(p), pc'[p] \notin Building,
         (\A h \in Generations : Fit(h) => Fit(h)') => HeldOK(p)'
  PROVE  IInv'
  <1>1. TypeOK /\ RowsOK /\ TargetsOK /\ ServedOK
    BY DEF IInv
  <1>2. Grows /\ \A h \in Generations : Fit(h) => Fit(h)'
    BY <1>1 DEF Grows, Fit, TypeOK
  <1>3. RowsOK'
    BY <1>1 DEF RowsOK
  <1>4. ServedOK'
    BY <1>1, <1>2 DEF ServedOK, TypeOK, OrNone
  <1>5. \A h \in Generations : row'[h].previous \in OrNone
    BY DEF TypeOK, Row
  <1>6. TargetsOK'
    BY <1>1, <1>2, <1>5 DEF TargetsOK, OrNone
  <1>7. \A q \in Operators : BuilderOK(q)'
    <2> SUFFICES ASSUME NEW q \in Operators \ {p}, pc[q] \in Building PROVE BuilderOK(q)'
      BY DEF BuilderOK, Others
    <2>1. BuilderOK(q) /\ pc'[q] = pc[q] /\ current'[q] = current[q] /\ current[q] \in Generations
      BY <1>1 DEF IInv, Others, TypeOK
    <2>2. current[q] # g
      BY <2>1 DEF BuilderOK
    <2> QED BY <2>1, <2>2 DEF BuilderOK, Others
  <1> QED BY <1>2, <1>3, <1>4, <1>6, <1>7, StoreStep

\* An alias is switched to a collection that is fit for it.
LEMMA SwitchStep ==
  ASSUME IInv, TypeOK', NEW p \in Operators, NEW g \in Generations, Fit(g),
         UNCHANGED << collection, row >>, alias' = [alias EXCEPT ![AliasOf[g]] = g],
         Others(p), pc'[p] \notin Building, HeldOK(p)'
  PROVE  IInv'
  <1>1. TypeOK /\ RowsOK /\ TargetsOK /\ ServedOK
    BY DEF IInv
  <1>2. Grows /\ RowsOK' /\ TargetsOK'
    BY <1>1 DEF Grows, RowsOK, TargetsOK, Fit
  <1>3. Fit(g)' /\ \A h \in Generations : Fit(h) => Fit(h)'
    BY DEF Fit
  <1>4. alias'[AliasOf[g]] = g /\ \A a \in Aliases \ {AliasOf[g]} : alias'[a] = alias[a]
    BY <1>1 DEF TypeOK
  <1>5. ServedOK'
    BY <1>1, <1>3, <1>4 DEF ServedOK, TypeOK, OrNone
  <1>6. \A q \in Operators : BuilderOK(q)'
    <2> SUFFICES ASSUME NEW q \in Operators \ {p}, pc[q] \in Building PROVE BuilderOK(q)'
      BY DEF BuilderOK, Others
    <2>1. BuilderOK(q) /\ pc'[q] = pc[q] /\ current'[q] = current[q]
      BY DEF IInv, Others
    <2> QED BY <2>1 DEF BuilderOK, Others
  <1> QED BY <1>2, <1>5, <1>6, StoreStep

LEMMA MarkValidationStep ==
  ASSUME IInv, NEW p \in Operators, MarkValidation(p)
  PROVE  IInv'
  <1> DEFINE g == current[p]
  <1>1. TypeOK /\ TargetsOK /\ HeldOK(p)
    BY DEF IInv
  <1>2. /\ pc[p] = "validate_marking" /\ Finish(p) /\ UNCHANGED << collection, created, alias, trail >>
        /\ row' = [row EXCEPT ![g].status = "validated"]
    BY DEF MarkValidation, SetStatus
  <1>3. /\ pc' = [pc EXCEPT ![p] = "idle"] /\ UNCHANGED faults
        /\ current' = [current EXCEPT ![p] = NoGeneration]
        /\ previous' = [previous EXCEPT ![p] = NoGeneration]
    BY <1>2 DEF Finish, End, Goto
  <1>4. g \in Generations /\ collection[g] = "whole" /\ row[g].status # "absent"
    BY <1>1, <1>2 DEF TypeOK, HeldOK
  <1> HIDE DEF g
  <1>5. row' \in [Generations -> Row]
    BY <1>1, <1>2, <1>4 DEF TypeOK, Row
  <1>6. TypeOK'
    BY <1>1, <1>2, <1>3, <1>5 DEF TypeOK, OrNone
  <1>7. /\ row'[g].status = "validated" /\ row'[g].previous = row[g].previous
        /\ \A h \in Generations \ {g} : row'[h] = row[h]
    BY <1>1, <1>2, <1>4 DEF TypeOK, Row
  <1>8. row'[g].previous # NoGeneration =>
          Fit(row'[g].previous) /\ AliasOf[row'[g].previous] = AliasOf[g]
    BY <1>1, <1>4, <1>7 DEF TargetsOK
  <1>9. Others(p) /\ pc'[p] = "idle"
    BY <1>1, <1>3 DEF TypeOK, Others
  <1>10. HeldOK(p)'
    BY <1>9 DEF HeldOK
  <1> QED BY <1>2, <1>4, <1>6, <1>7, <1>8, <1>9, <1>10, MarkStep

LEMMA MarkRolledBackStep ==
  ASSUME IInv, NEW p \in Operators, MarkRolledBack(p)
  PROVE  IInv'
  <1> DEFINE g == current[p]
  <1>1. TypeOK /\ TargetsOK /\ HeldOK(p)
    BY DEF IInv
  <1>2. /\ pc[p] = "rollback_marking" /\ Returns(p, "rollback_auditing")
        /\ UNCHANGED << collection, created, alias, trail >>
        /\ row' = [row EXCEPT ![g].status = "rolled_back"]
    BY DEF MarkRolledBack, SetStatus
  <1>3. g \in Generations /\ Fit(g) /\ previous[p] \in Generations
    BY <1>1, <1>2 DEF TypeOK, HeldOK
  <1>4. /\ LocalTypes' /\ Others(p)
        /\ \/ pc'[p] = "idle"
           \/ pc'[p] = "rollback_auditing" /\ current'[p] = g /\ previous'[p] = previous[p]
    BY <1>1, <1>2, <1>3, ReturnLocals
  <1> HIDE DEF g
  <1>5. row' \in [Generations -> Row]
    BY <1>1, <1>2, <1>3 DEF TypeOK, Row
  <1>6. TypeOK'
    BY <1>1, <1>2, <1>4, <1>5 DEF TypeOK, LocalTypes
  <1>7. /\ row'[g].status = "rolled_back" /\ row'[g].previous = row[g].previous
        /\ \A h \in Generations \ {g} : row'[h] = row[h]
    BY <1>1, <1>2, <1>3 DEF TypeOK, Row
  <1>8. row'[g].previous # NoGeneration =>
          Fit(row'[g].previous) /\ AliasOf[row'[g].previous] = AliasOf[g]
    BY <1>1, <1>3, <1>7 DEF TargetsOK
  <1>9. (\A h \in Generations : Fit(h) => Fit(h)') => HeldOK(p)'
    BY <1>3, <1>4 DEF HeldOK
  <1>10. collection[g] = "whole" /\ row[g].status # "absent"
    BY <1>3 DEF Fit
  <1> QED BY <1>2, <1>3, <1>4, <1>6, <1>7, <1>8, <1>9, <1>10, MarkStep

LEMMA MarkPromotedStep ==
  ASSUME IInv, NEW p \in Operators, MarkPromoted(p)
  PROVE  IInv'
  <1> DEFINE g == current[p]
             t == previous[p]
  <1>1. TypeOK /\ HeldOK(p)
    BY DEF IInv
  <1>2. /\ pc[p] = "promote_marking" /\ Returns(p, "promote_auditing")
        /\ UNCHANGED << collection, created, alias, trail >>
        /\ row' = [row EXCEPT ![g] = [status |-> "promoted", previous |-> t]]
    BY DEF MarkPromoted
  <1>3. /\ g \in Generations /\ Fit(g) /\ t \in OrNone
        /\ t # NoGeneration => Fit(t) /\ AliasOf[t] = AliasOf[g]
    BY <1>1, <1>2 DEF TypeOK, HeldOK
  <1>4. /\ LocalTypes' /\ Others(p)
        /\ \/ pc'[p] = "idle"
           \/ pc'[p] = "promote_auditing" /\ current'[p] = g /\ previous'[p] = t
    BY <1>1, <1>2, ReturnLocals
  <1> HIDE DEF g, t
  <1>5. row' \in [Generations -> Row]
    BY <1>1, <1>2, <1>3 DEF TypeOK, Row
  <1>6. TypeOK'
    BY <1>1, <1>2, <1>4, <1>5 DEF TypeOK, LocalTypes
  <1>7. /\ row'[g].status = "promoted" /\ row'[g].previous = t
        /\ \A h \in Generations \ {g} : row'[h] = row[h]
    BY <1>1, <1>2, <1>3 DEF TypeOK
  <1>8. (\A h \in Generations : Fit(h) => Fit(h)') => HeldOK(p)'
    BY <1>3, <1>4 DEF HeldOK
  <1>9. collection[g] = "whole" /\ row[g].status # "absent"
    BY <1>3 DEF Fit
  <1> QED BY <1>2, <1>3, <1>4, <1>6, <1>7, <1>8, <1>9, MarkStep

LEMMA SwitchToPromotedStep ==
  ASSUME IInv, NEW p \in Operators, SwitchToPromoted(p)
  PROVE  IInv'
  <1> DEFINE g == current[p]
  <1>1. TypeOK /\ HeldOK(p)
    BY DEF IInv
  <1>2. /\ pc[p] = "promote_switching" /\ Returns(p, "promote_marking")
        /\ UNCHANGED << collection, row, created, trail >>
        /\ alias' = [alias EXCEPT ![AliasOf[g]] = g]
    BY DEF SwitchToPromoted, Own
  <1>3. g \in Generations /\ Fit(g) /\ AliasOf[g] \in Aliases
    BY <1>1, <1>2 DEF TypeOK, HeldOK
  <1>4. /\ LocalTypes' /\ Others(p)
        /\ \/ pc'[p] = "idle"
           \/ pc'[p] = "promote_marking" /\ current'[p] = g /\ previous'[p] = previous[p]
    BY <1>1, <1>2, ReturnLocals
  <1>5. previous[p] # NoGeneration => Fit(previous[p]) /\ AliasOf[previous[p]] = AliasOf[g]
    BY <1>1, <1>2 DEF HeldOK
  <1> HIDE DEF g
  <1>6. alias' \in [Aliases -> OrNone]
    BY <1>1, <1>2, <1>3 DEF TypeOK, OrNone
  <1>7. TypeOK'
    BY <1>1, <1>2, <1>4, <1>6 DEF TypeOK, LocalTypes
  <1>8. \A h : Fit(h)' = Fit(h)
    BY <1>2 DEF Fit
  <1>9. HeldOK(p)' /\ pc'[p] \notin Building
    BY <1>3, <1>4, <1>5, <1>8 DEF HeldOK
  <1> QED BY <1>2, <1>3, <1>4, <1>7, <1>9, SwitchStep

LEMMA SwitchBackStep ==
  ASSUME IInv, NEW p \in Operators, SwitchBack(p)
  PROVE  IInv'
  <1> DEFINE t == previous[p]
  <1>1. TypeOK /\ HeldOK(p)
    BY DEF IInv
  <1>2. /\ pc[p] = "rollback_switching" /\ Returns(p, "rollback_marking")
        /\ UNCHANGED << collection, row, created, trail >>
        /\ alias' = [alias EXCEPT ![AliasOf[current[p]]] = t]
    BY DEF SwitchBack, Own
  <1>3. /\ t \in Generations /\ Fit(t) /\ AliasOf[t] = AliasOf[current[p]]
        /\ AliasOf[t] \in Aliases /\ Fit(current[p])
    BY <1>1, <1>2 DEF TypeOK, HeldOK
  <1>4. /\ LocalTypes' /\ Others(p)
        /\ \/ pc'[p] = "idle"
           \/ pc'[p] = "rollback_marking" /\ current'[p] = current[p] /\ previous'[p] = t
    BY <1>1, <1>2, <1>3, ReturnLocals
  <1> HIDE DEF t
  <1>5. alias' = [alias EXCEPT ![AliasOf[t]] = t]
    BY <1>2, <1>3
  <1>6. alias' \in [Aliases -> OrNone]
    BY <1>1, <1>3, <1>5 DEF TypeOK, OrNone
  <1>7. TypeOK'
    BY <1>1, <1>2, <1>4, <1>6 DEF TypeOK, LocalTypes
  <1>8. \A h : Fit(h)' = Fit(h)
    BY <1>2 DEF Fit
  <1>9. HeldOK(p)' /\ pc'[p] \notin Building
    BY <1>3, <1>4, <1>8 DEF HeldOK
  <1> QED BY <1>2, <1>3, <1>4, <1>5, <1>7, <1>9, SwitchStep

-----------------------------------------------------------------------------
(* The theorems                                                            *)

LEMMA InductiveStep == IInv /\ [Next]_vars => IInv'
  <1> SUFFICES ASSUME IInv, [Next]_vars PROVE IInv'
    OBVIOUS
  <1>1. CASE UNCHANGED vars
    BY <1>1 DEF vars, IInv, TypeOK, RowsOK, BuilderOK, HeldOK, TargetsOK, ServedOK, Fit
  <1>2. ASSUME NEW p \in Operators, Build(p) PROVE IInv'
    BY <1>2, CreateStep, UpsertStep, RecordStep DEF Build
  <1>3. ASSUME NEW p \in Operators, Validate(p) PROVE IInv'
    BY <1>3, LoadStep, CheckStep, MarkValidationStep DEF Validate
  <1>4. ASSUME NEW p \in Operators, Promote(p) PROVE IInv'
    BY <1>4, LoadStep, ReadStep, SwitchToPromotedStep, MarkPromotedStep, AuditStep DEF Promote
  <1>5. ASSUME NEW p \in Operators, Rollback(p) PROVE IInv'
    BY <1>5, LoadStep, ReadStep, SwitchBackStep, MarkRolledBackStep, AuditStep DEF Rollback
  <1>6. ASSUME NEW p \in Operators, CallRaises(p) PROVE IInv'
    BY <1>6, AuditStep
  <1> QED BY <1>1, <1>2, <1>3, <1>4, <1>5, <1>6 DEF Next

\* The inductive invariant holds in every state of every behaviour.
THEOREM Invariance == Spec => []IInv
  BY InitInv, InductiveStep, PTL DEF Spec

\* Every variable keeps its type: an operation always works on a collection,
\* and a rollback that switches always has a target.
THEOREM TypeCorrect == Spec => []TypeOK
  <1>1. IInv => TypeOK
    BY DEF IInv
  <1> QED BY <1>1, Invariance, PTL

\* promote_alias and rollback_alias: an alias serves only whole collections of
\* its own version that passed validation, for any number of racing callers.
THEOREM ServedGenerationsAreWhole == Spec => []ServesWholeGeneration
  <1>1. IInv => ServesWholeGeneration
    BY DEF IInv, ServedOK, ServesWholeGeneration, Fit
  <1> QED BY <1>1, Invariance, PTL

\* _mark_promoted: the rollback target stored with a generation is whole and
\* of the same alias, for any number of racing callers.
THEOREM RollbackTargetsAreFit == Spec => []RollbackTargetFits
  <1>1. IInv => RollbackTargetFits
    BY DEF IInv, TargetsOK, RollbackTargetFits, Fit
  <1> QED BY <1>1, Invariance, PTL

-----------------------------------------------------------------------------
(* The blue/green contract                                                 *)

Wholes == {g \in Generations : collection[g] = "whole"}
Approved == {g \in Generations : row[g].status \in {"validated", "promoted", "rolled_back"}}

LEMMA ContractQuiet ==
  ASSUME Wholes' = Wholes, Approved' = Approved, alias' = alias
  PROVE  [Contract!Next]_(Contract!vars)
  BY DEF Wholes, Approved, Contract!vars

LEMMA ContractGrow ==
  ASSUME NEW g \in Generations, Wholes' = Wholes \cup {g}, UNCHANGED << row, alias >>
  PROVE  [Contract!Next]_(Contract!vars)
  <1>1. Contract!Build(g)
    BY DEF Contract!Build, Wholes
  <1> QED BY <1>1 DEF Contract!Next

LEMMA ContractApprove ==
  ASSUME TypeOK, NEW g \in Generations, collection[g] = "whole",
         row' \in [Generations -> Row], row'[g].status \in Passed,
         \A h \in Generations \ {g} : row'[h] = row[h], UNCHANGED << collection, alias >>
  PROVE  [Contract!Next]_(Contract!vars)
  <1>1. Approved' = Approved \cup {g} /\ g \in Wholes /\ Wholes' = Wholes
    BY DEF Approved, Wholes
  <1>2. Contract!Approve(g)
    BY <1>1 DEF Contract!Approve, Approved, Wholes
  <1> QED BY <1>2 DEF Contract!Next

LEMMA ContractServe ==
  ASSUME NEW g \in Generations, Fit(g), UNCHANGED << collection, row >>,
         alias' = [alias EXCEPT ![AliasOf[g]] = g]
  PROVE  [Contract!Next]_(Contract!vars)
  <1>1. Contract!Serve(g)
    BY DEF Contract!Serve, Fit
  <1> QED BY <1>1 DEF Contract!Next

LEMMA ContractBuild ==
  ASSUME IInv, NEW p \in Operators, Build(p)
  PROVE  [Contract!Next]_(Contract!vars)
  <1>1. TypeOK /\ BuilderOK(p)
    BY DEF IInv
  <1>2. CASE CreateCollection(p)
    <2>1. PICK g \in Generations :
            collection[g] = "absent" /\ collection' = [collection EXCEPT ![g] = "filling"]
      BY <1>2 DEF CreateCollection
    <2>2. Wholes' = Wholes
      BY <1>1, <2>1 DEF Wholes, TypeOK
    <2>3. Approved' = Approved /\ alias' = alias
      BY <1>2 DEF CreateCollection, Approved
    <2> QED BY <2>2, <2>3, ContractQuiet
  <1>3. CASE UpsertPoints(p)
    <2> DEFINE g == current[p]
    <2>1. PICK size \in {"short", "whole"} : collection' = [collection EXCEPT ![g] = size]
      BY <1>3 DEF UpsertPoints
    <2>2. g \in Generations /\ collection[g] = "filling" /\ UNCHANGED << row, alias >>
      BY <1>1, <1>3 DEF UpsertPoints, TypeOK, BuilderOK
    <2> HIDE DEF g
    <2>3. CASE size = "short"
      <3>1. Wholes' = Wholes /\ Approved' = Approved
        BY <1>1, <2>1, <2>2, <2>3 DEF Wholes, Approved, TypeOK
      <3> QED BY <2>2, <3>1, ContractQuiet
    <2>4. CASE size = "whole"
      <3>1. Wholes' = Wholes \cup {g}
        BY <1>1, <2>1, <2>2, <2>4 DEF Wholes, TypeOK
      <3> QED BY <2>2, <3>1, ContractGrow
    <2> QED BY <2>3, <2>4
  <1>4. CASE RecordGeneration(p)
    <2> DEFINE g == current[p]
    <2>1. /\ g \in Generations /\ row[g].status = "absent" /\ UNCHANGED << collection, alias >>
          /\ row' = [row EXCEPT ![g] = [NoRow EXCEPT !.status = "built"]]
      BY <1>1, <1>4 DEF RecordGeneration, TypeOK, BuilderOK
    <2> HIDE DEF g
    <2>2. row'[g].status = "built" /\ \A h \in Generations \ {g} : row'[h] = row[h]
      <3>1. [NoRow EXCEPT !.status = "built"].status = "built"
        BY DEF NoRow
      <3> QED BY <1>1, <2>1, <3>1 DEF TypeOK
    <2>3. Wholes' = Wholes /\ Approved' = Approved
      BY <2>1, <2>2 DEF Wholes, Approved
    <2> QED BY <2>1, <2>3, ContractQuiet
  <1> QED BY <1>2, <1>3, <1>4 DEF Build

LEMMA ContractMark ==
  ASSUME IInv, TypeOK', NEW p \in Operators,
         MarkValidation(p) \/ MarkPromoted(p) \/ MarkRolledBack(p)
  PROVE  [Contract!Next]_(Contract!vars)
  <1> DEFINE g == current[p]
  <1>1. TypeOK /\ HeldOK(p)
    BY DEF IInv
  <1>2. pc[p] \in {"validate_marking", "promote_marking", "rollback_marking"}
    BY DEF MarkValidation, MarkPromoted, MarkRolledBack
  <1>3. g \in Generations /\ collection[g] = "whole"
    BY <1>1, <1>2 DEF TypeOK, HeldOK, Fit
  <1>4. /\ UNCHANGED << collection, alias >>
        /\ \/ row' = [row EXCEPT ![g].status = "validated"]
           \/ row' = [row EXCEPT ![g].status = "rolled_back"]
           \/ row' = [row EXCEPT ![g] = [status |-> "promoted", previous |-> previous[p]]]
    BY DEF MarkValidation, MarkPromoted, MarkRolledBack, SetStatus
  <1> HIDE DEF g
  <1>5. row'[g].status \in Passed /\ \A h \in Generations \ {g} : row'[h] = row[h]
    BY <1>1, <1>3, <1>4 DEF TypeOK, Row
  <1>6. row' \in [Generations -> Row]
    BY DEF TypeOK
  <1> QED BY <1>1, <1>3, <1>4, <1>5, <1>6, ContractApprove

LEMMA ContractSwitch ==
  ASSUME IInv, NEW p \in Operators, SwitchToPromoted(p) \/ SwitchBack(p)
  PROVE  [Contract!Next]_(Contract!vars)
  <1>1. TypeOK /\ HeldOK(p)
    BY DEF IInv
  <1>2. CASE SwitchToPromoted(p)
    <2>1. /\ current[p] \in Generations /\ Fit(current[p])
          /\ alias' = [alias EXCEPT ![AliasOf[current[p]]] = current[p]]
          /\ UNCHANGED << collection, row >>
      BY <1>1, <1>2 DEF SwitchToPromoted, TypeOK, HeldOK, Own
    <2> QED BY <2>1, ContractServe
  <1>3. CASE SwitchBack(p)
    <2>1. /\ previous[p] \in Generations /\ Fit(previous[p])
          /\ AliasOf[previous[p]] = AliasOf[current[p]]
      BY <1>1, <1>3 DEF SwitchBack, TypeOK, HeldOK
    <2>2. /\ alias' = [alias EXCEPT ![AliasOf[current[p]]] = previous[p]]
          /\ UNCHANGED << collection, row >>
      BY <1>3 DEF SwitchBack, Own
    <2> QED BY <2>1, <2>2, ContractServe
  <1> QED BY <1>2, <1>3

LEMMA ContractStep == IInv /\ TypeOK' /\ [Next]_vars => [Contract!Next]_(Contract!vars)
  <1> SUFFICES ASSUME IInv, TypeOK', [Next]_vars PROVE [Contract!Next]_(Contract!vars)
    OBVIOUS
  <1>1. CASE UNCHANGED << collection, row, alias >>
    BY <1>1, ContractQuiet DEF Wholes, Approved
  <1>2. ASSUME NEW p \in Operators, Build(p) PROVE [Contract!Next]_(Contract!vars)
    BY <1>2, ContractBuild
  <1>3. ASSUME NEW p \in Operators, Validate(p) PROVE [Contract!Next]_(Contract!vars)
    BY <1>1, <1>3, ContractMark DEF Validate, LoadBuilt, Check, stores
  <1>4. ASSUME NEW p \in Operators, Promote(p) PROVE [Contract!Next]_(Contract!vars)
    BY <1>1, <1>4, ContractMark, ContractSwitch
       DEF Promote, LoadValidated, ResolvePrevious, AuditPromotion, stores
  <1>5. ASSUME NEW p \in Operators, Rollback(p) PROVE [Contract!Next]_(Contract!vars)
    BY <1>1, <1>5, ContractMark, ContractSwitch
       DEF Rollback, LoadPromoted, ResolveCurrent, ReadTarget, AuditRollback, stores
  <1>6. ASSUME NEW p \in Operators, CallRaises(p) PROVE [Contract!Next]_(Contract!vars)
    BY <1>1, <1>6 DEF CallRaises, stores
  <1> QED BY <1>1, <1>2, <1>3, <1>4, <1>5, <1>6 DEF Next, vars

\* Racing builds, validations, promotions and rollbacks with their faults
\* implement the contract that an alias moves only to an approved collection.
THEOREM ImplementsContract == Spec => KeepsContract
  <1>1. Init => Contract!Init
    BY DEF Init, Contract!Init, NoRow
  <1>2. IInv => TypeOK
    BY DEF IInv
  <1> QED BY <1>1, <1>2, ContractStep, Invariance, PTL DEF Spec, KeepsContract, Contract!Spec

-----------------------------------------------------------------------------
(* Callers that take turns                                                 *)

Handling == Calls \ Building

\* INDEX_LIFECYCLE.md: "Promote only one generation per alias at a time".  No
\* two callers validate, promote or roll back generations of one alias at a
\* time, and nothing has failed.  Builds are free, and so are other aliases.
TakeTurns ==
  /\ faults = 0
  /\ \A p, q \in Operators :
       pc[p] \in Handling /\ pc[q] \in Handling /\ Own(p) = Own(q) => p = q

Previous == [g \in Generations |-> row[g].previous]

\* A stack of generations: all but the top are the rollback target of exactly
\* one other, the top is the target of none, and following targets ends.
Stacked(S, prev, top) ==
  /\ top \in S \/ (top = NoGeneration /\ S = {})
  /\ \A g \in S \ {top} : \E h \in S : \A k \in S : prev[k] = g <=> k = h
  /\ \A h \in S : prev[h] \in (S \cup {NoGeneration}) \ {top}
  /\ \A T \in SUBSET S : T # {} => \E h \in T : prev[h] \notin T

\* Between the switch of its alias and the update of its row, a promotion has
\* not yet pushed its generation and a rollback has not yet popped it.
TopOf(p, a) ==
  IF pc[p] = "promote_marking" /\ a = Own(p) THEN previous[p]
  ELSE IF pc[p] = "rollback_marking" /\ a = Own(p) THEN current[p]
  ELSE alias[a]

\* What the caller has read is still so.
HoldsTrue(p) ==
  /\ pc[p] \in Validating => row[current[p]].status = "built"
  /\ pc[p] \in {"promote_resolving", "promote_switching", "promote_marking"} =>
       row[current[p]].status = "validated"
  /\ pc[p] = "promote_switching" => previous[p] = alias[Own(p)]
  /\ pc[p] \in {"promote_marking", "promote_auditing", "rollback_reading", "rollback_switching"} =>
       alias[Own(p)] = current[p]
  /\ pc[p] \in {"rollback_switching", "rollback_marking"} =>
       previous[p] = row[current[p]].previous
  /\ pc[p] \in {"rollback_marking", "rollback_auditing"} => alias[Own(p)] = previous[p]

\* The stack of an alias, and the audit trail, which lags behind only while the
\* caller moves the alias.
Turn(p, a) ==
  /\ \/ trail[a] = alias[a]
     \/ /\ pc[p] \in {"promote_marking", "promote_auditing", "rollback_marking", "rollback_auditing"}
        /\ a = Own(p)
  /\ Stacked(Promoted(a), Previous, TopOf(p, a))

\* Nobody else is at the alias.
Free(p, a) == \A q \in Operators \ {p} : pc[q] \in Handling => Own(q) # a

SerialInv ==
  \A p \in Operators : HoldsTrue(p) /\ \A a \in Aliases : Free(p, a) => Turn(p, a)

LEMMA StackSame ==
  ASSUME NEW S, NEW prev, NEW top, NEW next, Stacked(S, prev, top),
         \A h \in S : next[h] = prev[h]
  PROVE  Stacked(S, next, top)
  <1>1. \A T \in SUBSET S : T # {} => \E h \in T : next[h] \notin T
    BY DEF Stacked
  <1>2. \A g \in S \ {top} : \E h \in S : \A k \in S : next[k] = g <=> k = h
    <2> TAKE g \in S \ {top}
    <2>1. PICK h \in S : \A k \in S : prev[k] = g <=> k = h
      BY DEF Stacked
    <2> WITNESS h \in S
    <2> QED BY <2>1
  <1> QED BY <1>1, <1>2 DEF Stacked

\* A promotion pushes its generation on the generation it replaces.
LEMMA StackPush ==
  ASSUME NEW S, NEW prev, NEW top, NEW next, NEW g, Stacked(S, prev, top),
         NoGeneration \notin S, g \notin S, g # NoGeneration, next[g] = top,
         \A h \in S : next[h] = prev[h]
  PROVE  Stacked(S \cup {g}, next, g)
  <1>1. /\ \A h \in S : next[h] \in (S \cup {NoGeneration}) \ {top}
        /\ \A T \in SUBSET S : T # {} => \E h \in T : next[h] \notin T
        /\ top \in S \/ (top = NoGeneration /\ S = {})
    BY StackSame DEF Stacked
  <1>2. ASSUME NEW x \in S PROVE \E h \in S \cup {g} : \A k \in S \cup {g} : next[k] = x <=> k = h
    <2>1. CASE x = top
      <3> WITNESS g \in S \cup {g}
      <3> QED BY <1>1, <2>1
    <2>2. CASE x # top
      <3>1. PICK h \in S : \A k \in S : prev[k] = x <=> k = h
        BY <2>2 DEF Stacked
      <3> WITNESS h \in S \cup {g}
      <3> QED BY <2>2, <3>1
    <2> QED BY <2>1, <2>2
  <1>3. ASSUME NEW T \in SUBSET (S \cup {g}), T # {} PROVE \E h \in T : next[h] \notin T
    <2>1. CASE T \cap S = {}
      <3>1. T = {g} /\ next[g] \notin T
        BY <1>1, <1>3, <2>1
      <3> QED BY <3>1
    <2>2. CASE T \cap S # {}
      <3>1. PICK h \in T \cap S : next[h] \notin T \cap S
        BY <1>1, <2>2
      <3>2. next[h] # g
        BY <1>1, <3>1
      <3>3. next[h] \notin T
        BY <1>1, <3>1, <3>2
      <3> QED BY <3>1, <3>3
    <2> QED BY <2>1, <2>2
  <1>4. \A h \in S \cup {g} : next[h] \in (S \cup {g, NoGeneration}) \ {g}
    BY <1>1
  <1> QED BY <1>2, <1>3, <1>4 DEF Stacked

\* A rollback pops the top and makes its target the top.
LEMMA StackPop ==
  ASSUME NEW S, NEW prev, NEW top, NEW next, Stacked(S, prev, top),
         NoGeneration \notin S, top \in S, prev[top] # NoGeneration,
         \A h \in S : next[h] = prev[h]
  PROVE  Stacked(S \ {top}, next, next[top])
  <1> DEFINE t == prev[top]
  <1>1. t \in S \ {top} /\ next[top] = t
    BY DEF Stacked
  <1> HIDE DEF t
  <1>2. ASSUME NEW x \in (S \ {top}) \ {t}
        PROVE  \E h \in S \ {top} : \A k \in S \ {top} : next[k] = x <=> k = h
    <2>1. PICK h \in S : \A k \in S : prev[k] = x <=> k = h
      BY DEF Stacked
    <2>2. h \in S \ {top}
      BY <1>1, <2>1
    <2>3. \A k \in S \ {top} : next[k] = x <=> k = h
      BY <2>1
    <2> QED BY <2>2, <2>3
  <1>3. \A h \in S \ {top} : next[h] \in (S \cup {NoGeneration}) \ {top}
    BY DEF Stacked
  <1>4. \A h \in S \ {top} : next[h] # t
    <2>1. PICK h \in S : \A k \in S : prev[k] = t <=> k = h
      BY <1>1 DEF Stacked
    <2> QED BY <1>1, <2>1
  <1>5. \A T \in SUBSET (S \ {top}) : T # {} => \E h \in T : next[h] \notin T
    <2> SUFFICES ASSUME NEW T \in SUBSET (S \ {top}), T # {} PROVE \E h \in T : next[h] \notin T
      OBVIOUS
    <2>1. PICK h \in T : prev[h] \notin T
      BY DEF Stacked
    <2> QED BY <2>1
  <1> QED BY <1>1, <1>2, <1>3, <1>4, <1>5 DEF Stacked

LEMMA InitSerial == Init => SerialInv
  <1> SUFFICES ASSUME Init PROVE SerialInv
    OBVIOUS
  <1>1. \A a : Promoted(a) = {}
    BY DEF Init, Promoted, NoRow
  <1>2. \A a \in Aliases, p \in Operators : TopOf(p, a) = NoGeneration
    BY DEF Init, TopOf
  <1>3. Stacked({}, Previous, NoGeneration)
    BY DEF Stacked
  <1> QED BY <1>1, <1>2, <1>3 DEF Init, SerialInv, HoldsTrue, Turn

\* What a step of p does not touch: the other callers, and every alias but a
\* with its generations.
OthersWait(p) ==
  \A q \in Operators \ {p} :
    pc'[q] = pc[q] /\ current'[q] = current[q] /\ previous'[q] = previous[q]

KeepsOut(a) ==
  /\ \A b \in Aliases \ {a} : alias'[b] = alias[b] /\ trail'[b] = trail[b]
  /\ \A g \in Generations : AliasOf[g] # a => row'[g] = row[g]

\* A step of p at alias a, on which it begins, continues or ends its operation.
AtAlias(p, a) ==
  /\ pc[p] \in Handling \/ pc'[p] \in Handling
  /\ pc[p] \in Handling => Own(p) = a
  /\ pc'[p] \in Handling => Own(p)' = a
  /\ KeepsOut(a)
  /\ HoldsTrue(p)'
  /\ Turn(p, a) => Turn(p, a)'

\* The stack and the trail of another alias stay as they are.
LEMMA TurnElsewhere ==
  ASSUME NEW r \in Operators, NEW a \in Aliases, NEW b \in Aliases \ {a}, KeepsOut(a),
         Turn(r, b), TopOf(r, b)' = TopOf(r, b), pc'[r] = pc[r], Own(r)' = Own(r)
  PROVE  Turn(r, b)'
  <1>1. Promoted(b)' = Promoted(b) /\ \A h \in Promoted(b) : Previous'[h] = Previous[h]
    BY DEF KeepsOut, Promoted, Previous
  <1>2. Stacked(Promoted(b), Previous, TopOf(r, b))
    BY DEF Turn
  <1>3. Stacked(Promoted(b), Previous', TopOf(r, b))
    BY <1>1, <1>2, StackSame
  <1>4. /\ trail'[b] = trail[b] /\ alias'[b] = alias[b]
        /\ trail[b] = alias[b] \/ (pc[r] \in {"promote_marking", "promote_auditing",
             "rollback_marking", "rollback_auditing"} /\ b = Own(r))
    BY DEF KeepsOut, Turn
  <1> QED BY <1>1, <1>3, <1>4 DEF Turn

\* What another caller holds is of another alias, so it stays true.
LEMMA HoldsElsewhere ==
  ASSUME TypeOK, NEW p \in Operators, NEW a \in Aliases, KeepsOut(a), OthersWait(p),
         NEW q \in Operators \ {p}, HoldsTrue(q), pc[q] \in Handling => Own(q) # a
  PROVE  HoldsTrue(q)'
  <1>1. pc'[q] = pc[q] /\ current'[q] = current[q] /\ previous'[q] = previous[q]
    BY DEF OthersWait
  <1>2. CASE pc[q] \notin Handling
    BY <1>1, <1>2 DEF HoldsTrue, Handling
  <1>3. CASE pc[q] \in Handling
    <2>1. /\ current[q] \in Generations /\ Own(q) \in Aliases /\ Own(q) # a
          /\ Own(q)' = Own(q)
      BY <1>1, <1>3 DEF TypeOK, Own, Handling
    <2>2. row'[current[q]] = row[current[q]] /\ alias'[Own(q)] = alias[Own(q)]
      BY <2>1 DEF KeepsOut, Own
    <2> QED BY <1>1, <2>1, <2>2 DEF HoldsTrue
  <1> QED BY <1>2, <1>3

\* A step at an alias, of the one caller that is there, keeps the invariant.
LEMMA SerialStep ==
  ASSUME TypeOK, TypeOK', SerialInv, TakeTurns, TakeTurns',
         NEW p \in Operators, NEW a \in Aliases, AtAlias(p, a), OthersWait(p)
  PROVE  SerialInv'
  <1>1. ASSUME NEW q \in Operators \ {p}, pc[q] \in Handling PROVE Own(q) # a
    <2>1. pc'[q] = pc[q] /\ Own(q)' = Own(q)
      BY DEF OthersWait, Own
    <2> QED BY <1>1, <2>1 DEF AtAlias, TakeTurns
  <1>2. Turn(p, a)'
    BY <1>1 DEF SerialInv, Free, AtAlias
  <1>3. ASSUME NEW q \in Operators PROVE HoldsTrue(q)'
    BY <1>1, HoldsElsewhere DEF SerialInv, AtAlias
  <1>4. ASSUME NEW r \in Operators, NEW b \in Aliases, Free(r, b)'
        PROVE  Turn(r, b)'
    <2>1. CASE r = p /\ b = a
      BY <1>2, <2>1
    <2>2. CASE r # p /\ b = a
      <3>1. pc'[p] \notin Handling /\ pc'[r] = pc[r] /\ current'[r] = current[r]
        BY <1>4, <2>2 DEF Free, AtAlias, OthersWait
      <3>2. pc'[r] \in Handling => Own(r)' # a
        BY <1>1, <2>2, <3>1 DEF Own
      <3>3. TopOf(p, a)' = alias'[a] /\ TopOf(r, a)' = alias'[a]
        BY <3>1, <3>2 DEF TopOf, Handling
      <3> QED BY <1>2, <2>2, <3>1, <3>3 DEF Turn, Handling
    <2>3. CASE b # a
      <3>1. Free(r, b)
        <4> SUFFICES ASSUME NEW q \in Operators \ {r}, pc[q] \in Handling PROVE Own(q) # b
          BY DEF Free
        <4>1. CASE q = p
          BY <2>3, <4>1 DEF AtAlias
        <4>2. CASE q # p
          BY <1>4, <4>2 DEF Free, OthersWait, Own
        <4> QED BY <4>1, <4>2
      <3>2. Turn(r, b)
        BY <3>1 DEF SerialInv
      <3>3. CASE r = p
        <4>1. /\ TopOf(r, b) = alias[b] /\ TopOf(r, b)' = alias'[b]
              /\ ~(pc[r] \in Handling /\ Own(r) = b) /\ ~(pc'[r] \in Handling /\ Own(r)' = b)
          BY <2>3, <3>3 DEF AtAlias, TopOf, Handling
        <4>2. alias'[b] = alias[b] /\ trail'[b] = trail[b]
          BY <2>3 DEF AtAlias, KeepsOut
        <4>3. Stacked(Promoted(b), Previous, alias[b]) /\ trail[b] = alias[b]
          BY <3>2, <4>1 DEF Turn, Handling
        <4>4. Promoted(b)' = Promoted(b) /\ \A h \in Promoted(b) : Previous'[h] = Previous[h]
          BY <2>3 DEF AtAlias, KeepsOut, Promoted, Previous
        <4>5. Stacked(Promoted(b), Previous', alias[b])
          BY <4>3, <4>4, StackSame
        <4> QED BY <4>1, <4>2, <4>3, <4>4, <4>5 DEF Turn
      <3>4. CASE r # p
        <4>1. pc'[r] = pc[r] /\ current'[r] = current[r] /\ previous'[r] = previous[r]
          BY <3>4 DEF OthersWait
        <4>2. TopOf(r, b)' = TopOf(r, b) /\ Own(r)' = Own(r)
          BY <2>3, <4>1 DEF TopOf, Own, AtAlias, KeepsOut
        <4>3. KeepsOut(a)
          BY DEF AtAlias
        <4> QED BY <2>3, <3>2, <4>1, <4>2, <4>3, TurnElsewhere
      <3> QED BY <3>3, <3>4
    <2> QED BY <2>1, <2>2, <2>3
  <1> QED BY <1>3, <1>4 DEF SerialInv

\* A build is at no alias: its generation has no row before, and a built one
\* after, so it is neither promoted nor what anybody else has read.
LEMMA SerialBuild ==
  ASSUME IInv, SerialInv, NEW p \in Operators, Build(p), OthersWait(p)
  PROVE  SerialInv'
  <1>1. TypeOK /\ \A q \in Operators : BuilderOK(q) /\ HeldOK(q)
    BY DEF IInv
  <1>2. /\ UNCHANGED << alias, trail >>
        /\ pc[p] \notin Handling /\ pc'[p] \notin Handling
        /\ \/ UNCHANGED row
           \/ /\ pc[p] = "recording"
              /\ row' = [row EXCEPT ![current[p]] = [NoRow EXCEPT !.status = "built"]]
    BY <1>1 DEF Build, CreateCollection, UpsertPoints, RecordGeneration, Choose, Proceed,
       Finish, End, Goto, TypeOK, Handling
  <1>3. \A g \in Generations :
          row'[g] # row[g] => row[g].status = "absent" /\ row'[g].status = "built"
    <2>1. CASE UNCHANGED row
      BY <2>1
    <2>2. CASE /\ pc[p] = "recording"
               /\ row' = [row EXCEPT ![current[p]] = [NoRow EXCEPT !.status = "built"]]
      <3>1. current[p] \in Generations /\ row[current[p]].status = "absent"
        BY <1>1, <2>2 DEF BuilderOK, TypeOK
      <3>2. [NoRow EXCEPT !.status = "built"].status = "built"
        BY DEF NoRow
      <3> QED BY <1>1, <2>2, <3>1, <3>2 DEF TypeOK
    <2> QED BY <1>2, <2>1, <2>2
  <1>4. ASSUME NEW q \in Operators PROVE HoldsTrue(q)'
    <2>1. CASE q = p \/ pc[q] \notin Handling
      BY <1>2, <2>1 DEF OthersWait, HoldsTrue, Handling
    <2>2. CASE q # p /\ pc[q] \in Handling
      <3>1. /\ pc'[q] = pc[q] /\ current'[q] = current[q] /\ previous'[q] = previous[q]
            /\ current[q] \in Generations /\ Own(q)' = Own(q)
        BY <1>1, <2>2 DEF OthersWait, TypeOK, Own, Handling
      <3>2. row[current[q]].status # "absent"
        BY <1>1, <2>2 DEF HeldOK, Fit, Handling
      <3>3. row'[current[q]] = row[current[q]]
        BY <1>3, <3>1, <3>2
      <3>4. HoldsTrue(q)
        BY DEF SerialInv
      <3> QED BY <1>2, <3>1, <3>3, <3>4 DEF HoldsTrue
    <2> QED BY <2>1, <2>2
  <1>5. ASSUME NEW r \in Operators, NEW b \in Aliases, Free(r, b)'
        PROVE  Turn(r, b)'
    <2>1. Turn(r, b)
      BY <1>2, <1>5 DEF Free, OthersWait, Own, SerialInv
    <2>2. Promoted(b)' = Promoted(b) /\ \A h \in Promoted(b) : Previous'[h] = Previous[h]
      BY <1>3 DEF Promoted, Previous
    <2>3. /\ TopOf(r, b)' = TopOf(r, b)
          /\ pc[r] \in Handling => pc'[r] = pc[r] /\ Own(r)' = Own(r)
      BY <1>2 DEF TopOf, Own, OthersWait, Handling
    <2>4. Stacked(Promoted(b), Previous', TopOf(r, b))
      BY <2>1, <2>2, StackSame DEF Turn
    <2> QED BY <1>2, <2>1, <2>2, <2>3, <2>4 DEF Turn, Handling
  <1> QED BY <1>4, <1>5 DEF SerialInv

\* A step after which the same generations are promoted, over the same targets.
LEMMA StackStays ==
  ASSUME NEW p \in Operators, NEW a \in Aliases, Turn(p, a), TopOf(p, a)' = TopOf(p, a),
         \A g \in Generations :
           /\ row'[g].status = "promoted" <=> row[g].status = "promoted"
           /\ row[g].status = "promoted" => row'[g].previous = row[g].previous
  PROVE  Stacked(Promoted(a)', Previous', TopOf(p, a)')
  <1>1. Promoted(a)' = Promoted(a)
    BY DEF Promoted
  <1>2. \A h \in Promoted(a) : Previous'[h] = Previous[h]
    BY DEF Promoted, Previous
  <1>3. Stacked(Promoted(a), Previous', TopOf(p, a))
    BY <1>2, StackSame DEF Turn
  <1> QED BY <1>1, <1>3

Moving == {"promote_marking", "promote_auditing", "rollback_marking", "rollback_auditing"}

\* A step while p is not moving an alias, that promotes and demotes nothing.
LEMMA StillStep ==
  ASSUME NEW p \in Operators, NEW a \in Aliases, pc[p] \notin Moving, pc'[p] \notin Moving,
         pc[p] \in Handling \/ pc'[p] \in Handling,
         pc[p] \in Handling => Own(p) = a, pc'[p] \in Handling => Own(p)' = a,
         UNCHANGED << alias, trail >>,
         \A g \in Generations : AliasOf[g] # a => row'[g] = row[g],
         \A g \in Generations :
           /\ row'[g].status = "promoted" <=> row[g].status = "promoted"
           /\ row[g].status = "promoted" => row'[g].previous = row[g].previous,
         HoldsTrue(p)'
  PROVE  AtAlias(p, a)
  <1>1. TopOf(p, a)' = TopOf(p, a)
    BY DEF TopOf, Moving
  <1>2. Turn(p, a) => Turn(p, a)'
    BY <1>1, StackStays DEF Turn, Moving
  <1>3. KeepsOut(a)
    BY DEF KeepsOut
  <1> QED BY <1>2, <1>3 DEF AtAlias

LEMMA SerialLoad ==
  ASSUME IInv, NEW p \in Operators, LoadBuilt(p) \/ LoadValidated(p) \/ LoadPromoted(p)
  PROVE  \E a \in Aliases : AtAlias(p, a)
  <1>1. TypeOK
    BY DEF IInv
  <1>2. PICK g \in Generations, next \in {"checking", "promote_resolving", "rollback_resolving"} :
          /\ Choose(p, g, next) /\ UNCHANGED stores
          /\ next = "checking" => row[g].status = "built"
          /\ next = "promote_resolving" => row[g].status = "validated"
    <2>1. CASE LoadBuilt(p)
      BY <2>1 DEF LoadBuilt, IsLatest
    <2>2. CASE LoadValidated(p)
      BY <2>2 DEF LoadValidated, IsLatest
    <2>3. CASE LoadPromoted(p)
      BY <2>3 DEF LoadPromoted, IsLatest
    <2> QED BY <2>1, <2>2, <2>3
  <1>3. /\ pc[p] = "idle" /\ pc'[p] = next /\ current'[p] = g
        /\ UNCHANGED << row, alias, trail >>
    BY <1>1, <1>2 DEF Choose, Goto, stores, TypeOK
  <1>4. HoldsTrue(p)'
    BY <1>2, <1>3 DEF HoldsTrue
  <1>5. AliasOf[g] \in Aliases /\ Own(p)' = AliasOf[g]
    BY <1>3, AliasAssumption DEF Own
  <1>6. AtAlias(p, AliasOf[g])
    BY <1>2, <1>3, <1>4, <1>5, StillStep DEF Moving, Handling
  <1> QED BY <1>5, <1>6

\* As long as nothing has failed every call returns.
LEMMA NoRaise ==
  ASSUME TypeOK, TakeTurns, TakeTurns', NEW p
  PROVE  ~Raise(p)
  BY DEF TakeTurns, Raise

LEMMA SerialValidate ==
  ASSUME IInv, NEW p \in Operators, HoldsTrue(p), Check(p) \/ MarkValidation(p)
  PROVE  \E a \in Aliases : AtAlias(p, a)
  <1> DEFINE g == current[p]
             a == Own(p)
  <1>1. TypeOK
    BY DEF IInv
  <1>2. CASE Check(p)
    <2>1. /\ pc[p] = "checking" /\ UNCHANGED << row, alias, trail >>
          /\ pc'[p] = "idle" \/ (pc'[p] = "validate_marking" /\ current'[p] = g)
      BY <1>1, <1>2 DEF Check, Finish, End, Proceed, Goto, stores, local, TypeOK
    <2>2. HoldsTrue(p)'
      BY <2>1 DEF HoldsTrue
    <2>3. a \in Aliases /\ (pc'[p] \in Handling => Own(p)' = a)
      BY <1>1, <2>1 DEF Own, TypeOK, Handling
    <2> HIDE DEF a
    <2>4. AtAlias(p, a)
      BY <2>1, <2>2, <2>3, StillStep DEF Moving, Handling, a
    <2> QED BY <2>3, <2>4
  <1>3. CASE MarkValidation(p)
    <2>1. /\ pc[p] = "validate_marking" /\ pc'[p] = "idle" /\ UNCHANGED << alias, trail >>
          /\ row' = [row EXCEPT ![g].status = "validated"]
      BY <1>1, <1>3 DEF MarkValidation, SetStatus, Finish, End, Goto, TypeOK
    <2>2. g \in Generations /\ row[g].status = "built" /\ a = AliasOf[g] /\ a \in Aliases
      BY <1>1, <2>1 DEF HoldsTrue, TypeOK, Own
    <2> HIDE DEF g, a
    <2>3. row'[g].status = "validated" /\ \A h \in Generations \ {g} : row'[h] = row[h]
      BY <1>1, <2>1, <2>2 DEF TypeOK, Row
    <2>4. HoldsTrue(p)'
      BY <2>1 DEF HoldsTrue
    <2>5. AtAlias(p, a)
      BY <2>1, <2>2, <2>3, <2>4, StillStep DEF Moving, Handling, a
    <2> QED BY <2>2, <2>5
  <1> QED BY <1>2, <1>3

\* What is read is so, and the alias of the served collection is the one meant.
LEMMA SerialRead ==
  ASSUME IInv, NEW p \in Operators, HoldsTrue(p),
         ResolvePrevious(p) \/ ResolveCurrent(p) \/ ReadTarget(p)
  PROVE  \E a \in Aliases : AtAlias(p, a)
  <1> DEFINE a == Own(p)
  <1>1. TypeOK /\ ServedOK
    BY DEF IInv
  <1>2. CASE ResolvePrevious(p)
    <2>1. /\ pc[p] = "promote_resolving" /\ pc'[p] = "promote_switching"
          /\ current'[p] = current[p] /\ previous'[p] = alias[Own(p)]
          /\ UNCHANGED << row, alias, trail >>
      BY <1>1, <1>2 DEF ResolvePrevious, Goto, stores, TypeOK
    <2>2. HoldsTrue(p)'
      BY <2>1 DEF HoldsTrue, Own
    <2>3. a \in Aliases /\ Own(p)' = a
      BY <1>1, <2>1 DEF Own, TypeOK
    <2> HIDE DEF a
    <2>4. AtAlias(p, a)
      BY <2>1, <2>2, <2>3, StillStep DEF Moving, Handling, a
    <2> QED BY <2>3, <2>4
  <1>3. CASE ResolveCurrent(p)
    <2>1. /\ pc[p] = "rollback_resolving" /\ UNCHANGED << row, alias, trail >>
          /\ \/ pc'[p] = "idle"
             \/ /\ pc'[p] = "rollback_reading" /\ current'[p] = alias[Own(p)]
                /\ alias[Own(p)] # NoGeneration
      BY <1>1, <1>3 DEF ResolveCurrent, Finish, End, Goto, stores, TypeOK
    <2>2. a \in Aliases
      BY <1>1, <2>1 DEF Own, TypeOK
    <2>3. pc'[p] = "rollback_reading" => Own(p)' = a
      BY <1>1, <2>1, <2>2 DEF ServedOK, Own
    <2>4. HoldsTrue(p)'
      BY <2>1, <2>3 DEF HoldsTrue, Own
    <2> HIDE DEF a
    <2>5. AtAlias(p, a)
      BY <2>1, <2>2, <2>3, <2>4, StillStep DEF Moving, Handling, a
    <2> QED BY <2>2, <2>5
  <1>4. CASE ReadTarget(p)
    <2>1. /\ pc[p] = "rollback_reading" /\ UNCHANGED << row, alias, trail >>
          /\ \/ pc'[p] = "idle"
             \/ /\ pc'[p] = "rollback_switching" /\ current'[p] = current[p]
                /\ previous'[p] = row[current[p]].previous
      BY <1>1, <1>4 DEF ReadTarget, Finish, End, Goto, stores, TypeOK
    <2>2. HoldsTrue(p)'
      BY <2>1 DEF HoldsTrue, Own
    <2>3. a \in Aliases /\ (pc'[p] \in Handling => Own(p)' = a)
      BY <1>1, <2>1 DEF Own, TypeOK, Handling
    <2> HIDE DEF a
    <2>4. AtAlias(p, a)
      BY <2>1, <2>2, <2>3, StillStep DEF Moving, Handling, a
    <2> QED BY <2>3, <2>4
  <1> QED BY <1>2, <1>3, <1>4

\* The switch of an alias leaves the top where it was until the row follows.
LEMMA SerialSwitch ==
  ASSUME IInv, TakeTurns, TakeTurns', NEW p \in Operators, HoldsTrue(p),
         SwitchToPromoted(p) \/ SwitchBack(p)
  PROVE  \E a \in Aliases : AtAlias(p, a)
  <1>1. TypeOK
    BY DEF IInv
  <1>2. PICK target \in {current[p], previous[p]} :
          /\ UNCHANGED << row, trail, current, previous >>
          /\ alias' = [alias EXCEPT ![Own(p)] = target]
          /\ \/ /\ pc[p] = "promote_switching" /\ pc'[p] = "promote_marking"
                /\ target = current[p]
             \/ /\ pc[p] = "rollback_switching" /\ pc'[p] = "rollback_marking"
                /\ target = previous[p]
    BY <1>1, NoRaise DEF SwitchToPromoted, SwitchBack, Returns, Proceed, Goto, local, TypeOK
  <1>3. PICK a \in Aliases : Own(p) = a /\ Own(p)' = a
    BY <1>1, <1>2 DEF Own, TypeOK
  <1>4. alias'[a] = target /\ \A b \in Aliases \ {a} : alias'[b] = alias[b]
    BY <1>1, <1>2, <1>3 DEF TypeOK
  <1>5. HoldsTrue(p)'
    BY <1>2, <1>3, <1>4 DEF HoldsTrue
  <1>6. alias[a] = IF pc[p] = "promote_switching" THEN previous[p] ELSE current[p]
    BY <1>2, <1>3 DEF HoldsTrue
  <1>7. TopOf(p, a)' = TopOf(p, a)
    BY <1>2, <1>3, <1>4, <1>6 DEF TopOf
  <1>8. Turn(p, a) => Turn(p, a)'
    BY <1>2, <1>3, <1>7, StackStays DEF Turn
  <1>9. KeepsOut(a)
    BY <1>2, <1>4 DEF KeepsOut
  <1>10. AtAlias(p, a)
    BY <1>2, <1>3, <1>5, <1>8, <1>9 DEF AtAlias, Handling
  <1> QED BY <1>10

LEMMA SerialMarkPromoted ==
  ASSUME IInv, TakeTurns, TakeTurns', NEW p \in Operators, HoldsTrue(p), MarkPromoted(p)
  PROVE  \E a \in Aliases : AtAlias(p, a)
  <1> DEFINE g == current[p]
  <1>1. TypeOK
    BY DEF IInv
  <1>2. /\ pc[p] = "promote_marking" /\ pc'[p] = "promote_auditing"
        /\ UNCHANGED << alias, trail, current, previous >>
        /\ row' = [row EXCEPT ![g] = [status |-> "promoted", previous |-> previous[p]]]
    BY <1>1, NoRaise DEF MarkPromoted, Returns, Proceed, Goto, local, TypeOK
  <1>3. g \in Generations /\ row[g].status = "validated"
    BY <1>1, <1>2 DEF TypeOK, HoldsTrue
  <1>4. PICK a \in Aliases : /\ AliasOf[g] = a /\ alias[a] = g
                            /\ Own(p) = a /\ Own(p)' = a
    BY <1>1, <1>2, <1>3, AliasAssumption DEF HoldsTrue, Own
  <1>5. HoldsTrue(p)'
    BY <1>2, <1>4 DEF HoldsTrue
  <1> HIDE DEF g
  <1>6. /\ row'[g].status = "promoted" /\ row'[g].previous = previous[p]
        /\ \A h \in Generations \ {g} : row'[h] = row[h]
    BY <1>1, <1>2, <1>3 DEF TypeOK
  <1>7. KeepsOut(a)
    BY <1>2, <1>4, <1>6 DEF KeepsOut
  <1>8. ASSUME Turn(p, a) PROVE Turn(p, a)'
    <2>1. Stacked(Promoted(a), Previous, TopOf(p, a)) /\ NoGeneration \notin Promoted(a)
      BY <1>8, NoGenerationAssumption DEF Turn, Promoted
    <2>2. \A h \in Promoted(a) : h # g /\ Previous'[h] = Previous[h]
      BY <1>3, <1>6 DEF Promoted, Previous
    <2>3. TopOf(p, a) = previous[p] /\ TopOf(p, a)' = g
      BY <1>2, <1>4 DEF TopOf
    <2>4. Promoted(a)' = Promoted(a) \cup {g}
      BY <1>3, <1>4, <1>6 DEF Promoted
    <2>5. Previous'[g] = TopOf(p, a)
      BY <1>3, <1>6, <2>3 DEF Previous
    <2>6. g \notin Promoted(a) /\ g # NoGeneration
      BY <1>3, <2>2, NoGenerationAssumption
    <2>7. Stacked(Promoted(a) \cup {g}, Previous', g)
      BY <2>1, <2>2, <2>5, <2>6, StackPush
    <2> QED BY <1>2, <1>4, <2>3, <2>4, <2>7 DEF Turn
  <1>9. AtAlias(p, a)
    BY <1>2, <1>4, <1>5, <1>7, <1>8 DEF AtAlias, Handling
  <1> QED BY <1>9

LEMMA SerialMarkRolledBack ==
  ASSUME IInv, TakeTurns, TakeTurns', NEW p \in Operators, HoldsTrue(p), MarkRolledBack(p)
  PROVE  \E a \in Aliases : AtAlias(p, a)
  <1> DEFINE g == current[p]
             t == previous[p]
  <1>1. TypeOK
    BY DEF IInv
  <1>2. /\ pc[p] = "rollback_marking" /\ pc'[p] = "rollback_auditing"
        /\ UNCHANGED << alias, trail, current, previous >>
        /\ row' = [row EXCEPT ![g].status = "rolled_back"]
    BY <1>1, NoRaise DEF MarkRolledBack, SetStatus, Returns, Proceed, Goto, local, TypeOK
  <1>3. g \in Generations /\ t \in Generations /\ row[g].previous = t
    BY <1>1, <1>2 DEF TypeOK, HoldsTrue
  <1>4. PICK a \in Aliases : /\ AliasOf[g] = a /\ alias[a] = t
                             /\ Own(p) = a /\ Own(p)' = a
    BY <1>1, <1>2, <1>3, AliasAssumption DEF HoldsTrue, Own
  <1>5. HoldsTrue(p)'
    <2>1. row'[g].previous = row[g].previous
      BY <1>1, <1>2, <1>3 DEF TypeOK, Row
    <2> QED BY <1>2, <1>3, <1>4, <2>1 DEF HoldsTrue
  <1>6. TopOf(p, a) = g /\ TopOf(p, a)' = t
    BY <1>2, <1>4 DEF TopOf
  <1> HIDE DEF g, t
  <1>7. /\ row'[g].status = "rolled_back" /\ row'[g].previous = t
        /\ \A h \in Generations \ {g} : row'[h] = row[h]
    BY <1>1, <1>2, <1>3 DEF TypeOK, Row
  <1>8. KeepsOut(a)
    BY <1>2, <1>4, <1>7 DEF KeepsOut
  <1>9. ASSUME Turn(p, a) PROVE Turn(p, a)'
    <2>1. Stacked(Promoted(a), Previous, g) /\ NoGeneration \notin Promoted(a)
      BY <1>6, <1>9, NoGenerationAssumption DEF Turn, Promoted
    <2>2. \A h \in Promoted(a) : Previous'[h] = Previous[h]
      BY <1>3, <1>7 DEF Promoted, Previous
    <2>3. Promoted(a)' = Promoted(a) \ {g}
      BY <1>3, <1>7 DEF Promoted
    <2>4. Previous[g] = t /\ Previous'[g] = t
      BY <1>3, <1>7 DEF Previous
    <2>5. g \in Promoted(a)
      BY <1>3, <2>1, NoGenerationAssumption DEF Stacked
    <2>6. Stacked(Promoted(a) \ {g}, Previous', Previous'[g])
      BY <1>3, <2>1, <2>2, <2>4, <2>5, NoGenerationAssumption, StackPop
    <2> QED BY <1>2, <1>4, <1>6, <2>3, <2>4, <2>6 DEF Turn
  <1>10. AtAlias(p, a)
    BY <1>2, <1>4, <1>5, <1>8, <1>9 DEF AtAlias, Handling
  <1> QED BY <1>10

LEMMA SerialAudit ==
  ASSUME IInv, NEW p \in Operators, HoldsTrue(p), AuditPromotion(p) \/ AuditRollback(p)
  PROVE  \E a \in Aliases : AtAlias(p, a)
  <1>1. TypeOK
    BY DEF IInv
  <1>2. /\ pc[p] \in {"promote_auditing", "rollback_auditing"} /\ pc'[p] = "idle"
        /\ UNCHANGED << row, alias >>
        /\ trail' = [trail EXCEPT ![Own(p)] = alias[Own(p)]]
    BY <1>1 DEF AuditPromotion, AuditRollback, Finish, End, Goto, TypeOK, HoldsTrue
  <1>3. PICK a \in Aliases : Own(p) = a
    BY <1>1, <1>2 DEF Own, TypeOK
  <1>4. trail'[a] = alias'[a] /\ \A b \in Aliases \ {a} : trail'[b] = trail[b]
    BY <1>1, <1>2, <1>3 DEF TypeOK
  <1>5. HoldsTrue(p)'
    BY <1>2 DEF HoldsTrue
  <1>6. KeepsOut(a)
    BY <1>2, <1>4 DEF KeepsOut
  <1>7. TopOf(p, a)' = TopOf(p, a)
    BY <1>2 DEF TopOf
  <1>8. Turn(p, a) => Turn(p, a)'
    BY <1>2, <1>4, <1>7, StackStays DEF Turn
  <1>9. AtAlias(p, a)
    BY <1>2, <1>3, <1>5, <1>6, <1>8 DEF AtAlias, Handling
  <1> QED BY <1>9

LEMMA OthersDoWait ==
  ASSUME TypeOK, NEW p \in Operators, Build(p) \/ Validate(p) \/ Promote(p) \/ Rollback(p)
  PROVE  OthersWait(p)
  <1>1. CASE Build(p)
    BY <1>1 DEF Build, CreateCollection, UpsertPoints, RecordGeneration, Choose, Proceed,
       Finish, End, Goto, local, TypeOK, OthersWait
  <1>2. CASE Validate(p)
    BY <1>2 DEF Validate, LoadBuilt, Check, MarkValidation, Choose, Proceed, Finish, End, Goto,
       local, TypeOK, OthersWait
  <1>3. CASE Promote(p)
    BY <1>3 DEF Promote, LoadValidated, ResolvePrevious, SwitchToPromoted, MarkPromoted,
       AuditPromotion, Returns, Raise, Choose, Proceed, Finish, End, Goto, local, TypeOK,
       OthersWait
  <1>4. CASE Rollback(p)
    BY <1>4 DEF Rollback, LoadPromoted, ResolveCurrent, ReadTarget, SwitchBack, MarkRolledBack,
       AuditRollback, Returns, Raise, Choose, Proceed, Finish, End, Goto, local, TypeOK,
       OthersWait
  <1> QED BY <1>1, <1>2, <1>3, <1>4

LEMMA SerialNext ==
  ASSUME IInv, IInv', SerialInv, TakeTurns, TakeTurns', [Next]_vars
  PROVE  SerialInv'
  <1>1. TypeOK /\ TypeOK' /\ \A p \in Operators : HoldsTrue(p)
    BY DEF IInv, SerialInv
  <1>2. CASE UNCHANGED vars
    <2>1. \A a \in Aliases : Promoted(a)' = Promoted(a) /\ Previous' = Previous
      BY <1>2 DEF vars, Promoted, Previous
    <2>2. \A p \in Operators : \A a \in Aliases : TopOf(p, a)' = TopOf(p, a)
      BY <1>2 DEF vars, TopOf, Own
    <2>3. \A p \in Operators : HoldsTrue(p)'
      BY <1>1, <1>2 DEF vars, HoldsTrue, Own
    <2>4. \A p \in Operators : \A a \in Aliases :
            (Free(p, a)' <=> Free(p, a)) /\ (Turn(p, a)' <=> Turn(p, a))
      BY <1>2, <2>1, <2>2 DEF vars, Free, Turn, Own
    <2> QED BY <2>3, <2>4 DEF SerialInv
  <1>3. ASSUME NEW p \in Operators, Build(p) PROVE SerialInv'
    BY <1>1, <1>3, SerialBuild, OthersDoWait
  <1>4. ASSUME NEW p \in Operators, Validate(p) \/ Promote(p) \/ Rollback(p) PROVE SerialInv'
    <2>1. CASE Validate(p)
      <3>1. \E a \in Aliases : AtAlias(p, a)
        BY <1>1, <2>1, SerialLoad, SerialValidate DEF Validate
      <3> QED BY <1>1, <2>1, <3>1, OthersDoWait, SerialStep
    <2>2. CASE Promote(p)
      <3>1. \E a \in Aliases : AtAlias(p, a)
        BY <1>1, <2>2, SerialLoad, SerialRead, SerialSwitch, SerialMarkPromoted, SerialAudit
           DEF Promote
      <3> QED BY <1>1, <2>2, <3>1, OthersDoWait, SerialStep
    <2>3. CASE Rollback(p)
      <3>1. \E a \in Aliases : AtAlias(p, a)
        BY <1>1, <2>3, SerialLoad, SerialRead, SerialSwitch, SerialMarkRolledBack, SerialAudit
           DEF Rollback
      <3> QED BY <1>1, <2>3, <3>1, OthersDoWait, SerialStep
    <2> QED BY <1>4, <2>1, <2>2, <2>3
  <1>5. ASSUME NEW p \in Operators, CallRaises(p) PROVE SerialInv'
    BY <1>1, <1>5, NoRaise DEF CallRaises
  <1> QED BY <1>2, <1>3, <1>4, <1>5 DEF Next

LEMMA SerialInvariance == Spec /\ []TakeTurns => []SerialInv
  <1>1. IInv /\ IInv' /\ SerialInv /\ TakeTurns /\ TakeTurns' /\ [Next]_vars => SerialInv'
    BY SerialNext
  <1> QED BY <1>1, InitSerial, Invariance, PTL DEF Spec

\* Between operations everybody is free of others at every alias.
QuietOK ==
  Quiet => \A a \in Aliases :
             trail[a] = alias[a] /\ Stacked(Promoted(a), Previous, alias[a])

LEMMA QuietInvariance == Spec /\ []TakeTurns => []QuietOK
  <1>1. CASE Operators # {}
    <2>1. SerialInv => QuietOK
      <3> SUFFICES ASSUME SerialInv, Quiet, NEW a \in Aliases
                   PROVE  trail[a] = alias[a] /\ Stacked(Promoted(a), Previous, alias[a])
        BY DEF QuietOK
      <3>1. PICK p \in Operators : pc[p] = "idle"
        BY <1>1 DEF Quiet
      <3>2. Free(p, a)
        BY DEF Quiet, Free, Handling
      <3>3. TopOf(p, a) = alias[a]
        BY <3>1 DEF TopOf
      <3> QED BY <3>1, <3>2, <3>3 DEF SerialInv, Turn
    <2> QED BY <2>1, SerialInvariance, PTL
  <1>2. CASE Operators = {}
    <2>1. Init => QuietOK
      <3> SUFFICES ASSUME Init PROVE QuietOK
        OBVIOUS
      <3>1. \A a : Promoted(a) = {}
        BY DEF Init, Promoted, NoRow
      <3>2. Stacked({}, Previous, NoGeneration)
        BY DEF Stacked
      <3> QED BY <3>1, <3>2 DEF Init, QuietOK
    <2>2. QuietOK /\ [Next]_vars => QuietOK'
      <3> SUFFICES ASSUME QuietOK, UNCHANGED vars PROVE QuietOK'
        BY <1>2 DEF Next
      <3>1. \A a \in Aliases : Promoted(a)' = Promoted(a) /\ Previous' = Previous
        BY DEF vars, Promoted, Previous
      <3> QED BY <3>1 DEF vars, QuietOK, Quiet
    <2> QED BY <2>1, <2>2, PTL DEF Spec
  <1> QED BY <1>1, <1>2

\* promote_alias and rollback_alias: as long as the callers of an alias take
\* turns and nothing fails, its promoted generations are a stack of which the
\* alias is the top, so that every rollback leads back to where it came from.
THEOREM PromotionsAreAStack == Spec /\ []TakeTurns => []RollbackStack
  <1>1. QuietOK => RollbackStack
    <2> SUFFICES ASSUME QuietOK, Quiet, NEW a \in Aliases
                 PROVE  LET S == Promoted(a) IN
                   /\ alias[a] = NoGeneration => S = {}
                   /\ alias[a] # NoGeneration => alias[a] \in S
                   /\ \A g \in S \ {alias[a]} : Cardinality({h \in S : row[h].previous = g}) = 1
                   /\ \A h \in S : row[h].previous \in S \cup {NoGeneration}
                   /\ \A T \in SUBSET S : T # {} => \E h \in T : row[h].previous \notin T
      BY DEF RollbackStack
    <2> DEFINE S == Promoted(a)
    <2>1. Stacked(S, Previous, alias[a])
      BY DEF QuietOK
    <2>2. \A h \in S : h \in Generations /\ Previous[h] = row[h].previous
      BY DEF Promoted, Previous
    <2>3. NoGeneration \notin S
      BY NoGenerationAssumption DEF Promoted
    <2> HIDE DEF S
    <2>4. ASSUME NEW g \in S \ {alias[a]} PROVE Cardinality({h \in S : row[h].previous = g}) = 1
      <3>1. PICK h \in S : \A k \in S : Previous[k] = g <=> k = h
        BY <2>1 DEF Stacked
      <3>2. {k \in S : row[k].previous = g} = {h}
        BY <2>2, <3>1
      <3> QED BY <3>2, FS_Singleton
    <2>5. \A T \in SUBSET S : T # {} => \E h \in T : row[h].previous \notin T
      <3> TAKE T \in SUBSET S
      <3> HAVE T # {}
      <3>1. PICK h \in T : Previous[h] \notin T
        BY <2>1 DEF Stacked
      <3> QED BY <2>2, <3>1
    <2>6. /\ alias[a] = NoGeneration => S = {}
          /\ alias[a] # NoGeneration => alias[a] \in S
          /\ \A h \in S : row[h].previous \in S \cup {NoGeneration}
      BY <2>1, <2>2, <2>3 DEF Stacked
    <2> QED BY <2>4, <2>5, <2>6 DEF S
  <1> QED BY <1>1, QuietInvariance, PTL

\* _record_lifecycle_event: under the same condition the latest audit row of
\* every alias names the collection it points to between operations.
THEOREM TrailKeepsUp == Spec /\ []TakeTurns => []TrailNamesTarget
  <1>1. IInv /\ QuietOK => TrailNamesTarget
    <2> SUFFICES ASSUME IInv, QuietOK, Quiet PROVE trail = alias
      BY DEF TrailNamesTarget
    <2>1. \A a \in Aliases : trail[a] = alias[a]
      BY DEF QuietOK
    <2>2. trail \in [Aliases -> OrNone] /\ alias \in [Aliases -> OrNone]
      BY DEF IInv, TypeOK
    <2> QED BY <2>1, <2>2
  <1> QED BY <1>1, Invariance, QuietInvariance, PTL

\* rollback_alias: under the same condition a rollback never marks as rolled
\* back the collection it has just switched the alias to.
THEOREM RollbackMovesOn == Spec /\ []TakeTurns => []RollbackLeavesGeneration
  <1>1. IInv /\ SerialInv /\ TakeTurns => RollbackLeavesGeneration
    <2> SUFFICES ASSUME IInv, SerialInv, TakeTurns,
                        NEW p \in Operators, pc[p] = "rollback_marking"
                 PROVE  previous[p] # current[p]
      BY DEF RollbackLeavesGeneration
    <2>1. PICK a \in Aliases : a = Own(p)
      BY AliasAssumption DEF IInv, TypeOK, Own
    <2>2. current[p] \in Generations /\ previous[p] \in Generations
      BY DEF IInv, TypeOK
    <2>3. previous[p] = row[current[p]].previous
      BY DEF SerialInv, HoldsTrue
    <2>4. Free(p, a)
      BY <2>1 DEF Free, TakeTurns, Handling
    <2>5. Stacked(Promoted(a), Previous, current[p])
      BY <2>1, <2>4 DEF SerialInv, Turn, TopOf
    <2>6. Previous[current[p]] # current[p]
      BY <2>2, <2>5, NoGenerationAssumption DEF Stacked
    <2> QED BY <2>2, <2>3, <2>6 DEF Previous
  <1> QED BY <1>1, Invariance, SerialInvariance, PTL

=============================================================================
