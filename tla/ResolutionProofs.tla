-------------------------- MODULE ResolutionProofs --------------------------
(* Theorems about RunResolution for any registries, files, catalog and     *)
(* bounds, and any number of operators and runs.                           *)
EXTENDS RunResolution, WellFoundedInduction, TLAPS

USE RegistriesAssumption, FilesAssumption, SavesAssumption, ActorsAssumption,
    BoundsAssumption, CatalogAssumption

-----------------------------------------------------------------------------
(* The defaults                                                            *)

Chosen == [policy: Policies, profile: Profiles, target: Targets]

LEMMA EntriesById ==
  /\ \A i \in DOMAIN ProfileList : ProfileOf(ProfileList[i].id) = ProfileList[i]
  /\ \A i \in DOMAIN TargetList : TargetOf(TargetList[i].id) = TargetList[i]
  <1>1. ASSUME NEW i \in DOMAIN ProfileList PROVE ProfileOf(ProfileList[i].id) = ProfileList[i]
    <2>1. ProfileList[i] \in ToSet(ProfileList)
      BY DEF ToSet
    <2> QED BY <2>1 DEF ProfileOf
  <1>2. ASSUME NEW i \in DOMAIN TargetList PROVE TargetOf(TargetList[i].id) = TargetList[i]
    <2>1. TargetList[i] \in ToSet(TargetList)
      BY DEF ToSet
    <2> QED BY <2>1 DEF TargetOf
  <1> QED BY <1>1, <1>2

LEMMA FallbackSelectable == Fallback \in Defaults
  <1> DEFINE i == FirstPair[1]
             k == FirstPair[2]
  <1>1. FirstPair \in Pairs
    BY DEF FirstPair
  <1>2. /\ i \in DOMAIN ProfileList /\ k \in DOMAIN TargetList
        /\ ProfileList[i].implemented /\ TargetList[k].implemented
        /\ Compatible(ProfileList[i].id, TargetList[k].id)
    BY <1>1 DEF Pairs
  <1>3. ProfileList[i] \in ToSet(ProfileList) /\ TargetList[k] \in ToSet(TargetList)
    BY <1>2 DEF ToSet
  <1>4. SelectableProfile(ProfileList[i].id) /\ SelectableTarget(TargetList[k].id)
    BY <1>2, <1>3, EntriesById DEF SelectableProfile, SelectableTarget, Profiles, Targets
  <1>5. DefaultPolicy \in Policies
    <2>1. \A n \in DOMAIN PolicyList : PolicyList[n].version \in Policies
      BY DEF Policies, ToSet
    <2> QED BY <2>1 DEF DefaultPolicy
  <1>6. /\ Fallback.policy = DefaultPolicy /\ Fallback.profile = ProfileList[i].id
        /\ Fallback.target = TargetList[k].id
    BY DEF Fallback
  <1>7. Fallback \in Chosen
    BY <1>4, <1>5 DEF Fallback, Chosen, SelectableProfile, SelectableTarget
  <1>8. Selectable(Fallback)
    BY <1>2, <1>4, <1>5, <1>6 DEF Selectable
  <1> QED BY <1>7, <1>8 DEF Defaults, Chosen

\* load_operator_defaults: whatever three ids a file has, what is loaded could be saved.
LEMMA ValidSelectable ==
  ASSUME NEW d
  PROVE  Valid(d) \in Defaults
  <1> DEFINE p == IF d.policy \in Policies THEN d.policy ELSE Fallback.policy
             i == IF SelectableProfile(d.profile) THEN d.profile ELSE Fallback.profile
             t == IF SelectableTarget(d.target) THEN d.target ELSE Fallback.target
  <1>1. /\ Fallback \in Chosen /\ Selectable(Fallback)
        /\ Fallback = [policy |-> Fallback.policy, profile |-> Fallback.profile, target |-> Fallback.target]
    BY FallbackSelectable DEF Defaults, Chosen
  <1>2. p \in Policies /\ SelectableProfile(i) /\ SelectableTarget(t)
    BY <1>1 DEF Selectable
  <1>3. CASE Compatible(i, t)
    <2>1. Valid(d) = [policy |-> p, profile |-> i, target |-> t]
      BY <1>3 DEF Valid
    <2> HIDE DEF p, i, t
    <2> QED BY <1>2, <1>3, <2>1 DEF Defaults, Selectable, SelectableProfile, SelectableTarget
  <1>4. CASE ~ Compatible(i, t)
    <2>1. Valid(d) = [Fallback EXCEPT !.policy = p]
      BY <1>4 DEF Valid
    <2> HIDE DEF p, i, t
    <2>2. Valid(d) = [policy |-> p, profile |-> Fallback.profile, target |-> Fallback.target]
      BY <1>1, <2>1 DEF Chosen
    <2> QED BY <1>1, <1>2, <2>2 DEF Defaults, Chosen, Selectable
  <1> QED BY <1>3, <1>4

\* A selection that could be saved is loaded as it is.
LEMMA ValidKeeps ==
  ASSUME NEW d \in Defaults
  PROVE  Valid(d) = d
  <1>1. d \in Chosen /\ Selectable(d)
    BY DEF Defaults, Chosen
  <1>2. Valid(d) = [policy |-> d.policy, profile |-> d.profile, target |-> d.target]
    BY <1>1 DEF Valid, Selectable
  <1> QED BY <1>1, <1>2 DEF Chosen

LEMMA LoadedSelectable == Loaded \in Defaults
  BY FallbackSelectable, ValidSelectable DEF Loaded

LEMMA DefaultsInFile ==
  ASSUME NEW d \in Defaults
  PROVE  d \in Payloads /\ Size(d) \in Nat \ {0}
  <1>1. d \in Chosen
    BY DEF Defaults, Chosen
  <1>2. d \in Payloads
    BY <1>1 DEF Chosen, Payloads, Fields
  <1>3. Length[d.policy] \in Nat /\ Length[d.profile] \in Nat /\ Length[d.target] \in Nat
    BY <1>1 DEF Chosen
  <1> QED BY <1>2, <1>3 DEF Size

LEMMA OverSelectable ==
  ASSUME NEW d, NEW fields, Selectable(Over(d, fields))
  PROVE  Over(d, fields) \in Defaults
  <1> DEFINE o == Over(d, fields)
  <1>1. o = [f \in Fields |-> o[f]]
    BY DEF Over
  <1>2. o.policy \in Policies /\ o.profile \in Profiles /\ o.target \in Targets
    BY DEF Selectable, SelectableProfile, SelectableTarget
  <1> HIDE DEF o
  <1>3. o \in Chosen
    BY <1>1, <1>2 DEF Chosen, Fields
  <1> QED BY <1>3 DEF Defaults, Chosen, o

-----------------------------------------------------------------------------
(* Saves                                                                   *)

FileOK ==
  /\ file = Absent \/ (file.text \in Payloads /\ file.size \in Nat)
  /\ meant \in Defaults
  /\ disturbed \in BOOLEAN
  /\ given \in [Savers -> Saves \cup {NoConfig}]
  /\ DOMAIN payload = Savers

SaverOK(s) ==
  /\ pc[s] \in {"idle", "open", "close"}
  /\ pc[s] \in {"open", "close"} => payload[s] \in Defaults
  /\ pc[s] = "close" => file # Absent

\* Until saves overlap or one is broken off, there is one at a time, it has read what
\* the saves before it add up to, and nobody else touches the file that it empties.
Serial ==
  ~ disturbed =>
    /\ \A s, q \in Savers : pc[s] # "idle" /\ pc[q] # "idle" => s = q
    /\ (\A s \in Savers : pc[s] # "close") => Parses /\ Loaded = meant
    /\ \A s \in Savers : pc[s] # "idle" => payload[s] = Over(meant, given[s])
    /\ \A s \in Savers : pc[s] = "close" => file = Truncated

SaveInv ==
  /\ FileOK
  /\ pc = [a \in Savers \cup Runs |-> pc[a]]
  /\ \A s \in Savers : SaverOK(s)
  /\ Serial

LEMMA FilesDiffer ==
  /\ \A d \in Payloads, n \in Nat : [text |-> d, size |-> n] # Absent
  /\ Truncated # Absent /\ Truncated.text \in Payloads /\ Truncated.size \in Nat
  BY DEF Absent, Truncated, Payloads

LEMMA InitSaves == Init => SaveInv
  <1> SUFFICES ASSUME Init PROVE SaveInv
    OBVIOUS
  <1>1. /\ file = Absent \/ (file.text \in Payloads /\ file.size \in Nat)
        /\ Parses
    <2>1. CASE file = Absent
      BY <2>1 DEF Parses
    <2>2. ASSUME NEW d \in OldFiles, file = Written(d)
          PROVE  file.text \in Payloads /\ file.size \in Nat /\ Parses
      <3>1. d \in Payloads /\ \A f \in Fields : Length[d[f]] \in Nat
        BY DEF Payloads
      <3>2. Size(d) \in Nat
        BY <3>1 DEF Size, Fields
      <3> QED BY <2>2, <3>1, <3>2 DEF Written, Parses
    <2> QED BY <2>1, <2>2 DEF Init
  <1>2. FileOK
    BY <1>1, LoadedSelectable DEF Init, FileOK
  <1> QED BY <1>1, <1>2 DEF Init, SaveInv, SaverOK, Serial

LEMMA GotoFrame ==
  ASSUME SaveInv, NEW a \in Savers \cup Runs, NEW next, Goto(a, next)
  PROVE  /\ pc' = [b \in Savers \cup Runs |-> pc'[b]]
         /\ pc'[a] = next
         /\ \A b \in (Savers \cup Runs) \ {a} : pc'[b] = pc[b]
  BY DEF SaveInv, Goto

LEMMA PrepareKeeps ==
  ASSUME SaveInv, NEW s \in Savers, Prepare(s)
  PROVE  SaveInv'
  <1>1. PICK fields \in Saves :
          /\ Selectable(Over(Loaded, fields))
          /\ payload' = [payload EXCEPT ![s] = Over(Loaded, fields)]
          /\ given' = [given EXCEPT ![s] = fields]
    BY DEF Prepare
  <1>2. /\ pc[s] = "idle" /\ pc'[s] = "open" /\ file' = file /\ meant' = meant
        /\ \A q \in Savers \ {s} : pc'[q] = pc[q]
        /\ pc' = [b \in Savers \cup Runs |-> pc'[b]]
        /\ disturbed' = (disturbed \/ \E other \in Savers \ {s} : pc[other] # "idle")
    BY GotoFrame DEF Prepare
  <1>3. payload'[s] = Over(Loaded, fields) /\ payload'[s] \in Defaults /\ given'[s] = fields
    BY <1>1, OverSelectable DEF SaveInv, FileOK
  <1>4. \A q \in Savers \ {s} : payload'[q] = payload[q] /\ given'[q] = given[q]
    BY <1>1 DEF SaveInv, FileOK
  <1>5. FileOK'
    BY <1>1, <1>2 DEF SaveInv, FileOK
  <1>6. \A q \in Savers : SaverOK(q)'
    BY <1>2, <1>3, <1>4 DEF SaveInv, SaverOK
  <1>7. ASSUME ~ disturbed' PROVE Serial'
    <2>1. ~ disturbed /\ \A q \in Savers \ {s} : pc[q] = "idle"
      BY <1>2, <1>7
    <2>2. Parses /\ Loaded = meant
      BY <1>2, <2>1 DEF SaveInv, Serial
    <2>3. Parses' /\ Loaded' = Loaded
      BY <1>2, <2>2 DEF Parses, Loaded
    <2> QED BY <1>2, <1>3, <2>1, <2>2, <2>3 DEF Serial
  <1> QED BY <1>2, <1>5, <1>6, <1>7 DEF SaveInv, Serial

LEMMA OpenKeeps ==
  ASSUME SaveInv, NEW s \in Savers, Open(s)
  PROVE  SaveInv'
  <1>1. /\ pc[s] = "open" /\ pc'[s] = "close" /\ file' = Truncated
        /\ UNCHANGED << payload, intent >>
        /\ \A q \in Savers \ {s} : pc'[q] = pc[q]
        /\ pc' = [b \in Savers \cup Runs |-> pc'[b]]
    BY GotoFrame DEF Open
  <1>2. FileOK'
    BY <1>1, FilesDiffer DEF SaveInv, FileOK, intent
  <1>3. \A q \in Savers : SaverOK(q)'
    BY <1>1, FilesDiffer DEF SaveInv, SaverOK
  <1>4. Serial'
    BY <1>1 DEF SaveInv, Serial, intent
  <1> QED BY <1>1, <1>2, <1>3, <1>4 DEF SaveInv

LEMMA FinishFrame ==
  ASSUME SaveInv, NEW s \in Savers, Finish(s)
  PROVE  /\ pc'[s] = "idle" /\ pc' = [b \in Savers \cup Runs |-> pc'[b]]
         /\ DOMAIN payload' = Savers /\ given' \in [Savers -> Saves \cup {NoConfig}]
         /\ \A q \in Savers \ {s} :
              pc'[q] = pc[q] /\ payload'[q] = payload[q] /\ given'[q] = given[q]
  BY GotoFrame DEF Finish, SaveInv, FileOK

LEMMA CloseKeeps ==
  ASSUME SaveInv, NEW s \in Savers, Close(s)
  PROVE  SaveInv'
  <1> DEFINE d == payload[s]
             size == IF file.size > Size(d) THEN file.size ELSE Size(d)
  <1>1. /\ pc[s] = "close" /\ Finish(s) /\ disturbed' = disturbed
        /\ file' = [text |-> d, size |-> size]
        /\ meant' = IF disturbed THEN meant ELSE Over(meant, given[s])
    BY DEF Close
  <1>2. d \in Defaults /\ d \in Payloads /\ Size(d) \in Nat \ {0} /\ file.size \in Nat
    BY <1>1, DefaultsInFile DEF SaveInv, SaverOK, FileOK
  <1>3. size \in Nat /\ file' # Absent /\ file'.text = d /\ file'.size = size
    BY <1>1, <1>2, FilesDiffer
  <1>4. ASSUME ~ disturbed PROVE Over(meant, given[s]) = d /\ file = Truncated
    BY <1>1, <1>4 DEF SaveInv, Serial
  <1>5. FileOK'
    BY <1>1, <1>2, <1>3, <1>4, FinishFrame DEF SaveInv, FileOK
  <1>6. \A q \in Savers : SaverOK(q)'
    BY <1>1, <1>3, FinishFrame DEF SaveInv, SaverOK
  <1>7. ASSUME ~ disturbed' PROVE Serial'
    <2>1. \A q \in Savers : pc'[q] = "idle"
      BY <1>1, <1>7, FinishFrame DEF SaveInv, Serial
    <2>2. size = Size(d) /\ meant' = d
      BY <1>1, <1>2, <1>4, <1>7 DEF Truncated
    <2>3. Parses' /\ Loaded' = d
      BY <1>2, <1>3, <2>2, ValidKeeps DEF Parses, Loaded
    <2> QED BY <2>1, <2>2, <2>3 DEF Serial
  <1> QED BY <1>1, <1>5, <1>6, <1>7, FinishFrame DEF SaveInv, Serial

LEMMA DieKeeps ==
  ASSUME SaveInv, NEW s \in Savers, Die(s)
  PROVE  SaveInv'
  <1>1. /\ pc[s] # "idle" /\ Finish(s) /\ file' = file /\ meant' = meant
        /\ disturbed' = (disturbed \/ pc[s] = "close")
    BY DEF Die
  <1>2. FileOK'
    BY <1>1, FinishFrame DEF SaveInv, FileOK
  <1>3. \A q \in Savers : SaverOK(q)'
    BY <1>1, FinishFrame DEF SaveInv, SaverOK
  <1>4. ASSUME ~ disturbed' PROVE Serial'
    <2>1. ~ disturbed /\ (\A q \in Savers : pc'[q] = "idle") /\ \A q \in Savers : pc[q] # "close"
      BY <1>1, <1>4, FinishFrame DEF SaveInv, Serial
    <2>2. Parses' /\ Loaded' = meant'
      BY <1>1, <2>1 DEF SaveInv, Serial, Parses, Loaded
    <2> QED BY <2>1, <2>2 DEF Serial
  <1> QED BY <1>1, <1>2, <1>3, <1>4, FinishFrame DEF SaveInv, Serial

\* Runs and the registry do not save.
LEMMA SavesRest ==
  ASSUME SaveInv, UNCHANGED << defaults, intent >>, \A s \in Savers : pc'[s] = pc[s],
         pc' = [a \in Savers \cup Runs |-> pc'[a]]
  PROVE  SaveInv'
  BY DEF SaveInv, FileOK, SaverOK, Serial, Parses, Loaded, defaults, intent

-----------------------------------------------------------------------------
(* Lookups: the order of the tables, and the version activated last        *)

\* The tables looked up before the operation x of a run.
DoneBy(x) ==
  CASE x = "idle"                -> {}
    [] x = "feature_set"         -> {}
    [] x = "model"               -> {"feature_set"}
    [] x = "policy"              -> {"feature_set", "model"}
    [] x = "embedding_model"     -> {"feature_set", "model", "policy"}
    [] x = "audience_definition" -> {"feature_set", "model", "policy", "embedding_model"}
    [] OTHER                     -> Looking

LEMMA LookingIs ==
  /\ Looking = {"feature_set", "model", "policy", "embedding_model", "audience_definition"}
  /\ DOMAIN Tables = 1..5
  BY DEF Looking, ToSet, Tables

\* A table comes after those before it, and after the one of its parent.
LEMMA TableOrder ==
  ASSUME NEW x \in Looking
  PROVE  /\ x \notin DoneBy(x) /\ DoneBy(x) \subseteq Looking
         /\ \A t \in DoneBy(x) \cup {x} :
              ParentTable(t) # Nothing => ParentTable(t) \in Looking \ {x}
  BY LookingIs DEF DoneBy, ParentTable

LEMMA NextInOrder ==
  ASSUME NEW r, pc[r] \in Looking
  PROVE  /\ NextTable(r) \in Looking \cup {"decide"}
         /\ DoneBy(NextTable(r)) = DoneBy(pc[r]) \cup {pc[r]}
  <1>1. PICK k \in 1..5 : pc[r] = Tables[k]
    BY LookingIs DEF Looking, ToSet
  <1>2. \A l \in 1..5 : Tables[l] = Tables[k] => l = k
    BY DEF Tables
  <1>3. Position(r) = k
    BY <1>1, <1>2, LookingIs DEF Position
  <1>4. Len(Tables) = 5
    BY DEF Tables
  <1>5. NextTable(r) = IF k = 5 THEN "decide" ELSE Tables[k + 1]
    BY <1>3, <1>4 DEF NextTable
  <1>6. k = 1 \/ k = 2 \/ k = 3 \/ k = 4 \/ k = 5
    OBVIOUS
  <1> QED BY <1>1, <1>5, <1>6, LookingIs DEF Tables, DoneBy

Before == {p \in Nat \X Nat : p[1] < p[2]}

LEMMA LeastNumber ==
  ASSUME NEW S \in SUBSET Nat, S # {}
  PROVE  \E n \in S : \A m \in S : n <= m
  <1>1. IsWellFoundedOn(Before, Nat)
    BY NatLessThanWellFounded, Zenon DEF OpToRel, Before
  <1>2. PICK n \in S : \A m \in S : << m, n >> \notin Before
    BY <1>1, WFMin
  <1>3. \A m \in S : ~ (m < n)
    BY <1>2 DEF Before
  <1> QED BY <1>3

\* Whatever versions there are, some one of them was activated last.
LEMMA LatestExists ==
  ASSUME NEW top \in Nat, NEW times \in [Versions -> 0..top],
         NEW fit \in SUBSET Versions, fit # {}
  PROVE  \E v \in fit : IsLatest(v, fit, times)
  <1> DEFINE ages == {top - times[v] : v \in fit}
  <1>1. ages \in SUBSET Nat /\ ages # {}
    OBVIOUS
  <1>2. PICK n \in ages : \A m \in ages : n <= m
    <2> HIDE DEF ages
    <2> QED BY <1>1, LeastNumber
  <1>3. PICK v \in fit : n = top - times[v]
    OBVIOUS
  <1>4. ASSUME NEW w \in fit PROVE times[w] <= times[v]
    <2>1. top - times[w] \in ages
      OBVIOUS
    <2>2. top - times[v] <= top - times[w]
      BY <1>2, <1>3, <2>1
    <2> QED BY <2>2
  <1> QED BY <1>4 DEF IsLatest

-----------------------------------------------------------------------------
(* Runs and the registry                                                   *)

RegistryOK ==
  /\ activated \in [Versions -> 0..(Earlier + changes)] /\ OneAtATime(activated)
  /\ changes \in 0..MaxChanges /\ faults \in 0..MaxFaults
  /\ request \in [Runs -> Requests \cup {NoRequest}]
  /\ DOMAIN config = Runs
  /\ bound \in [Runs -> [Looking -> Versions \cup {Nothing}]]
  /\ mode \in [Runs -> {"none", "resolved", "degraded"}]
  /\ before \in [Runs -> [Versions -> Nat]]
  /\ seen \in [Runs -> SUBSET Versions]
  /\ moved \subseteq Runs

PhaseOK(r) ==
  /\ pc[r] \in {"idle", "decide", "running", "failed"} \cup Looking
  /\ pc[r] \notin {"idle", "failed"} => config[r] \in Defaults
  /\ mode[r] # "none" <=> pc[r] = "running"
  /\ pc[r] = "running" =>
       /\ Explicit(r) => mode[r] = "resolved"
       /\ mode[r] = "resolved" => Missing(bound[r]) = {}
       /\ mode[r] = "degraded" /\ bound[r] # Unbound => Missing(bound[r]) # {}

\* While it looks versions up, a run has noted all that has been active.
WatchOK(r) ==
  pc[r] \in Looking =>
    /\ Active \subseteq seen[r]
    /\ r \notin moved => activated = before[r]

\* A version that is bound, whenever it was found.
Tied(r, t, v) ==
  /\ v \in seen[r]
  /\ OfVersion(r, t, v)
  /\ IF request[r].explicit[t] # Nothing THEN v = request[r].explicit[t]
     ELSE Matching(r, t, bound[r], v)

BoundOK(r) ==
  /\ \A t \in Looking \ DoneBy(pc[r]) : bound[r][t] = Nothing
  /\ \A t \in Looking : bound[r][t] # Nothing => Tied(r, t, bound[r][t])

\* A table that was looked up in the registry as the run found it.
LatestOK(r, t) ==
  LET fit == Fit(r, t, bound[r], before[r]) IN
  IF fit = {} THEN bound[r][t] = Nothing ELSE IsLatest(bound[r][t], fit, before[r])

StillOK(r) ==
  r \notin moved /\ (pc[r] \in Looking \cup {"decide"} \/ (pc[r] = "running" /\ bound[r] # Unbound)) =>
    \A t \in DoneBy(pc[r]) : request[r].explicit[t] = Nothing => LatestOK(r, t)

RunOK(r) == PhaseOK(r) /\ WatchOK(r) /\ BoundOK(r) /\ StillOK(r)

RunInv == RegistryOK /\ \A r \in Runs : RunOK(r)

LEMMA InitRuns == Init => RunInv
  <1> SUFFICES ASSUME Init PROVE RunInv
    OBVIOUS
  <1>1. activated \in [Versions -> 0..Earlier] /\ OneAtATime(activated) /\ Active \subseteq Versions
    BY DEF Init, Active, ActiveIn
  <1>2. Unbound \in [Looking -> Versions \cup {Nothing}] /\ \A t \in Looking : Unbound[t] = Nothing
    BY DEF Unbound, Looking
  <1>3. RegistryOK
    BY <1>1, <1>2 DEF Init, RegistryOK
  <1>4. "idle" \notin Looking
    BY LookingIs
  <1>5. ASSUME NEW r \in Runs PROVE RunOK(r)
    BY <1>2, <1>4 DEF Init, RunOK, PhaseOK, WatchOK, BoundOK, StillOK
  <1> QED BY <1>3, <1>5 DEF RunInv

\* What stays of a run when a step is not its own.
Kept(r) ==
  /\ pc'[r] = pc[r] /\ request'[r] = request[r] /\ config'[r] = config[r]
  /\ bound'[r] = bound[r] /\ mode'[r] = mode[r] /\ before'[r] = before[r]
  /\ seen[r] \subseteq seen'[r] /\ (r \in moved => r \in moved')

LEMMA SameVersions ==
  ASSUME NEW r, NEW t, NEW v, config'[r] = config[r]
  PROVE  OfVersion(r, t, v)' <=> OfVersion(r, t, v)
  BY DEF OfVersion, Expected

LEMMA SameMatching ==
  ASSUME NEW r, NEW t, NEW v, NEW ids, NEW others, config'[r] = config[r],
         ParentTable(t) # Nothing => others[ParentTable(t)] = ids[ParentTable(t)]
  PROVE  /\ Matching(r, t, others, v) <=> Matching(r, t, ids, v)
         /\ (Matching(r, t, others, v))' <=> Matching(r, t, ids, v)
  BY SameVersions DEF Matching, ParentIn

LEMMA KeptRun ==
  ASSUME NEW r \in Runs, RunOK(r), Kept(r),
         bound[r] \in [Looking -> Versions \cup {Nothing}],
         pc[r] \in Looking =>
           Active' \subseteq seen'[r] /\ (r \notin moved' => activated' = activated)
  PROVE  RunOK(r)'
  <1>1. PhaseOK(r)'
    BY DEF Kept, RunOK, PhaseOK, Explicit, Missing
  <1>2. WatchOK(r)'
    BY DEF Kept, RunOK, WatchOK
  <1>3. ASSUME NEW t, NEW v
        PROVE  /\ Matching(r, t, bound[r], v)' <=> Matching(r, t, bound[r], v)
               /\ OfVersion(r, t, v)' <=> OfVersion(r, t, v)
    <2> DEFINE ids == bound[r]
    <2>1. config'[r] = config[r] /\ bound'[r] = ids
      BY DEF Kept
    <2>2. Matching(r, t, ids, v)' <=> Matching(r, t, ids, v)
      BY <2>1, SameVersions DEF Matching, ParentIn
    <2> QED BY <2>1, <2>2, SameVersions
  <1>4. BoundOK(r)'
    BY <1>3 DEF Kept, RunOK, BoundOK, Tied
  <1>5. ASSUME NEW t PROVE Fit(r, t, bound[r], before[r])' = Fit(r, t, bound[r], before[r])
    BY <1>3 DEF Kept, Fit, ActiveIn
  <1>6. StillOK(r)'
    BY <1>5 DEF Kept, RunOK, StillOK, LatestOK, IsLatest
  <1> QED BY <1>1, <1>2, <1>4, <1>6 DEF RunOK

\* A run that a step of another leaves alone.
LEMMA OthersKeep ==
  ASSUME RunInv, NEW q \in Runs, UNCHANGED << activated, moved >>, Kept(q)
  PROVE  RunOK(q)'
  <1>1. RunOK(q) /\ bound[q] \in [Looking -> Versions \cup {Nothing}]
    BY DEF RunInv, RegistryOK
  <1>2. pc[q] \in Looking => Active' \subseteq seen'[q]
    BY <1>1 DEF Kept, RunOK, WatchOK, Active, ActiveIn
  <1> QED BY <1>1, <1>2, KeptRun

\* A run that keeps what it was asked for, what it found and what it has seen.
LEMMA SameBinding ==
  ASSUME NEW r, NEW t, config'[r] = config[r], request'[r] = request[r],
         bound'[r] = bound[r], before'[r] = before[r], seen'[r] = seen[r]
  PROVE  /\ \A v : Tied(r, t, v)' <=> Tied(r, t, v)
         /\ LatestOK(r, t)' <=> LatestOK(r, t)
  <1>1. ASSUME NEW v PROVE Matching(r, t, bound[r], v)' <=> Matching(r, t, bound[r], v)
    BY SameVersions DEF Matching, ParentIn
  <1>2. Fit(r, t, bound[r], before[r])' = Fit(r, t, bound[r], before[r])
    BY <1>1 DEF Fit, ActiveIn
  <1>3. ASSUME NEW v PROVE Tied(r, t, v)' <=> Tied(r, t, v)
    BY <1>1, SameVersions DEF Tied
  <1>4. LatestOK(r, t)' <=> LatestOK(r, t)
    BY <1>2 DEF LatestOK, IsLatest
  <1> QED BY <1>3, <1>4

LEMMA ResolveKeeps ==
  ASSUME SaveInv, RunInv, NEW r \in Runs, Resolve(r)
  PROVE  RunInv'
  <1>1. PICK q \in Requests :
          /\ request' = [request EXCEPT ![r] = q]
          /\ LET chosen == Over(Loaded, [f \in Fields |-> q[f]]) IN
             IF Parses /\ Selectable(chosen) /\ ProfileOf(chosen.profile).ready
             THEN config' = [config EXCEPT ![r] = chosen] /\ Goto(r, Tables[1])
             ELSE UNCHANGED config /\ Goto(r, "failed")
    BY DEF Resolve
  <1> DEFINE chosen == Over(Loaded, [f \in Fields |-> q[f]])
  <1>2. /\ pc[r] = "idle" /\ UNCHANGED << bound, mode, activated, changes, faults, moved >>
        /\ before' = [before EXCEPT ![r] = activated] /\ seen' = [seen EXCEPT ![r] = Active]
    BY DEF Resolve, registry
  <1>3. \/ pc'[r] = "feature_set" /\ config'[r] \in Defaults
        \/ pc'[r] = "failed"
    <2>1. CASE Parses /\ Selectable(chosen) /\ ProfileOf(chosen.profile).ready
      <3>1. Goto(r, Tables[1]) /\ config'[r] = chosen /\ Tables[1] = "feature_set"
        BY <1>1, <2>1 DEF RunInv, RegistryOK, Tables
      <3>2. chosen \in Defaults
        BY <2>1, OverSelectable
      <3> QED BY <3>1, <3>2, GotoFrame
    <2>2. CASE ~ (Parses /\ Selectable(chosen) /\ ProfileOf(chosen.profile).ready)
      BY <1>1, <2>2, GotoFrame
    <2> QED BY <2>1, <2>2
  <1>4. \A b \in Runs \ {r} : pc'[b] = pc[b]
    BY <1>1, GotoFrame
  <1>5. \A b \in Runs \ {r} : config'[b] = config[b] /\ request'[b] = request[b]
    BY <1>1 DEF RunInv, RegistryOK
  <1>6. DOMAIN config' = Runs
    BY <1>1 DEF RunInv, RegistryOK
  <1>7. RegistryOK'
    BY <1>1, <1>2, <1>6 DEF RunInv, RegistryOK, Active, ActiveIn
  <1>8. \A b \in Runs \ {r} : Kept(b)
    BY <1>2, <1>4, <1>5 DEF Kept, RunInv, RegistryOK
  <1>9. RunOK(r)'
    <2>1. /\ mode'[r] = "none" /\ \A t \in Looking : bound'[r][t] = Nothing
      <3>1. mode[r] = "none" /\ Looking \ DoneBy(pc[r]) = Looking
        BY <1>2 DEF RunInv, RunOK, PhaseOK, RegistryOK, DoneBy
      <3>2. \A t \in Looking : bound[r][t] = Nothing
        BY <3>1 DEF RunInv, RunOK, BoundOK
      <3> QED BY <1>2, <3>1, <3>2
    <2>2. PhaseOK(r)'
      BY <1>3, <2>1, LookingIs DEF PhaseOK
    <2>3. WatchOK(r)'
      BY <1>2 DEF RunInv, RegistryOK, WatchOK, Active, ActiveIn
    <2>4. BoundOK(r)'
      BY <2>1 DEF BoundOK
    <2>5. StillOK(r)'
      <3>1. pc'[r] = "failed" \/ DoneBy(pc'[r]) = {}
        BY <1>3 DEF DoneBy
      <3> QED BY <3>1, LookingIs DEF StillOK
    <2> QED BY <2>2, <2>3, <2>4, <2>5 DEF RunOK
  <1> QED BY <1>2, <1>7, <1>8, <1>9, OthersKeep DEF RunInv

\* A query that finds something, or finds that there is nothing.
LEMMA FindKeeps ==
  ASSUME SaveInv, RunInv, NEW r \in Runs, NEW x \in Looking, pc[r] = x,
         request[r].explicit[x] # Nothing => Accepts(r, x),
         bound' = [bound EXCEPT ![r][x] = Found(r, x)],
         Goto(r, NextTable(r)),
         UNCHANGED << mode, faults, request, config, registry, history >>
  PROVE  RunInv'
  <1> DEFINE v == Found(r, x)
             plain(t) == request[r].explicit[t] = Nothing
  <1>1. RunOK(r) /\ RegistryOK 
    BY DEF RunInv
  <1>2. /\ Active \subseteq seen[r] /\ bound[r][x] = Nothing
        /\ r \notin moved => activated = before[r]
    BY <1>1, TableOrder DEF RunOK, WatchOK, BoundOK
  <1>3. ASSUME plain(x)
        PROVE  LET fit == Fit(r, x, bound[r], activated) IN
               IF fit = {} THEN v = Nothing ELSE v \in fit /\ IsLatest(v, fit, activated)
    <2> DEFINE fit == Fit(r, x, bound[r], activated)
    <2>1. v = IF fit = {} THEN Nothing ELSE CHOOSE w \in fit : IsLatest(w, fit, activated)
      BY <1>3 DEF Found, Latest
    <2>2. ASSUME fit # {} PROVE \E w \in fit : IsLatest(w, fit, activated)
      <3>1. fit \in SUBSET Versions
        BY DEF Fit, ActiveIn
      <3>2. Earlier + changes \in Nat /\ activated \in [Versions -> 0..(Earlier + changes)]
        BY <1>1, CatalogAssumption, BoundsAssumption DEF RegistryOK
      <3> HIDE DEF fit
      <3> QED BY <2>2, <3>1, <3>2, LatestExists
    <2> HIDE DEF v
    <2> QED BY <2>1, <2>2
  <1>4. ASSUME ~ plain(x) PROVE v = request[r].explicit[x] /\ v \in Active /\ OfVersion(r, x, v)
    BY <1>4 DEF Found, Accepts
  <1>5. v \in Versions \cup {Nothing}
    <2>1. CASE plain(x)
      BY <1>3, <2>1 DEF Fit, ActiveIn
    <2>2. CASE ~ plain(x)
      BY <1>4, <2>2 DEF Active, ActiveIn
    <2> QED BY <2>1, <2>2
  <1> HIDE DEF v
  <1>6. /\ bound' = [bound EXCEPT ![r][x] = v]
        /\ bound'[r][x] = v /\ bound'[r] \in [Looking -> Versions \cup {Nothing}]
        /\ \A t \in Looking \ {x} : bound'[r][t] = bound[r][t]
        /\ \A b \in Runs \ {r} : bound'[b] = bound[b]
    BY <1>1, <1>5 DEF RegistryOK, v
  <1>7. /\ pc'[r] = NextTable(r) /\ pc'[r] \in Looking \cup {"decide"}
        /\ DoneBy(pc'[r]) = DoneBy(x) \cup {x}
        /\ \A b \in Runs \ {r} : pc'[b] = pc[b]
    BY GotoFrame, NextInOrder
  <1>8. RegistryOK'
    BY <1>1, <1>5, <1>6 DEF RegistryOK, registry, history, OneAtATime, ActiveIn
  <1>9. \A b \in Runs \ {r} : Kept(b)
    BY <1>6, <1>7 DEF Kept, history
  <1>10. ASSUME NEW t \in DoneBy(x) \cup {x}, NEW w
         PROVE  /\ Matching(r, t, bound[r], w)' <=> Matching(r, t, bound[r], w)
                /\ OfVersion(r, t, w)' <=> OfVersion(r, t, w)
    <2>1. config'[r] = config[r]
      OBVIOUS
    <2>2. ParentTable(t) # Nothing => bound'[r][ParentTable(t)] = bound[r][ParentTable(t)]
      BY <1>1, <1>6, TableOrder
    <2>3. OfVersion(r, t, w)' <=> OfVersion(r, t, w)
      BY <2>1, SameVersions
    <2> QED BY <2>2, <2>3 DEF Matching, ParentIn
  <1>11. ASSUME NEW t \in DoneBy(x) \cup {x}
         PROVE  Fit(r, t, bound[r], before[r])' = Fit(r, t, bound[r], before[r])
    BY <1>10 DEF Fit, ActiveIn, history
  <1>12. PhaseOK(r)'
    <2>1. mode[r] = "none" /\ config[r] \in Defaults
      BY <1>1, LookingIs DEF RunOK, PhaseOK
    <2> QED BY <1>7, <2>1, LookingIs DEF PhaseOK
  <1>13. WatchOK(r)'
    BY <1>2 DEF WatchOK, Active, ActiveIn, registry, history
  <1>14. BoundOK(r)'
    <2>1. \A t \in Looking \ DoneBy(pc'[r]) : bound'[r][t] = Nothing
      BY <1>1, <1>6, <1>7 DEF RunOK, BoundOK
    <2>2. ASSUME NEW t \in DoneBy(x), bound'[r][t] # Nothing
          PROVE  Tied(r, t, bound[r][t])'
      <3>1. t \in Looking \ {x}
        BY <1>1, TableOrder
      <3>2. bound'[r][t] = bound[r][t] /\ Tied(r, t, bound[r][t])
        BY <1>1, <1>6, <2>2, <3>1 DEF RunOK, BoundOK
      <3> QED BY <1>10, <3>2 DEF Tied, history
    <2>3. ASSUME v # Nothing PROVE Tied(r, x, bound[r][x])'
      <3>1. v \in seen[r] /\ OfVersion(r, x, v)
            /\ IF plain(x) THEN Matching(r, x, bound[r], v) ELSE v = request[r].explicit[x]
        <4>1. CASE plain(x)
          BY <1>2, <1>3, <2>3, <4>1 DEF Fit, Matching, Active, ActiveIn
        <4>2. CASE ~ plain(x)
          BY <1>2, <1>4, <4>2
        <4> QED BY <4>1, <4>2
      <3> QED BY <1>6, <1>10, <3>1 DEF Tied, history
    <2>4. \A t \in Looking : bound'[r][t] # Nothing => t \in DoneBy(x) \cup {x}
      BY <1>7, <2>1
    <2> QED BY <1>6, <2>1, <2>2, <2>3, <2>4 DEF BoundOK
  <1>15. StillOK(r)'
    <2> SUFFICES ASSUME r \notin moved, NEW t \in DoneBy(x) \cup {x}, plain(t)
                 PROVE  LatestOK(r, t)'
      BY <1>7 DEF StillOK, history
    <2> DEFINE fit == Fit(r, t, bound[r], before[r])
    <2>1. IF fit = {} THEN bound'[r][t] = Nothing ELSE IsLatest(bound'[r][t], fit, before[r])
      <3>1. CASE t = x
        BY <1>2, <1>3, <1>6, <3>1
      <3>2. CASE t # x
        <4>1. t \in DoneBy(x) /\ bound'[r][t] = bound[r][t]
          BY <1>1, <1>6, <3>2, TableOrder
        <4>2. LatestOK(r, t)
          BY <1>1, <4>1 DEF RunOK, StillOK
        <4> QED BY <4>1, <4>2 DEF LatestOK
      <3> QED BY <3>1, <3>2
    <2>2. before'[r] = before[r] /\ fit' = fit
      BY <1>11 DEF history
    <2> HIDE DEF fit
    <2>3. IF fit' = {} THEN bound'[r][t] = Nothing ELSE IsLatest(bound[r][t], fit, before[r])'
      BY <2>1, <2>2 DEF IsLatest
    <2> QED BY <2>3 DEF LatestOK, fit
  <1>16. RunOK(r)'
    BY <1>12, <1>13, <1>14, <1>15 DEF RunOK
  <1> QED BY <1>8, <1>9, <1>16, OthersKeep DEF RunInv, registry, history

\* A run that stops looking versions up, with what it has found or with nothing.
LEMMA EndKeeps ==
  ASSUME SaveInv, RunInv, NEW r \in Runs, NEW next \in {"running", "failed"}, Goto(r, next),
         NEW m \in {"resolved", "degraded"},
         pc[r] \in Looking \cup {"decide"},
         bound' = bound \/ bound' = [bound EXCEPT ![r] = Unbound],
         UNCHANGED << request, config, registry, history >>,
         faults' \in 0..MaxFaults,
         mode' = IF next = "failed" THEN mode ELSE [mode EXCEPT ![r] = m],
         next = "running" =>
           \/ m = "resolved" /\ Missing(bound[r]) = {} /\ bound' = bound /\ pc[r] = "decide"
           \/ m = "degraded" /\ ~ Explicit(r) /\ bound'[r] = Unbound
           \/ m = "degraded" /\ ~ Explicit(r) /\ Missing(bound[r]) # {} /\ bound' = bound
              /\ pc[r] = "decide"
  PROVE  RunInv'
  <1>1. RunOK(r) /\ RegistryOK
    BY DEF RunInv
  <1>2. /\ pc'[r] = next /\ DoneBy(next) = Looking
        /\ \A b \in Runs \ {r} : pc'[b] = pc[b]
    BY GotoFrame DEF DoneBy
  <1>3. Unbound \in [Looking -> Versions \cup {Nothing}] /\ \A t \in Looking : Unbound[t] = Nothing
    BY DEF Unbound, Looking
  <1>4. bound'[r] = bound[r] \/ bound'[r] = Unbound
    BY <1>1 DEF RegistryOK
  <1>5. \A b \in Runs \ {r} : bound'[b] = bound[b] /\ mode'[b] = mode[b]
    BY <1>1 DEF RegistryOK
  <1>6. bound' \in [Runs -> [Looking -> Versions \cup {Nothing}]]
    <2>1. CASE bound' = bound
      BY <1>1, <2>1 DEF RegistryOK
    <2>2. CASE bound' = [bound EXCEPT ![r] = Unbound]
      BY <1>1, <1>3, <2>2 DEF RegistryOK
    <2> QED BY <2>1, <2>2
  <1>7. mode[r] = "none" /\ config[r] \in Defaults
    BY <1>1, LookingIs DEF RunOK, PhaseOK
  <1>8. mode' \in [Runs -> {"none", "resolved", "degraded"}]
        /\ mode'[r] = IF next = "failed" THEN "none" ELSE m
    <2>1. CASE next = "failed"
      BY <1>1, <1>7, <2>1 DEF RegistryOK
    <2>2. CASE next # "failed"
      BY <1>1, <1>7, <2>2 DEF RegistryOK
    <2> QED BY <2>1, <2>2
  <1>9. RegistryOK'
    BY <1>1, <1>6, <1>8 DEF RegistryOK, registry, history, OneAtATime, ActiveIn
  <1>10. \A b \in Runs \ {r} : Kept(b)
    BY <1>2, <1>5 DEF Kept, history
  <1>11. PhaseOK(r)'
    BY <1>2, <1>4, <1>7, <1>8 DEF PhaseOK, Explicit, Missing
  <1>12. WatchOK(r)'
    BY <1>2, LookingIs DEF WatchOK
  <1>13. BoundOK(r)'
    <2>1. CASE bound'[r] = Unbound
      BY <1>2, <1>3, <2>1 DEF BoundOK
    <2>2. CASE bound'[r] = bound[r]
      <3>1. ASSUME NEW t \in Looking, bound'[r][t] # Nothing PROVE Tied(r, t, bound[r][t])'
        BY <1>1, <2>2, <3>1, SameBinding DEF RunOK, BoundOK, history
      <3> QED BY <1>2, <3>1 DEF BoundOK
    <2> QED BY <1>4, <2>1, <2>2
  <1>14. StillOK(r)'
    <2> SUFFICES ASSUME r \notin moved, next = "running", bound'[r] # Unbound,
                        NEW t \in Looking, request[r].explicit[t] = Nothing
                 PROVE  LatestOK(r, t)'
      BY <1>2, LookingIs DEF StillOK, history
    <2>1. pc[r] = "decide" /\ bound'[r] = bound[r]
      BY <1>4
    <2>2. LatestOK(r, t)
      BY <1>1, <2>1 DEF RunOK, StillOK, DoneBy
    <2> QED BY <2>1, <2>2, SameBinding DEF history
  <1>15. RunOK(r)'
    BY <1>11, <1>12, <1>13, <1>14 DEF RunOK
  <1> QED BY <1>9, <1>10, <1>15, OthersKeep DEF RunInv, registry, history

LEMMA DegradeMoves ==
  ASSUME RunInv, NEW r \in Runs, Degrade(r)
  PROVE  \E next \in {"running", "failed"} :
           /\ Goto(r, next)
           /\ mode' = IF next = "failed" THEN mode ELSE [mode EXCEPT ![r] = "degraded"]
           /\ next = "running" => ~ Explicit(r)
  <1>1. CASE Explicit(r)
    BY <1>1 DEF Degrade
  <1>2. CASE ~ Explicit(r)
    BY <1>2 DEF Degrade, RunInv, RegistryOK
  <1> QED BY <1>1, <1>2

LEMMA LookupKeeps ==
  ASSUME SaveInv, RunInv, NEW r \in Runs, Lookup(r)
  PROVE  RunInv'
  <1> DEFINE x == pc[r]
             given_id == request[r].explicit[x] # Nothing
  <1>1. x \in Looking /\ UNCHANGED << request, config, registry, history >>
    BY DEF Lookup
  <1>2. CASE /\ given_id => Accepts(r, x)
             /\ bound' = [bound EXCEPT ![r][x] = Found(r, x)]
             /\ Goto(r, NextTable(r))
             /\ UNCHANGED << mode, faults >>
    BY <1>1, <1>2, FindKeeps
  <1>3. CASE given_id /\ Degrade(r) /\ UNCHANGED << bound, faults >>
    <2>1. Explicit(r) /\ faults' \in 0..MaxFaults
      BY <1>1, <1>3 DEF Explicit, Looking, RunInv, RegistryOK
    <2> QED BY <1>1, <1>3, <2>1, DegradeMoves, EndKeeps
  <1> QED BY <1>2, <1>3 DEF Lookup

LEMMA QueryFailsKeeps ==
  ASSUME SaveInv, RunInv, NEW r \in Runs, QueryFails(r)
  PROVE  RunInv'
  <1>1. faults' \in 0..MaxFaults
    BY BoundsAssumption DEF QueryFails, RunInv, RegistryOK
  <1>2. bound' = [bound EXCEPT ![r] = Unbound] /\ bound'[r] = Unbound
    BY DEF QueryFails, RunInv, RegistryOK
  <1>3. /\ Degrade(r) /\ pc[r] \in Looking \cup {"decide"}
        /\ UNCHANGED << request, config, registry, history >>
    BY DEF QueryFails
  <1>4. PICK next \in {"running", "failed"} :
          /\ Goto(r, next)
          /\ mode' = IF next = "failed" THEN mode ELSE [mode EXCEPT ![r] = "degraded"]
          /\ next = "running" => ~ Explicit(r)
    BY <1>3, DegradeMoves
  <1> QED BY <1>1, <1>2, <1>3, <1>4, EndKeeps

LEMMA DecideKeeps ==
  ASSUME SaveInv, RunInv, NEW r \in Runs, Decide(r)
  PROVE  RunInv'
  <1>1. /\ pc[r] = "decide" /\ bound' = bound /\ faults' \in 0..MaxFaults
        /\ UNCHANGED << request, config, registry, history >>
    BY DEF Decide, RunInv, RegistryOK
  <1>2. CASE Missing(bound[r]) # {}
    BY <1>1, <1>2, DegradeMoves, EndKeeps DEF Decide
  <1>3. CASE Missing(bound[r]) = {}
    <2>1. mode' = [mode EXCEPT ![r] = "resolved"] /\ Goto(r, "running")
      BY <1>3 DEF Decide
    <2>2. mode'[r] = "resolved"
      BY <2>1 DEF RunInv, RegistryOK
    <2> QED BY <1>1, <1>3, <2>1, <2>2, EndKeeps
  <1> QED BY <1>2, <1>3


\* Savers leave runs and the registry alone.
LEMMA SaveKeepsRuns ==
  ASSUME SaveInv, RunInv, NEW s \in Savers, Save(s)
  PROVE  RunInv'
  <1>1. /\ UNCHANGED << binding, activated, history >>
        /\ changes' \in 0..MaxChanges /\ changes' \in {changes, changes + 1}
        /\ faults' \in 0..MaxFaults
    BY BoundsAssumption
       DEF Save, Prepare, Open, Close, Die, Change, registry, RunInv, RegistryOK
  <1>2. PICK next : Goto(s, next)
    BY DEF Save, Prepare, Open, Close, Die, Finish
  <1>3. \A r \in Runs : pc'[r] = pc[r]
    BY <1>2, GotoFrame, ActorsAssumption
  <1>4. RegistryOK'
    BY <1>1, CatalogAssumption
       DEF RunInv, RegistryOK, binding, history, OneAtATime, ActiveIn
  <1>5. \A r \in Runs : Kept(r)
    BY <1>1, <1>3 DEF Kept, binding, history
  <1>6. \A r \in Runs : RunOK(r)'
    BY <1>1, <1>5, ActorsAssumption, OthersKeep DEF history
  <1> QED BY <1>4, <1>6 DEF RunInv

LEMMA ShiftKeeps ==
  ASSUME RunInv, Shift,
         activated' \in [Versions -> 0..(Earlier + changes')], OneAtATime(activated)'
  PROVE  RunInv'
  <1> DEFINE looking == {r \in Runs : pc[r] \in Looking}
  <1>1. /\ UNCHANGED << pc, binding, faults, before >>
        /\ changes' \in 0..MaxChanges
        /\ moved' = moved \cup looking
        /\ seen' = [r \in Runs |-> IF r \in looking THEN seen[r] \cup ActiveIn(activated') ELSE seen[r]]
    BY BoundsAssumption DEF Shift, Change, RunInv, RegistryOK
  <1>2. seen' \in [Runs -> SUBSET Versions]
    BY <1>1 DEF RunInv, RegistryOK, ActiveIn
  <1>3. RegistryOK'
    BY <1>1, <1>2 DEF RunInv, RegistryOK, binding
  <1>4. ASSUME NEW r \in Runs PROVE RunOK(r)'
    <2>1. Kept(r) /\ RunOK(r) /\ bound[r] \in [Looking -> Versions \cup {Nothing}]
      BY <1>1 DEF Kept, binding, RunInv, RegistryOK
    <2>2. pc[r] \in Looking => Active' \subseteq seen'[r] /\ r \in moved'
      BY <1>1 DEF Active, ActiveIn
    <2> QED BY <2>1, <2>2, KeptRun
  <1> QED BY <1>3, <1>4 DEF RunInv

LEMMA ActivateKeeps ==
  ASSUME RunInv, Activate
  PROVE  RunInv'
  <1>1. PICK v \in Versions : activated' = [activated EXCEPT ![v] = Earlier + changes + 1]
    BY DEF Activate
  <1>2. /\ activated \in [Versions -> 0..(Earlier + changes)] /\ OneAtATime(activated)
        /\ changes' = changes + 1 /\ changes \in Nat /\ Earlier \in Nat
    BY CatalogAssumption DEF RunInv, RegistryOK, Activate, Shift, Change
  <1>3. activated' \in [Versions -> 0..(Earlier + changes')]
    BY <1>1, <1>2
  <1>4. OneAtATime(activated)'
    BY <1>1, <1>2 DEF OneAtATime, ActiveIn
  <1> QED BY <1>3, <1>4, ShiftKeeps DEF Activate

LEMMA DeprecateKeeps ==
  ASSUME RunInv, Deprecate
  PROVE  RunInv'
  <1>1. PICK v \in Versions : activated' = [activated EXCEPT ![v] = 0]
    BY DEF Deprecate, Active, ActiveIn
  <1>2. /\ activated \in [Versions -> 0..(Earlier + changes)] /\ OneAtATime(activated)
        /\ changes' = changes + 1 /\ changes \in Nat /\ Earlier \in Nat
    BY CatalogAssumption DEF RunInv, RegistryOK, Deprecate, Shift, Change
  <1>3. activated' \in [Versions -> 0..(Earlier + changes')]
    BY <1>1, <1>2
  <1>4. OneAtATime(activated)'
    BY <1>1, <1>2 DEF OneAtATime, ActiveIn
  <1> QED BY <1>3, <1>4, ShiftKeeps DEF Deprecate

-----------------------------------------------------------------------------
(* Theorems                                                                *)

ResolutionInv == SaveInv /\ RunInv

LEMMA InvKept == ResolutionInv /\ [Next]_vars => ResolutionInv'
  <1> SUFFICES ASSUME SaveInv, RunInv, [Next]_vars PROVE SaveInv' /\ RunInv'
    BY DEF ResolutionInv
  <1>1. ASSUME NEW s \in Savers, Save(s) PROVE SaveInv'
    <2>1. CASE Prepare(s)
      BY <2>1, PrepareKeeps
    <2>2. CASE Open(s)
      BY <2>2, OpenKeeps
    <2>3. CASE Close(s)
      BY <2>3, CloseKeeps
    <2>4. CASE Die(s)
      BY <2>4, DieKeeps
    <2> QED BY <1>1, <2>1, <2>2, <2>3, <2>4 DEF Save
  <1>2. ASSUME NEW r \in Runs, Run(r) PROVE SaveInv'
    <2>1. UNCHANGED << defaults, intent >>
      BY <1>2 DEF Run, Resolve, Lookup, QueryFails, Decide
    <2>2. PICK next : Goto(r, next)
      BY <1>2 DEF Run, Resolve, Lookup, QueryFails, Decide, Degrade
    <2>3. \A s \in Savers : s \in (Savers \cup Runs) \ {r}
      BY ActorsAssumption
    <2>4. /\ \A s \in Savers : pc'[s] = pc[s]
          /\ pc' = [a \in Savers \cup Runs |-> pc'[a]]
      BY <2>2, <2>3, GotoFrame
    <2> QED BY <2>1, <2>4, SavesRest
  <1>3. ASSUME NEW r \in Runs, Run(r) PROVE RunInv'
    BY <1>3, ResolveKeeps, LookupKeeps, QueryFailsKeeps, DecideKeeps DEF Run
  <1>4. ASSUME Activate \/ Deprecate PROVE SaveInv' /\ RunInv'
    <2>1. UNCHANGED << defaults, intent, pc >>
      BY <1>4 DEF Activate, Deprecate, Shift
    <2>2. SaveInv'
      BY <2>1, SavesRest DEF SaveInv
    <2> QED BY <1>4, <2>2, ActivateKeeps, DeprecateKeeps
  <1>5. ASSUME UNCHANGED vars PROVE SaveInv' /\ RunInv'
    <2>1. UNCHANGED << defaults, intent, pc, binding, registry, faults, history >>
      BY <1>5 DEF vars
    <2>2. SaveInv'
      BY <2>1, SavesRest DEF SaveInv
    <2>3. \A r \in Runs : Kept(r)
      BY <2>1 DEF Kept, binding, history
    <2>4. \A r \in Runs : RunOK(r)'
      BY <2>1, <2>3, OthersKeep DEF registry, history
    <2>5. RegistryOK'
      BY <2>1 DEF RunInv, RegistryOK, binding, registry, history, OneAtATime, ActiveIn
    <2> QED BY <2>2, <2>4, <2>5 DEF RunInv
  <1> QED BY <1>1, <1>2, <1>3, <1>4, <1>5, SaveKeepsRuns DEF Next

LEMMA Invariance == Spec => []ResolutionInv
  <1>1. Init => ResolutionInv
    BY InitSaves, InitRuns DEF ResolutionInv
  <1> QED BY <1>1, InvKept, PTL DEF Spec

\* Whatever the registries and the requests: savers and runs go through their
\* operations in order, nothing is written that is not selectable, and the times of
\* activation stay distinct.
THEOREM ResolutionTypes == Spec => []TypeOK
  <1>1. ResolutionInv => TypeOK
    BY DEF ResolutionInv, SaveInv, FileOK, SaverOK, RunInv, RegistryOK, RunOK, PhaseOK, TypeOK
  <1> QED BY <1>1, Invariance, PTL

\* However many operators save, and at any time: as long as saves take turns and none
\* is broken off while the file is open, the file holds what they add up to.
THEOREM SavesAreAddedUp == Spec => []SavesAddUp
  <1>1. ResolutionInv => SavesAddUp
    BY DEF ResolutionInv, SaveInv, Serial, SavesAddUp
  <1> QED BY <1>1, Invariance, PTL

\* Whatever is activated and deprecated between the lookups, a run that goes on as
\* resolved is bound to versions of its own policy and bundle that were active while
\* it looked, each a child of the one it is bound to.
THEOREM BindingsHold == Spec => []BindingHoldsTogether
  <1>1. ASSUME ResolutionInv, NEW r \in Runs, pc[r] = "running"
        PROVE  /\ Explicit(r) => mode[r] = "resolved"
               /\ mode[r] = "resolved" => Missing(bound[r]) = {}
               /\ \A t \in Looking : bound[r][t] # Nothing => Tied(r, t, bound[r][t])
    BY <1>1 DEF ResolutionInv, RunInv, RunOK, PhaseOK, BoundOK
  <1>2. ResolutionInv => BindingHoldsTogether
    BY <1>1 DEF Tied, BindingHoldsTogether
  <1> QED BY <1>2, Invariance, PTL

\* For any catalog: a run that nobody disturbs is bound to what was activated last,
\* and goes on degraded only without a required version.
THEOREM UndisturbedBindings == Spec => []UndisturbedBinding
  <1>1. ASSUME ResolutionInv, NEW r \in Runs \ moved, pc[r] = "running", bound[r] # Unbound
        PROVE  /\ mode[r] = "degraded" <=> Missing(bound[r]) # {}
               /\ \A t \in Looking : request[r].explicit[t] = Nothing => LatestOK(r, t)
    <2>1. RunOK(r) /\ mode[r] \in {"none", "resolved", "degraded"} /\ DoneBy(pc[r]) = Looking
      BY <1>1 DEF ResolutionInv, RunInv, RegistryOK, DoneBy
    <2> QED BY <1>1, <2>1 DEF RunOK, PhaseOK, StillOK
  <1>2. ResolutionInv => UndisturbedBinding
    BY <1>1 DEF LatestOK, UndisturbedBinding
  <1> QED BY <1>2, Invariance, PTL

=============================================================================
