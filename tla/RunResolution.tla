--------------------------- MODULE RunResolution ---------------------------
(***************************************************************************)
(* What a run is made of before it starts: the operator defaults, a file   *)
(* that operators save and everybody reads without a lock                  *)
(* (control_plane.py, delivery_registry.py), and the versions of the       *)
(* control-plane registry that it is bound to, found one query after the   *)
(* other while versions are activated and deprecated                       *)
(* (control_plane_registry_lineage_repository.py, run_flow.py).            *)
(*                                                                         *)
(* An action is one operation on the file or one query, with what the code *)
(* computes up to the next one.  The integration, delivery and policy      *)
(* registries are files of the repository and do not change.               *)
(***************************************************************************)
EXTENDS Integers, Sequences, SequencesExt

CONSTANTS
  Savers,         \* requests that save the defaults: the form or the API
  Runs,
  PolicyList,     \* policies in file order, each with its version and activity
  ProfileList,    \* integration profiles in file order
  TargetList,     \* delivery targets in file order
  BuiltInPolicy,  \* POLICY_VERSION of config.py
  Nothing,        \* a field that is not given, an id that is not found
  Length,         \* id -> how long it is in the file
  OldFiles,       \* what an earlier release may have left in the file
  Saves,          \* bound: what may be saved
  Requests,       \* bound: what runs may be asked for
  Catalog,        \* version id -> its table, key, version and parent
  Earlier,        \* when the last version was activated before all this
  Registries,     \* bound: what may be active then, version id -> activated_at or 0
  BundleVersion,  \* "feature_set" and "model" -> the version of the bundle
  MaxChanges,     \* bound: saves, activations and deprecations
  MaxFaults       \* bound: savers that die, queries that fail

Tables == << "feature_set", "model", "policy", "embedding_model", "audience_definition" >>
Required == {"feature_set", "model", "policy", "embedding_model"}
Fields == {"policy", "profile", "target"}
Versions == DOMAIN Catalog

Policies == {p.version : p \in ToSet(PolicyList)}
Profiles == {p.id : p \in ToSet(ProfileList)}
Targets == {t.id : t \in ToSet(TargetList)}
ProfileOf(id) == CHOOSE p \in ToSet(ProfileList) : p.id = id
TargetOf(id) == CHOOSE t \in ToSet(TargetList) : t.id = id

VARIABLES
  file,        \* operator_state.json
  pc,          \* saver or run -> the next operation
  payload,     \* saver -> what it is going to write
  request,     \* run -> what it was asked for
  config,      \* run -> the policy, profile and target it resolved
  bound,       \* run -> table -> the version id found
  mode,        \* run -> "resolved" or "degraded", once it goes on
  activated,   \* version id -> activated_at, or 0 unless it is active
  changes,     \* saves, activations and deprecations so far
  faults,
  given,       \* saver -> the fields that it was given
  meant,       \* the defaults, if every save were one step
  disturbed,   \* two saves were under way at a time, or one was broken off
  before,      \* run -> activated, when it began to look versions up
  seen,        \* run -> ids that were active at some moment since
  moved        \* runs whose lookups had a transition between them

defaults == << file, payload >>
binding == << request, config, bound, mode >>
registry == << activated, changes >>
intent == << given, meant, disturbed >>
history == << before, seen, moved >>
vars == << defaults, pc, binding, registry, faults, intent, history >>

-----------------------------------------------------------------------------
(* The defaults                                                            *)

\* ensure_delivery_target_compatible_with_export, for the export of the profile.  Every
\* profile of the registry names an export that it has, so nothing raises in
\* finding it (control_plane.py:264 and 315).
Compatible(profile, target) == TargetOf(target).needs => ProfileOf(profile).staging

SelectableProfile(id) == id \in Profiles /\ ProfileOf(id).implemented
SelectableTarget(id) == id \in Targets /\ TargetOf(id).implemented

\* What save_operator_defaults demands of all three.
Selectable(d) ==
  /\ d.policy \in Policies
  /\ SelectableProfile(d.profile)
  /\ SelectableTarget(d.target)
  /\ Compatible(d.profile, d.target)

Defaults == {d \in [policy: Policies, profile: Profiles, target: Targets] : Selectable(d)}

\* _default_profile_and_delivery_target: the first pair, in file order.
Pairs == {at \in (DOMAIN ProfileList) \X (DOMAIN TargetList) :
            /\ ProfileList[at[1]].implemented /\ TargetList[at[2]].implemented
            /\ Compatible(ProfileList[at[1]].id, TargetList[at[2]].id)}
IsFirstPair(at) == \A other \in Pairs :
                     at[1] < other[1] \/ (at[1] = other[1] /\ at[2] <= other[2])
FirstPair == CHOOSE at \in Pairs : IsFirstPair(at)

IsFirstActive(k) == PolicyList[k].active /\ \A l \in 1..(k - 1) : ~ PolicyList[l].active
DefaultPolicy ==
  IF \E k \in DOMAIN PolicyList : IsFirstActive(k)
  THEN PolicyList[CHOOSE k \in DOMAIN PolicyList : IsFirstActive(k)].version
  ELSE BuiltInPolicy

Fallback ==
  [policy  |-> DefaultPolicy,
   profile |-> ProfileList[FirstPair[1]].id,
   target  |-> TargetList[FirstPair[2]].id]

\* Without a pair, or without the built-in policy, no defaults could be loaded.
ASSUME RegistriesAssumption ==
  /\ \A p, q \in ToSet(ProfileList) : p.id = q.id => p = q
  /\ \A p, q \in ToSet(TargetList) : p.id = q.id => p = q
  /\ \E at \in Pairs : IsFirstPair(at)
  /\ BuiltInPolicy \in Policies

Payloads == [Fields -> DOMAIN Length]
ASSUME FilesAssumption ==
  /\ OldFiles \subseteq Payloads
  /\ Length \in [DOMAIN Length -> Nat]
  /\ Policies \cup Profiles \cup Targets \cup {Nothing} \subseteq DOMAIN Length
  /\ Nothing \notin Policies \cup Profiles \cup Targets
ASSUME ActorsAssumption == Savers \cap Runs = {}
ASSUME BoundsAssumption == MaxChanges \in Nat /\ MaxFaults \in Nat
ASSUME SavesAssumption ==
  /\ Saves \subseteq Payloads
  /\ \A s \in Saves : \E f \in Fields : s[f] # Nothing

\* Mutant: each field is made selectable, the pair is not looked at.
ValidAlone(d) ==
  [policy  |-> IF d.policy \in Policies THEN d.policy ELSE Fallback.policy,
   profile |-> IF SelectableProfile(d.profile) THEN d.profile ELSE Fallback.profile,
   target  |-> IF SelectableTarget(d.target) THEN d.target ELSE Fallback.target]

\* load_operator_defaults, of a file that parses
Valid(d) ==
  LET policy == IF d.policy \in Policies THEN d.policy ELSE Fallback.policy
      profile == IF SelectableProfile(d.profile) THEN d.profile ELSE Fallback.profile
      target == IF SelectableTarget(d.target) THEN d.target ELSE Fallback.target IN
  IF Compatible(profile, target)
  THEN [policy |-> policy, profile |-> profile, target |-> target]
  ELSE [Fallback EXCEPT !.policy = policy]

Absent == << >>
Size(d) == 2 + Length[d.policy] + Length[d.profile] + Length[d.target]
Written(d) == [text |-> d, size |-> Size(d)]
Truncated == [text |-> [f \in Fields |-> Nothing], size |-> 0]

\* An empty file does not parse, nor one with the end of a longer text behind it.
Parses == file # Absent => file.size = Size(file.text)
Loaded == IF file = Absent THEN Fallback ELSE Valid(file.text)

\* The fields that are given, over d.
Over(d, fields) == [f \in Fields |-> IF fields[f] = Nothing THEN d[f] ELSE fields[f]]

-----------------------------------------------------------------------------
(* Types                                                                   *)

\* explicit: the *_version_id of the request, of which some may not exist.
NoRequest == [policy |-> Nothing, profile |-> Nothing, target |-> Nothing,
              explicit |-> [t \in ToSet(Tables) |-> Nothing]]
NoConfig == [f \in Fields |-> Nothing]
Unbound == [t \in ToSet(Tables) |-> Nothing]
Explicit(r) == \E t \in ToSet(Tables) : request[r].explicit[t] # Nothing
Position(r) == CHOOSE k \in DOMAIN Tables : pc[r] = Tables[k]
Looking == ToSet(Tables)

ActiveIn(times) == {v \in Versions : times[v] > 0}
Active == ActiveIn(activated)
OneAtATime(times) == \A v, w \in ActiveIn(times) : times[v] = times[w] => v = w

ASSUME CatalogAssumption ==
  /\ Catalog \in [Versions -> [table: Looking, key: STRING, version: STRING,
                               parent: Versions \cup {Nothing}]]
  /\ Nothing \notin Versions
  /\ Earlier \in Nat
  /\ Registries \subseteq [Versions -> 0..Earlier]
  /\ \A times \in Registries : OneAtATime(times)
  /\ \A q \in Requests : DOMAIN q = Fields \cup {"explicit"} /\ DOMAIN q.explicit = Looking

TypeOK ==
  /\ file = Absent \/ (file.text \in Payloads /\ file.size \in Nat)
  /\ pc \in [Savers \cup Runs ->
               {"idle", "open", "close", "decide", "running", "failed"} \cup Looking]
  /\ \A s \in Savers : pc[s] \in {"open", "close"} => payload[s] \in Defaults
  /\ given \in [Savers -> Saves \cup {NoConfig}]
  /\ request \in [Runs -> Requests \cup {NoRequest}]
  /\ \A r \in Runs : pc[r] \notin {"idle", "failed"} => config[r] \in Defaults
  /\ bound \in [Runs -> [Looking -> Versions \cup {Nothing}]]
  /\ \A r \in Runs : mode[r] # "none" <=> pc[r] = "running"
  /\ mode \in [Runs -> {"none", "resolved", "degraded"}]
  /\ activated \in [Versions -> 0..(Earlier + changes)] /\ OneAtATime(activated)
  /\ meant \in Defaults
  /\ disturbed \in BOOLEAN
  /\ \A r \in Runs : before[r] \in [Versions -> Nat] /\ seen[r] \subseteq Versions
  /\ moved \subseteq Runs
  /\ changes \in 0..MaxChanges
  /\ faults \in 0..MaxFaults

Init ==
  /\ file \in {Absent} \cup {Written(d) : d \in OldFiles}
  /\ pc = [a \in Savers \cup Runs |-> "idle"]
  /\ payload = [s \in Savers |-> NoConfig]
  /\ request = [r \in Runs |-> NoRequest]
  /\ config = [r \in Runs |-> NoConfig]
  /\ bound = [r \in Runs |-> Unbound]
  /\ mode = [r \in Runs |-> "none"]
  /\ activated \in Registries
  /\ changes = 0
  /\ faults = 0
  /\ given = [s \in Savers |-> NoConfig]
  /\ meant = Loaded
  /\ disturbed = FALSE
  /\ before = [r \in Runs |-> activated]
  /\ seen = [r \in Runs |-> {}]
  /\ moved = {}

Change == changes < MaxChanges /\ changes' = changes + 1

Goto(a, next) == pc' = [pc EXCEPT ![a] = next]

-----------------------------------------------------------------------------
(* save_operator_defaults                                                  *)

\* A file that does not parse raises, as does a choice that is not selectable.
Prepare(s) ==
  /\ pc[s] = "idle"
  /\ Change
  /\ Parses
  /\ \E fields \in Saves :
       /\ Selectable(Over(Loaded, fields))
       /\ payload' = [payload EXCEPT ![s] = Over(Loaded, fields)]
       /\ given' = [given EXCEPT ![s] = fields]
  /\ disturbed' = (disturbed \/ \E other \in Savers \ {s} : pc[other] # "idle")
  /\ Goto(s, "open")
  /\ UNCHANGED << file, binding, activated, faults, meant, history >>

\* Mutant: opened for writing where it is, as "r+" does.
OpenInPlace(s) ==
  /\ pc[s] = "open"
  /\ file' = IF file = Absent THEN Truncated ELSE file
  /\ Goto(s, "close")
  /\ UNCHANGED << payload, binding, registry, faults, intent, history >>

Open(s) ==
  /\ pc[s] = "open"
  /\ file' = Truncated
  /\ Goto(s, "close")
  /\ UNCHANGED << payload, binding, registry, faults, intent, history >>

Finish(s) ==
  /\ Goto(s, "idle")
  /\ payload' = [payload EXCEPT ![s] = NoConfig]
  /\ given' = [given EXCEPT ![s] = NoConfig]

\* The text is short: close() writes it, from the start of the file.
Close(s) ==
  /\ pc[s] = "close"
  /\ LET size == Size(payload[s]) IN
     file' = [text |-> payload[s],
              size |-> IF file.size > size THEN file.size ELSE size]
  /\ meant' = IF disturbed THEN meant ELSE Over(meant, given[s])
  /\ Finish(s)
  /\ UNCHANGED << binding, registry, faults, disturbed, history >>

Die(s) ==
  /\ pc[s] # "idle"
  /\ faults < MaxFaults
  /\ faults' = faults + 1
  /\ disturbed' = (disturbed \/ pc[s] = "close")
  /\ Finish(s)
  /\ UNCHANGED << file, binding, registry, meant, history >>

-----------------------------------------------------------------------------
(* resolve_run_configuration                                               *)

Resolve(r) ==
  /\ pc[r] = "idle"
  /\ \E q \in Requests :
       LET chosen == Over(Loaded, [f \in Fields |-> q[f]]) IN
       /\ request' = [request EXCEPT ![r] = q]
       /\ IF Parses /\ Selectable(chosen) /\ ProfileOf(chosen.profile).ready
          THEN config' = [config EXCEPT ![r] = chosen] /\ Goto(r, Tables[1])
          ELSE UNCHANGED config /\ Goto(r, "failed")
  /\ before' = [before EXCEPT ![r] = activated]
  /\ seen' = [seen EXCEPT ![r] = Active]
  /\ UNCHANGED << defaults, bound, mode, registry, faults, intent, moved >>

-----------------------------------------------------------------------------
(* resolve_run_lineage_binding                                             *)

Expected(r, table) ==
  CASE table = "policy"                      -> config[r].policy
    [] table \in DOMAIN BundleVersion        -> BundleVersion[table]
    [] OTHER                                 -> Nothing

ParentTable(table) ==
  CASE table = "embedding_model"     -> "model"
    [] table = "audience_definition" -> "feature_set"
    [] OTHER                         -> Nothing

ParentIn(ids, table) == IF ParentTable(table) = Nothing THEN Nothing ELSE ids[ParentTable(table)]

OfVersion(r, table, v) ==
  /\ v \in Versions /\ Catalog[v].table = table
  /\ Expected(r, table) # Nothing => Catalog[v].version = Expected(r, table)

\* The active ids of a table that a run may be bound to, beside the ids it has.
Matching(r, table, ids, v) ==
  /\ OfVersion(r, table, v)
  /\ ParentIn(ids, table) # Nothing => Catalog[v].parent = ParentIn(ids, table)

\* ORDER BY activated_at DESC LIMIT 1
Fit(r, table, ids, times) == {v \in ActiveIn(times) : Matching(r, table, ids, v)}
IsLatest(v, fit, times) == v \in fit /\ \A w \in fit : times[w] <= times[v]
Latest(r, table, ids) ==
  LET fit == Fit(r, table, ids, activated) IN
  IF fit = {} THEN Nothing ELSE CHOOSE v \in fit : IsLatest(v, fit, activated)

\* An explicit id has to be active and of the version; its parent is not asked for.
Accepts(r, table) ==
  LET id == request[r].explicit[table] IN id \in Active /\ OfVersion(r, table, id)

Found(r, table) ==
  IF request[r].explicit[table] # Nothing THEN request[r].explicit[table]
  ELSE Latest(r, table, bound[r])

NextTable(r) ==
  IF Position(r) = Len(Tables) THEN "decide" ELSE Tables[Position(r) + 1]

\* Mutant: resolve_run_lineage_binding is left to degrade, whatever was asked for.
NeverRaise(r) == mode' = [mode EXCEPT ![r] = "degraded"] /\ Goto(r, "running")

\* Without explicit ids the run goes on, with what it has.
Degrade(r) ==
  IF Explicit(r) THEN UNCHANGED mode /\ Goto(r, "failed")
  ELSE mode' = [mode EXCEPT ![r] = "degraded"] /\ Goto(r, "running")

\* Mutant: any active child of the table will do.
LookupAny(r) ==
  /\ pc[r] \in Looking
  /\ LET table == pc[r] IN
     \/ /\ request[r].explicit[table] # Nothing => Accepts(r, table)
        /\ bound' = [bound EXCEPT ![r][table] =
             IF request[r].explicit[table] # Nothing THEN request[r].explicit[table]
             ELSE Latest(r, table, Unbound)]
        /\ Goto(r, NextTable(r))
        /\ UNCHANGED << mode, faults >>
     \/ /\ request[r].explicit[table] # Nothing /\ ~ Accepts(r, table)
        /\ Degrade(r)
        /\ UNCHANGED << bound, faults >>
  /\ UNCHANGED << defaults, request, config, registry, intent, history >>

\* One query.  An explicit id that it refuses ends all.
Lookup(r) ==
  /\ pc[r] \in Looking
  /\ LET table == pc[r]
         explicit == request[r].explicit[table] # Nothing IN
     \/ /\ explicit => Accepts(r, table)
        /\ bound' = [bound EXCEPT ![r][table] = Found(r, table)]
        /\ Goto(r, NextTable(r))
        /\ UNCHANGED << mode, faults >>
     \/ /\ explicit /\ ~ Accepts(r, table)
        /\ Degrade(r)
        /\ UNCHANGED << bound, faults >>
  /\ UNCHANGED << defaults, request, config, registry, intent, history >>

\* One of them fails, or the one after them, about the provider of the embedding model.
QueryFails(r) ==
  /\ pc[r] \in Looking \/ (pc[r] = "decide" /\ bound[r]["embedding_model"] # Nothing)
  /\ faults < MaxFaults
  /\ faults' = faults + 1
  /\ bound' = [bound EXCEPT ![r] = Unbound]
  /\ Degrade(r)
  /\ UNCHANGED << defaults, request, config, registry, intent, history >>

Missing(ids) == {t \in Required : ids[t] = Nothing}

Decide(r) ==
  /\ pc[r] = "decide"
  /\ IF Missing(bound[r]) # {} THEN Degrade(r)
     ELSE mode' = [mode EXCEPT ![r] = "resolved"] /\ Goto(r, "running")
  /\ UNCHANGED << defaults, request, config, bound, registry, faults, intent, history >>

-----------------------------------------------------------------------------
(* The registry: at most one active version of a key                       *)

Shift ==
  /\ Change
  /\ LET looking == {r \in Runs : pc[r] \in Looking} IN
     /\ moved' = moved \cup looking
     /\ seen' = [r \in Runs |-> IF r \in looking THEN seen[r] \cup ActiveIn(activated') ELSE seen[r]]
  /\ UNCHANGED << defaults, pc, binding, faults, intent, before >>

Activate ==
  /\ \E v \in Versions \ Active :
       /\ \A w \in Active :
            Catalog[w].table = Catalog[v].table => Catalog[w].key # Catalog[v].key
       /\ activated' = [activated EXCEPT ![v] = Earlier + changes + 1]
  /\ Shift

Deprecate ==
  /\ \E v \in Active : activated' = [activated EXCEPT ![v] = 0]
  /\ Shift

Save(s) == Prepare(s) \/ Open(s) \/ Close(s) \/ Die(s)
Run(r) == Resolve(r) \/ Lookup(r) \/ QueryFails(r) \/ Decide(r)

Next ==
  \/ \E s \in Savers : Save(s)
  \/ \E r \in Runs : Run(r)
  \/ Activate \/ Deprecate

Spec == Init /\ [][Next]_vars

-----------------------------------------------------------------------------
(* Properties                                                              *)

\* Operators save any fields of the defaults, the others are read, changed and
\* written back, and the file is emptied before it is written.  As long as no two
\* saves overlap and none is broken off while the file is open, what is loaded
\* between them is what the saves add up to.  Overlapping saves lose fields and may
\* leave a file that nobody can read again, nor save over; so does a save that is
\* broken off.  (control_plane.py:282)
SavesAddUp ==
  ~ disturbed /\ (\A s \in Savers : pc[s] # "close") => Parses /\ Loaded = meant

\* A run that goes on as resolved has every required version, each was active at
\* some moment since it began, and one that was looked up belongs to the parent
\* that is bound; explicit ids are bound as they were given.  A run with explicit
\* ids never goes on without.  (control_plane_registry_lineage_repository.py:118)
BindingHoldsTogether ==
  \A r \in Runs : pc[r] = "running" =>
    /\ Explicit(r) => mode[r] = "resolved"
    /\ mode[r] = "resolved" =>
         /\ Missing(bound[r]) = {}
         /\ \A t \in Looking : bound[r][t] # Nothing =>
              /\ bound[r][t] \in seen[r]
              /\ OfVersion(r, t, bound[r][t])
              /\ IF request[r].explicit[t] # Nothing
                 THEN bound[r][t] = request[r].explicit[t]
                 ELSE Matching(r, t, bound[r], bound[r][t])

\* The five lookups see five states of the registry.  Unless a version is activated
\* or deprecated between them they find one consistent set: a run is bound to the
\* versions activated last among those that fit, and it degrades only if there is no
\* such version of a required table, or the registry cannot be read.
\* (control_plane_registry_lineage_repository.py:131)
UndisturbedBinding ==
  \A r \in Runs \ moved : pc[r] = "running" /\ bound[r] # Unbound =>
    /\ mode[r] = "degraded" <=> Missing(bound[r]) # {}
    /\ \A t \in Looking : request[r].explicit[t] = Nothing =>
         LET fit == Fit(r, t, bound[r], before[r]) IN
         IF fit = {} THEN bound[r][t] = Nothing ELSE IsLatest(bound[r][t], fit, before[r])

=============================================================================
