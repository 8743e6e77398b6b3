---------------------------- MODULE PolicyEngine ----------------------------
(***************************************************************************)
(* The policy gate of a run (policy_engine.py, policy_inputs.py) on its    *)
(* two input files, which every run and make generate rewrite in place     *)
(* (synthetic_data.py), and what is audited and exported by its verdicts   *)
(* (run_flow.py, policy_decision_audit.py).                                *)
(*                                                                         *)
(* An action is one operation on a file, one rule tried on one candidate,  *)
(* or one call that hands results on.  All writers write the same rows,    *)
(* the seed of the generator is fixed.                                     *)
(***************************************************************************)
EXTENDS Integers, Sequences, FiniteSets

CONSTANTS
  Callers,      \* processes that generate the input files
  Runs,         \* those that go on to evaluate a policy
  Customers,
  Policies,     \* policy registry: each a sequence of rules, in file order
  Reasons,      \* codes of reason_codes.yaml
  Searches,     \* what a retrieval may return: sequences of candidates
  Blacklist,    \* the customers that the generator writes to the blacklist
  History,      \* the rows that it writes to the communication history
  CampaignOf,   \* run -> its campaign
  Channel,      \* "email", the channel of all runs
  NoPriority,   \* a rule without a priority
  NoFlag,       \* a history row without an active_flag
  SystemRule,   \* system.fail_closed.required_input
  SystemReason, \* POLICY_FAIL_CLOSED_REQUIRED_INPUT
  MaxFaults     \* bound: inputs that cannot be read, processes that die

\* The fields that _build_policy_input takes from the payload of a point.
Payload == {"do_not_contact_flag", "is_employee_flag", "customer_tenure_months",
            "delinquency_12m_count", "opt_out_flag", "legal_suppression_flag"}

ASSUME RunsAssumption == Runs \subseteq Callers
ASSUME HistoryAssumption == History \in Seq([customer: Customers, age: Nat,
                                             channel: STRING, outcome: STRING,
                                             campaign: STRING, active: BOOLEAN \cup {NoFlag}])
ASSUME BlacklistAssumption == Blacklist \subseteq Customers
\* A search returns points of one collection, whose id is a hash of the customer.
ASSUME SearchesAssumption ==
  \A found \in Searches :
    /\ found \in Seq([customer: Customers, score: Int, facts: [Payload -> Int]])
    /\ \A i, j \in DOMAIN found : found[i].customer = found[j].customer => i = j
ASSUME PoliciesAssumption ==
  \A rules \in Policies :
    /\ rules \in Seq([id: Nat, enabled: BOOLEAN, priority: Int \cup {NoPriority},
                      connective: STRING,
                      when: Seq([field: STRING, op: STRING, value: Int]),
                      action: STRING, reason: STRING, stop: BOOLEAN])
    /\ NoPriority \notin Int
    /\ SystemRule \notin DOMAIN rules
ASSUME ReasonsAssumption == SystemReason \in Reasons
ASSUME FaultsAssumption == MaxFaults \in Nat

VARIABLES
  blacklist,  \* the blacklist file: the customers whose lines are in it
  history,    \* the history file: which halves of its lines are in it
  pc,         \* caller -> the next operation
  position,   \* caller -> halves of history lines it has written to the file
  rules,      \* run -> the rules of its policy version
  size,       \* run -> requested_size
  candidates, \* run -> the customers retrieved
  black,      \* run -> the blacklist it has read
  contacts,   \* run -> how many rows of the history it has read
  ready,      \* run -> no required input has failed
  rest,       \* run -> places of the rules not yet tried on the candidate
  reasons,    \* run -> places of the rules that reject the candidate
  results,    \* run -> candidate -> the reasons against it
  counts,     \* run -> reason_counts
  selected,   \* run -> customers selected
  audited,    \* run -> customers in its rows of audience_run_selected
  decisions,  \* run -> its rows of policy_decision_audit
  exported,   \* run -> customers handed to the export
  misled,     \* run -> who was, or died, in a file that it read too short
  faults

files == << blacklist, history, position >>
task == << rules, size, candidates >>
inputs == << black, contacts, ready, misled >>
verdicts == << rest, reasons, results, counts >>
outputs == << selected, audited, decisions, exported >>
vars == << files, pc, task, inputs, verdicts, outputs, faults >>

-----------------------------------------------------------------------------
(* Rules                                                                   *)

\* The context that the rules of a run see: the payload of the candidate, the
\* blacklist, and the history as it is counted on the day of the evaluation.
Known == Payload \cup
         {"is_blacklisted", "contacts_last_7d", "contacts_last_30d", "contacts_last_90d",
          "cooldown_after_refusal_active", "campaign_conflict_active"}

Refusals == {"refused", "declined", "opt_out", "optout", "unsubscribed"}
RefusalCooldown == 30
Bit(b) == IF b THEN 1 ELSE 0

\* The first n rows that are about customer c, by the channel of runs.
RowsOf(c, n) ==
  {h \in 1..n : History[h].customer = c /\ History[h].channel = Channel}

ContactsWithin(days, c, n) == Cardinality({h \in RowsOf(c, n) : History[h].age <= days})

CooldownActive(c, n) ==
  \E h \in RowsOf(c, n) :
    History[h].outcome \in Refusals /\ History[h].age <= RefusalCooldown

ActiveRow(h) ==
  IF History[h].active = NoFlag THEN History[h].outcome = "active" ELSE History[h].active

\* No campaign is named as conflicting by the callers, so any other is.
ConflictActive(r, c, n) ==
  \E h \in RowsOf(c, n) : History[h].campaign # CampaignOf[r] /\ ActiveRow(h)

\* _build_candidate_context, by the inputs bl and n
Context(r, x, bl, n) ==
  [f \in Known |->
     CASE f = "is_blacklisted"                -> Bit(x.customer \in bl)
       [] f = "contacts_last_7d"              -> ContactsWithin(7, x.customer, n)
       [] f = "contacts_last_30d"             -> ContactsWithin(30, x.customer, n)
       [] f = "contacts_last_90d"             -> ContactsWithin(90, x.customer, n)
       [] f = "cooldown_after_refusal_active" -> Bit(CooldownActive(x.customer, n))
       [] f = "campaign_conflict_active"      -> Bit(ConflictActive(r, x.customer, n))
       [] OTHER                               -> x.facts[f]]

\* A field that is not in the context is None: equal to no value, and less than none.
\* An operator that is not one of these raises too.
CannotCompare(c) ==
  \/ c.op \notin {"==", "!=", ">", "<", ">=", "<="}
  \/ c.field \notin Known /\ c.op \notin {"==", "!="}

Holds(c, context) ==
  /\ ~ CannotCompare(c)
  /\ IF c.field \notin Known THEN c.op = "!="
     ELSE LET x == context[c.field] IN
          \/ x = c.value /\ c.op \in {"==", ">=", "<="}
          \/ x < c.value /\ c.op \in {"!=", "<", "<="}
          \/ x > c.value /\ c.op \in {"!=", ">", ">="}

\* The condition of a rule: a comparison, or a connective over comparisons.  "in" is
\* an "or" of equalities; connectives inside of connectives are left out.
\* all() and any() stop at the comparison that settles it.
Reached(rule, k, context) ==
  \A j \in 1..(k - 1) : Holds(rule.when[j], context) <=> rule.connective = "and"

CannotEvaluate(rule, context) ==
  \/ rule.connective \notin {"and", "or", "!"}
  \/ rule.connective = "!" /\ Len(rule.when) # 1
  \/ \E k \in DOMAIN rule.when :
       Reached(rule, k, context) /\ CannotCompare(rule.when[k])

Matches(rule, context) ==
  LET holding == {k \in DOMAIN rule.when : Holds(rule.when[k], context)} IN
  \/ rule.connective = "and" /\ holding = DOMAIN rule.when
  \/ rule.connective = "or" /\ holding # {}
  \/ rule.connective = "!" /\ holding = {}

Acts(rule) == rule.action \in {"suppress", "reject"}

Rejects(rule, context) == Matches(rule, context) /\ Acts(rule)

Enabled(rs) == {k \in DOMAIN rs : rs[k].enabled}

Priority(rs, k) == IF rs[k].priority = NoPriority THEN 1000 + k - 1 ELSE rs[k].priority

\* The order of evaluate_policy's sorted(): priority, then id, then place.
Precedes(rs, k, l) ==
  \/ Priority(rs, k) < Priority(rs, l)
  \/ Priority(rs, k) = Priority(rs, l) /\ rs[k].id < rs[l].id
  \/ Priority(rs, k) = Priority(rs, l) /\ rs[k].id = rs[l].id /\ k < l

IsNext(rs, k, S) == k \in S /\ \A l \in S \ {k} : Precedes(rs, k, l)

-----------------------------------------------------------------------------
(* Types                                                                   *)

HistoryEnd == 2 * Len(History)
Halves == 1..HistoryEnd
Writing == {"in_blacklist", "between", "in_history"}
Evaluating == {"retrieving", "load_blacklist", "load_history", "trying",
               "selecting", "auditing", "exporting"}
Ended == {"done", "raised", "died", "died_in_blacklist", "died_in_history"}
Places == Nat \cup {SystemRule}

DecisionRows == [customer: Customers, decision: {"approve", "reject"},
                 codes: Seq(Reasons), selected: BOOLEAN]

TypeOK ==
  /\ blacklist \subseteq Blacklist
  /\ history \subseteq Halves
  /\ pc \in [Callers -> {"idle"} \cup Writing \cup Evaluating \cup Ended]
  /\ position \in [Callers -> 0..HistoryEnd]
  /\ rules \in [Runs -> Policies \cup {<< >>}]
  /\ size \in [Runs -> Nat]
  /\ candidates \in [Runs -> Searches \cup {<< >>}]
  /\ black \in [Runs -> SUBSET Blacklist]
  /\ contacts \in [Runs -> 0..Len(History)]
  /\ ready \in [Runs -> BOOLEAN]
  /\ misled \in [Runs -> SUBSET Callers]
  /\ \A r \in Runs :
       /\ rest[r] \subseteq DOMAIN rules[r]
       /\ reasons[r] \in Seq(DOMAIN rules[r])
       /\ results[r] \in Seq(Seq(DOMAIN rules[r] \cup {SystemRule}))
       /\ Len(results[r]) <= Len(candidates[r])
       /\ pc[r] = "trying" => Len(results[r]) < Len(candidates[r])
  /\ counts \in [Runs -> [Reasons -> Nat]]
  /\ selected \in [Runs -> SUBSET Customers]
  /\ audited \in [Runs -> SUBSET Customers]
  /\ decisions \in [Runs -> SUBSET DecisionRows]
  /\ exported \in [Runs -> SUBSET Customers]
  /\ faults \in 0..MaxFaults

Init ==
  /\ \/ blacklist = {} /\ history = {}
     \/ blacklist = Blacklist /\ history = Halves
  /\ pc = [p \in Callers |-> "idle"]
  /\ position = [p \in Callers |-> 0]
  /\ rules = [r \in Runs |-> << >>]
  /\ size = [r \in Runs |-> 0]
  /\ candidates = [r \in Runs |-> << >>]
  /\ black = [r \in Runs |-> {}]
  /\ contacts = [r \in Runs |-> 0]
  /\ ready = [r \in Runs |-> TRUE]
  /\ misled = [r \in Runs |-> {}]
  /\ rest = [r \in Runs |-> {}]
  /\ reasons = [r \in Runs |-> << >>]
  /\ results = [r \in Runs |-> << >>]
  /\ counts = [r \in Runs |-> [c \in Reasons |-> 0]]
  /\ selected = [r \in Runs |-> {}]
  /\ audited = [r \in Runs |-> {}]
  /\ decisions = [r \in Runs |-> {}]
  /\ exported = [r \in Runs |-> {}]
  /\ faults = 0

Goto(p, next) == pc' = [pc EXCEPT ![p] = next]

-----------------------------------------------------------------------------
(* generate_synthetic_data                                                 *)

\* Opening a file for writing empties it.
OpenBlacklist(p) ==
  /\ pc[p] = "idle"
  /\ blacklist' = {}
  /\ Goto(p, "in_blacklist")
  /\ UNCHANGED << history, position, task, inputs, verdicts, outputs, faults >>

\* The few lines of the blacklist are in one buffer, which close() writes.
CloseBlacklist(p) ==
  /\ pc[p] = "in_blacklist"
  /\ blacklist' = Blacklist
  /\ Goto(p, "between")
  /\ UNCHANGED << history, position, task, inputs, verdicts, outputs, faults >>

OpenHistory(p) ==
  /\ pc[p] = "between"
  /\ history' = {}
  /\ Goto(p, "in_history")
  /\ UNCHANGED << blacklist, position, task, inputs, verdicts, outputs, faults >>

\* A buffer of history lines is full, anywhere in a line, or the file is closed.
\* A writer goes on where it is, also if another has emptied the file under it.
WriteHistory(p) ==
  /\ pc[p] = "in_history"
  /\ \E end \in Halves \cup {HistoryEnd} :
       /\ end > position[p] \/ end = HistoryEnd
       /\ history' = history \cup (position[p] + 1)..end
       /\ position' = [position EXCEPT ![p] = end]
       /\ IF end < HistoryEnd THEN UNCHANGED pc
          ELSE Goto(p, IF p \in Runs THEN "retrieving" ELSE "done")
  /\ UNCHANGED << blacklist, task, inputs, verdicts, outputs, faults >>

-----------------------------------------------------------------------------
(* The inputs of an evaluation                                             *)

\* The filter that a run searches with.
Passes(x) ==
  /\ \A flag \in {"do_not_contact_flag", "is_employee_flag", "opt_out_flag",
                  "legal_suppression_flag"} : x.facts[flag] = 0
  /\ x.facts["customer_tenure_months"] >= 3
  /\ x.facts["delinquency_12m_count"] <= 2

\* The policy and the size are those of the run's configuration.
Retrieve(r) ==
  /\ pc[r] = "retrieving"
  /\ \E policy \in Policies : rules' = [rules EXCEPT ![r] = policy]
  /\ \E found \in Searches :
       /\ \A i \in DOMAIN found : Passes(found[i])
       /\ candidates' = [candidates EXCEPT ![r] = found]
       /\ \E n \in 1..Len(found) \cup {1} : size' = [size EXCEPT ![r] = n]
  /\ Goto(r, "load_blacklist")
  /\ UNCHANGED << files, inputs, verdicts, outputs, faults >>

\* Those who have a file open, or had it open when they died.
AtBlacklist == {p \in Callers : pc[p] \in {"in_blacklist", "died_in_blacklist"}}
AtHistory == {p \in Callers : pc[p] \in {"in_history", "died_in_history"}}

\* The source is missing, unreadable or not text.
Unavailable(r) ==
  /\ faults < MaxFaults
  /\ faults' = faults + 1
  /\ ready' = [ready EXCEPT ![r] = FALSE]
  /\ UNCHANGED << black, contacts, misled >>

LoadBlacklist(r) ==
  /\ pc[r] = "load_blacklist"
  /\ \/ Unavailable(r)
     \/ /\ black' = [black EXCEPT ![r] = blacklist]
        /\ misled' = IF blacklist = Blacklist THEN misled
                     ELSE [misled EXCEPT ![r] = @ \cup AtBlacklist]
        /\ UNCHANGED << contacts, ready, faults >>
  /\ Goto(r, "load_history")
  /\ UNCHANGED << files, task, verdicts, outputs >>

\* The file has its first n lines and nothing else: all that is there parses.
Parses(n) == history = 1..(2 * n)

FirstCandidate(r) == IF candidates[r] = << >> THEN "selecting" ELSE "trying"

FailClosed(r) ==
  /\ results' = [results EXCEPT ![r] = [i \in DOMAIN candidates[r] |-> << SystemRule >>]]
  /\ counts' = [counts EXCEPT ![r] = [@ EXCEPT ![SystemReason] = Len(candidates[r])]]
  /\ Goto(r, "auditing")
  /\ UNCHANGED << rest, reasons >>

\* Every rule that is enabled, for the first candidate.
StartRules(r) ==
  /\ rest' = [rest EXCEPT ![r] = Enabled(rules[r])]
  /\ Goto(r, FirstCandidate(r))
  /\ UNCHANGED << reasons, results, counts >>

ReadRows(r) ==
  \E n \in 0..Len(History) :
    /\ Parses(n)
    /\ contacts' = [contacts EXCEPT ![r] = n]
    /\ misled' = IF n = Len(History) THEN misled
                 ELSE [misled EXCEPT ![r] = @ \cup AtHistory]
    /\ UNCHANGED << black, ready, faults >>

\* Mutant: a row that does not parse is the end of the file.
BrokenRowIgnored(r) ==
  /\ ~ \E n \in 0..Len(History) : Parses(n)
  /\ \E n \in 0..Len(History) :
       /\ 1..(2 * n) \subseteq history /\ ~ (1..(2 * n + 2) \subseteq history)
       /\ contacts' = [contacts EXCEPT ![r] = n]
  /\ UNCHANGED << black, ready, misled, faults >>

\* A row that does not parse ends the reading and fails the input.
BrokenRow(r) ==
  /\ ~ \E n \in 0..Len(History) : Parses(n)
  /\ ready' = [ready EXCEPT ![r] = FALSE]
  /\ UNCHANGED << black, contacts, misled, faults >>

LoadHistory(r) ==
  /\ pc[r] = "load_history"
  /\ Unavailable(r) \/ ReadRows(r) \/ BrokenRow(r)
  /\ IF ready'[r] THEN StartRules(r) ELSE FailClosed(r)
  /\ UNCHANGED << files, task, outputs >>

-----------------------------------------------------------------------------
(* evaluate_policy                                                         *)

Candidate(r) == candidates[r][Len(results[r]) + 1]
ContextNow(r) == Context(r, Candidate(r), black[r], contacts[r])

\* Mutant: a rule that stops does so whatever its action.
PassOrStop(r, k) ==
  /\ ~ Rejects(rules[r][k], ContextNow(r))
  /\ rest' = [rest EXCEPT ![r] =
       IF rules[r][k].stop /\ Matches(rules[r][k], ContextNow(r)) THEN {} ELSE @ \ {k}]
  /\ UNCHANGED << reasons, pc >>

\* A rule that rejects the candidate adds its reason; a rule of another action
\* does nothing; one that stops ends the rules for the candidate.
Pass(r, k) ==
  /\ ~ Rejects(rules[r][k], ContextNow(r))
  /\ rest' = [rest EXCEPT ![r] = @ \ {k}]
  /\ UNCHANGED << reasons, pc >>

AddReason(r, k) ==
  /\ Rejects(rules[r][k], ContextNow(r))
  /\ rules[r][k].reason \in Reasons
  /\ reasons' = [reasons EXCEPT ![r] = Append(@, k)]
  /\ rest' = [rest EXCEPT ![r] = IF rules[r][k].stop THEN {} ELSE @ \ {k}]
  /\ UNCHANGED pc

\* A condition that cannot be evaluated, or a reason that the dictionary does not have.
RuleRaises(r, k) ==
  /\ \/ CannotEvaluate(rules[r][k], ContextNow(r))
     \/ Rejects(rules[r][k], ContextNow(r)) /\ rules[r][k].reason \notin Reasons
  /\ Goto(r, "raised")
  /\ UNCHANGED << rest, reasons >>

TryRule(r) ==
  /\ pc[r] = "trying"
  /\ \E k \in rest[r] :
       /\ IsNext(rules[r], k, rest[r])
       /\ \/ ~ CannotEvaluate(rules[r][k], ContextNow(r)) /\ (Pass(r, k) \/ AddReason(r, k))
          \/ RuleRaises(r, k)
  /\ UNCHANGED << files, task, inputs, results, counts, outputs, faults >>

CodeOf(r, k) == IF k = SystemRule THEN SystemReason ELSE rules[r][k].reason

\* Mutant: the last candidate is not noticed.
DecideOn(r) ==
  /\ pc[r] = "trying"
  /\ rest[r] = {}
  /\ results' = [results EXCEPT ![r] = Append(@, reasons[r])]
  /\ reasons' = [reasons EXCEPT ![r] = << >>]
  /\ rest' = [rest EXCEPT ![r] = Enabled(rules[r])]
  /\ UNCHANGED << files, pc, task, inputs, counts, outputs, faults >>

\* The row of the candidate, and on to the next one.
Decide(r) ==
  /\ pc[r] = "trying"
  /\ rest[r] = {}
  /\ results' = [results EXCEPT ![r] = Append(@, reasons[r])]
  /\ counts' = [counts EXCEPT ![r] =
       [c \in Reasons |-> @[c] + Cardinality({m \in DOMAIN reasons[r] : CodeOf(r, reasons[r][m]) = c})]]
  /\ reasons' = [reasons EXCEPT ![r] = << >>]
  /\ rest' = [rest EXCEPT ![r] = Enabled(rules[r])]
  /\ Goto(r, IF Len(results[r]) + 1 = Len(candidates[r]) THEN "selecting" ELSE "trying")
  /\ UNCHANGED << files, task, inputs, outputs, faults >>

Approved(r) == {i \in DOMAIN results[r] : results[r][i] = << >>}

\* sorted() by score, best first, keeps the order of candidates that are equal.
Better(r, i, j) ==
  \/ candidates[r][i].score > candidates[r][j].score
  \/ candidates[r][i].score = candidates[r][j].score /\ i < j

Ahead(r, i) == {j \in Approved(r) : Better(r, j, i)}

\* Mutant: sorted without reverse=True.
BestReversed(r) ==
  {i \in Approved(r) :
     Cardinality({j \in Approved(r) : candidates[r][j].score < candidates[r][i].score}) < size[r]}

Best(r) == {i \in Approved(r) : Cardinality(Ahead(r, i)) < size[r]}

Select(r) ==
  /\ pc[r] = "selecting"
  /\ selected' = [selected EXCEPT ![r] = {candidates[r][i].customer : i \in Best(r)}]
  /\ Goto(r, "auditing")
  /\ UNCHANGED << files, task, inputs, verdicts, audited, decisions, exported, faults >>

-----------------------------------------------------------------------------
(* What becomes of the results                                             *)

Row(r, i) == candidates[r][i].customer

\* The selected flag, which only approved rows have.
Flagged(r, i) == Row(r, i) \in selected[r] /\ i \in Approved(r)

\* build_policy_decision_audit_rows, one for every candidate.
DecisionRow(r, i) ==
  [customer |-> Row(r, i),
   decision |-> IF i \in Approved(r) THEN "approve" ELSE "reject",
   codes    |-> [m \in DOMAIN results[r][i] |-> CodeOf(r, results[r][i][m])],
   selected |-> Flagged(r, i)]

\* _build_audit_rows: the selected rows are chosen by the identity of the customer.
WriteAudit(r) ==
  /\ pc[r] = "auditing"
  /\ audited' = [audited EXCEPT ![r] =
                   {Row(r, i) : i \in {j \in DOMAIN results[r] : Row(r, j) \in selected[r]}}]
  /\ decisions' = [decisions EXCEPT ![r] = {DecisionRow(r, i) : i \in DOMAIN results[r]}]
  /\ Goto(r, "exporting")
  /\ UNCHANGED << files, task, inputs, verdicts, selected, exported, faults >>

\* export_ready: the rows with the flag.
Export(r) ==
  /\ pc[r] = "exporting"
  /\ exported' = [exported EXCEPT ![r] =
                    {Row(r, i) : i \in {j \in DOMAIN results[r] : Flagged(r, j)}}]
  /\ Goto(r, "done")
  /\ UNCHANGED << files, task, inputs, verdicts, selected, audited, decisions, faults >>

\* A process dies; what it has not written of an open file is lost.
Die(p) ==
  /\ pc[p] \in Writing \cup Evaluating
  /\ faults < MaxFaults
  /\ faults' = faults + 1
  /\ Goto(p, CASE pc[p] = "in_blacklist" -> "died_in_blacklist"
              [] pc[p] = "in_history"   -> "died_in_history"
              [] OTHER                  -> "died")
  /\ UNCHANGED << files, task, inputs, verdicts, outputs >>

Generate(p) == OpenBlacklist(p) \/ CloseBlacklist(p) \/ OpenHistory(p) \/ WriteHistory(p)
Evaluate(r) ==
  \/ Retrieve(r) \/ LoadBlacklist(r) \/ LoadHistory(r) \/ TryRule(r) \/ Decide(r)
  \/ Select(r) \/ WriteAudit(r) \/ Export(r)

Next ==
  \/ \E p \in Callers : Generate(p) \/ Die(p)
  \/ \E r \in Runs : Evaluate(r)

Spec == Init /\ [][Next]_vars

-----------------------------------------------------------------------------
(* Properties                                                              *)

RejectedBy(r, x, bl, n) ==
  {k \in Enabled(rules[r]) : Rejects(rules[r][k], Context(r, x, bl, n))}

\* The rules are tried in an order, one by one, and a match may end them.  None
\* of this decides who is approved: a candidate is, exactly if no enabled rule
\* rejects it; and its reasons are such rules, in the order of priority and rule
\* id that docs/POLICY_ENGINE_SPEC.md line 115 promises.
DecisionsFollowPolicy ==
  \A r \in Runs : ready[r] => \A i \in DOMAIN results[r] :
    LET why == results[r][i]
        all == RejectedBy(r, candidates[r][i], black[r], contacts[r]) IN
    /\ why = << >> <=> all = {}
    /\ \A m \in DOMAIN why : why[m] \in all
    /\ \A m, n \in DOMAIN why : m < n => Precedes(rules[r], why[m], why[n])

\* Other runs and make empty and rewrite the input files while a run reads them,
\* or die half way.  No customer is exported whom the complete inputs reject,
\* unless the run has read a file that ends between two lines while somebody is
\* at it, or has died at it: a line that is broken off is always noticed.
InputsRespected ==
  \A r \in Runs : misled[r] = {} =>
    \A i \in DOMAIN candidates[r] : Row(r, i) \in exported[r] =>
      RejectedBy(r, candidates[r][i], Blacklist, Len(History)) = {}

\* What is exported is what the audit calls selected, by its rows of the run and
\* by the one decision it has of every candidate: as many of the approved as were
\* asked for, none of those left out is better, none has a reason against it; and
\* the audited counts are those of the reasons.
ExportIsBest ==
  \A r \in Runs : pc[r] = "done" =>
    LET out == {i \in DOMAIN candidates[r] : Row(r, i) \in exported[r]} IN
    /\ exported[r] = audited[r]
    /\ exported[r] = {d.customer : d \in {e \in decisions[r] : e.selected}}
    /\ Cardinality(decisions[r]) = Len(candidates[r])
    /\ out \subseteq Approved(r)
    /\ IF out = Approved(r) THEN Cardinality(out) <= size[r] ELSE Cardinality(out) = size[r]
    /\ \A i \in out, j \in Approved(r) \ out : ~ Better(r, j, i)
    /\ \A c \in Reasons : counts[r][c] =
         Cardinality({at \in (1..Len(results[r])) \X (1..(Len(rules[r]) + 1)) :
                        /\ at[2] \in DOMAIN results[r][at[1]]
                        /\ CodeOf(r, results[r][at[1]][at[2]]) = c})

=============================================================================
