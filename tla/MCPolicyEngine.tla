--------------------------- MODULE MCPolicyEngine ---------------------------
(* A run and make generate on the same files.  c1 is on the blacklist, c2  *)
(* has been contacted twice and refused once, c3 has nothing against it.   *)
EXTENDS PolicyEngine, TLC

CONSTANTS c1, c2, c3, r1, m1

Contact(c, age, outcome, campaign, active) ==
  [customer |-> c, age |-> age, channel |-> "email", outcome |-> outcome,
   campaign |-> campaign, active |-> active]
MCHistory == << Contact(c2, 30, "refused", "own", NoFlag),
                Contact(c2, 7, "active", "other", NoFlag) >>

Rule(id, priority, field, op, value, reason) ==
  [id |-> id, enabled |-> TRUE, priority |-> priority, connective |-> "and",
   when |-> << [field |-> field, op |-> op, value |-> value] >>, action |-> "suppress", reason |-> reason, stop |-> FALSE]
Suppressed == Rule(1, NoPriority, "is_blacklisted", "==", 1, "dnc")
Capped == Rule(2, 30, "contacts_last_30d", ">=", 2, "cap")
Cooling == Rule(3, 30, "cooldown_after_refusal_active", "==", 1, "cap")
Conflicting == Rule(4, 40, "campaign_conflict_active", "==", 1, "conflict")
Allowing == [Rule(0, 1, "contacts_last_7d", "<=", 1, "none")
               EXCEPT !.action = "approve_override", !.stop = TRUE]
Stopping == [Capped EXCEPT !.stop = TRUE]
Off == [Conflicting EXCEPT !.enabled = FALSE, !.connective = "xor"]
With(connective, rule, other) ==
  [rule EXCEPT !.connective = connective, !.when = @ \o other.when]
Broken == Rule(6, 6, "unknown", ">", 0, "dnc")


MCPolicies ==
  { << Suppressed, Cooling, Capped >>,
    << Conflicting, Stopping, Allowing, Suppressed >>,
    << Off, Rule(5, 5, "unknown", "!=", 1, "dnc") >>,
    << With("or", Suppressed, Broken), With("and", Capped, Conflicting) >>,
    << [Conflicting EXCEPT !.connective = "!"], With("and", Broken, Suppressed) >>,
    << Suppressed, Rule(7, 70, "customer_tenure_months", "<", 12, "no_such_code") >> }

Found(c, score, employee, tenure) ==
  [customer |-> c, score |-> score,
   facts |-> [f \in Payload |-> CASE f = "is_employee_flag"       -> employee
                                 [] f = "customer_tenure_months" -> tenure
                                 [] OTHER                        -> 0]]
MCSearches ==
  { << >>, << Found(c1, 3, 0, 20), Found(c2, 3, 0, 20), Found(c3, 2, 0, 20) >>,
    << Found(c3, 2, 0, 5), Found(c2, 1, 0, 20) >>, << Found(c3, 1, 1, 20) >> }
MCCampaignOf == [r \in Runs |-> "own"]
=============================================================================
