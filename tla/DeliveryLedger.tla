--------------------------- MODULE DeliveryLedger ---------------------------
(***************************************************************************)
(* What delivery promises, without jobs' inner steps, transactions, files  *)
(* or faults: a ledger in which each customer of a run's audience is owned *)
(* by at most one job per target.  A job takes, in one step, every         *)
(* customer of the audience that nobody owns yet; it is only called        *)
(* complete when the whole audience is owned; what is owned stays owned,   *)
(* even when the job is called failed afterwards.                          *)
(***************************************************************************)
CONSTANTS Runs, Targets, Customers, Jobs, NoJob

VARIABLES
  audience,   \* run -> the customers to deliver, {} until they are staged
  owner,      \* run -> target -> customer -> the job that delivered it
  verdict     \* job -> what the job table says of it

vars == << audience, owner, verdict >>

Verdicts == {"open", "complete", "empty", "failed"}

Init ==
  /\ audience = [r \in Runs |-> {}]
  /\ owner = [r \in Runs |-> [t \in Targets |-> [c \in Customers |-> NoJob]]]
  /\ verdict = [j \in Jobs |-> "open"]

Stage(r) ==
  /\ audience[r] = {}
  /\ \E S \in SUBSET Customers : audience' = [audience EXCEPT ![r] = S]
  /\ UNCHANGED << owner, verdict >>

Take(j, r, t) ==
  owner' = [owner EXCEPT ![r][t] =
             [c \in Customers |-> IF c \in audience[r] /\ owner[r][t][c] = NoJob
                                  THEN j ELSE owner[r][t][c]]]

WholeAudienceOwned(r, t) ==
  \A c \in audience[r] : owner'[r][t][c] # NoJob

Report(j, r, t) ==
  \E v \in Verdicts :
    /\ verdict' = [verdict EXCEPT ![j] = v]
    /\ v # verdict[j] =>
         \/ v = "failed"
         \/ verdict[j] = "open" /\ v = "empty"
         \/ verdict[j] = "open" /\ v = "complete" /\ WholeAudienceOwned(r, t)

Work(j, r, t) ==
  /\ Take(j, r, t) \/ UNCHANGED owner
  /\ Report(j, r, t)
  /\ UNCHANGED audience

Next ==
  \/ \E r \in Runs : Stage(r)
  \/ \E j \in Jobs, r \in Runs, t \in Targets : Work(j, r, t)

Spec == Init /\ [][Next]_vars
=============================================================================
