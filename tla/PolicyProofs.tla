---------------------------- MODULE PolicyProofs ----------------------------
(***************************************************************************)
(* The policy gate for any number of processes, any policies, searches,    *)
(* histories and faults: its types, that approvals follow the policy and   *)
(* exports the complete inputs, and that the export is the best of them.   *)
(***************************************************************************)
EXTENDS PolicyEngine, FiniteSetTheorems, TLAPS

-----------------------------------------------------------------------------
(* The input files                                                         *)

Early == {"idle"} \cup Writing
Steps == {"idle"} \cup Writing \cup Evaluating \cup Ended

\* A file is complete, or somebody has it open or has died in it, or it is as it
\* was before all this.  The last one to empty the history has all that it wrote
\* still in it.
BlacklistWhole ==
  \/ blacklist = Blacklist
  \/ AtBlacklist # {}
  \/ \A p \in Callers : pc[p] = "idle"

HistoryWhole ==
  \/ history = Halves
  \/ \E p \in AtHistory : 1..position[p] \subseteq history
  \/ \A p \in Callers : pc[p] \in {"idle", "in_blacklist", "between", "died", "died_in_blacklist"}

FilesInv ==
  /\ pc \in [Callers -> Steps]
  /\ position \in [Callers -> 0..HistoryEnd]
  /\ blacklist \subseteq Blacklist
  /\ history \subseteq Halves
  /\ \A p \in Callers : pc[p] \in {"idle", "in_blacklist", "between"} => position[p] = 0
  /\ BlacklistWhole
  /\ HistoryWhole

LEMMA HistorySize == Len(History) \in Nat /\ HistoryEnd \in Nat
  <1>1. Len(History) \in Nat
    BY HistoryAssumption
  <1> QED BY <1>1 DEF HistoryEnd

LEMMA InitFiles == Init => FilesInv
  BY HistorySize
     DEF Init, FilesInv, BlacklistWhole, HistoryWhole, Steps, Writing, Halves

LEMMA GotoFrame ==
  ASSUME FilesInv, NEW p \in Callers, NEW next \in Steps, Goto(p, next)
  PROVE  /\ pc' \in [Callers -> Steps]
         /\ pc'[p] = next
         /\ \A q \in Callers \ {p} : pc'[q] = pc[q]
  BY DEF FilesInv, Goto

LEMMA GenerateKeepsFiles ==
  ASSUME FilesInv, NEW p \in Callers, Generate(p)
  PROVE  FilesInv'
  <1>1. CASE OpenBlacklist(p)
    <2>1. /\ pc' \in [Callers -> Steps] /\ pc'[p] = "in_blacklist" /\ pc[p] = "idle"
          /\ \A q \in Callers \ {p} : pc'[q] = pc[q]
          /\ blacklist' = {} /\ UNCHANGED << history, position >>
      BY <1>1, GotoFrame DEF OpenBlacklist, Steps, Writing
    <2>2. BlacklistWhole'
      BY <2>1 DEF BlacklistWhole, AtBlacklist
    <2>3. HistoryWhole'
      BY <2>1 DEF FilesInv, HistoryWhole, AtHistory
    <2> QED BY <2>1, <2>2, <2>3 DEF FilesInv
  <1>2. CASE CloseBlacklist(p)
    <2>1. /\ pc' \in [Callers -> Steps] /\ pc'[p] = "between" /\ pc[p] = "in_blacklist"
          /\ \A q \in Callers \ {p} : pc'[q] = pc[q]
          /\ blacklist' = Blacklist /\ UNCHANGED << history, position >>
      BY <1>2, GotoFrame DEF CloseBlacklist, Steps, Writing
    <2>2. BlacklistWhole'
      BY <2>1 DEF BlacklistWhole
    <2>3. HistoryWhole'
      BY <2>1 DEF FilesInv, HistoryWhole, AtHistory
    <2> QED BY <2>1, <2>2, <2>3 DEF FilesInv
  <1>3. CASE OpenHistory(p)
    <2>1. /\ pc' \in [Callers -> Steps] /\ pc'[p] = "in_history" /\ pc[p] = "between"
          /\ \A q \in Callers \ {p} : pc'[q] = pc[q]
          /\ history' = {} /\ UNCHANGED << blacklist, position >>
      BY <1>3, GotoFrame DEF OpenHistory, Steps, Writing
    <2>2. BlacklistWhole'
      BY <2>1 DEF FilesInv, BlacklistWhole, AtBlacklist
    <2>3. HistoryWhole'
      <3>1. p \in AtHistory' /\ 1..position'[p] = {}
        BY <2>1 DEF AtHistory, FilesInv
      <3> QED BY <3>1 DEF HistoryWhole
    <2> QED BY <2>1, <2>2, <2>3 DEF FilesInv
  <1>4. CASE WriteHistory(p)
    <2>1. PICK end \in Halves \cup {HistoryEnd} :
            /\ history' = history \cup (position[p] + 1)..end
            /\ position' = [position EXCEPT ![p] = end]
            /\ end > position[p] \/ end = HistoryEnd
            /\ IF end < HistoryEnd THEN UNCHANGED pc
               ELSE Goto(p, IF p \in Runs THEN "retrieving" ELSE "done")
      BY <1>4 DEF WriteHistory
    <2>2. end \in 0..HistoryEnd /\ pc[p] = "in_history" /\ position[p] \in 0..HistoryEnd
          /\ UNCHANGED blacklist
      BY <1>4, HistorySize DEF WriteHistory, Halves, FilesInv
    <2>3. /\ pc' \in [Callers -> Steps]
          /\ \A q \in Callers \ {p} : pc'[q] = pc[q]
          /\ IF end < HistoryEnd THEN pc'[p] = pc[p] ELSE pc'[p] \in {"retrieving", "done"}
      BY <2>1, GotoFrame DEF FilesInv, Steps, Evaluating, Ended
    <2>4. /\ position' \in [Callers -> 0..HistoryEnd] /\ position'[p] = end
          /\ \A q \in Callers \ {p} : position'[q] = position[q]
      BY <2>1, <2>2 DEF FilesInv
    <2>5. history' \subseteq Halves /\ history \subseteq history'
      <3>1. \A h \in (position[p] + 1)..end : h \in Halves
        BY <2>2, HistorySize DEF Halves
      <3> QED BY <2>1, <3>1 DEF FilesInv
    <2>6. BlacklistWhole'
      BY <2>2, <2>3 DEF FilesInv, BlacklistWhole, AtBlacklist
    <2>7. HistoryWhole'
      <3>1. CASE history = Halves
        BY <2>5, <3>1 DEF HistoryWhole, Halves
      <3>2. ASSUME NEW q \in AtHistory, q # p, 1..position[q] \subseteq history
            PROVE  HistoryWhole'
        <4>1. q \in AtHistory' /\ 1..position'[q] \subseteq history'
          BY <2>3, <2>4, <2>5, <3>2 DEF AtHistory
        <4> QED BY <4>1 DEF HistoryWhole
      <3>3. ASSUME 1..position[p] \subseteq history PROVE HistoryWhole'
        <4>1. 1..end \subseteq history'
          BY <2>1, <2>2, <3>3, HistorySize
        <4>2. CASE end < HistoryEnd
          BY <2>2, <2>3, <2>4, <4>1, <4>2 DEF HistoryWhole, AtHistory
        <4>3. CASE end = HistoryEnd
          BY <2>5, <4>1, <4>3 DEF HistoryWhole, Halves
        <4> QED BY <2>2, <4>2, <4>3, HistorySize
      <3> QED BY <2>2, <3>1, <3>2, <3>3 DEF FilesInv, HistoryWhole, AtHistory
    <2> QED BY <2>2, <2>3, <2>4, <2>5, <2>6, <2>7 DEF FilesInv
  <1> QED BY <1>1, <1>2, <1>3, <1>4 DEF Generate

\* A run that reads, and whoever dies.
LEMMA OtherStepsKeepFiles ==
  ASSUME FilesInv, UNCHANGED files, NEW p \in Callers,
         \/ UNCHANGED pc
         \/ \E next \in Evaluating \cup Ended :
              /\ Goto(p, next)
              /\ IF pc[p] = "in_blacklist" THEN next = "died_in_blacklist"
                 ELSE IF pc[p] = "in_history" THEN next = "died_in_history"
                 ELSE (pc[p] = "between" /\ next = "died") \/ pc[p] \in Evaluating
  PROVE  FilesInv'
  <1>1. UNCHANGED << blacklist, history, position >>
    BY DEF files
  <1>2. CASE UNCHANGED pc
    BY <1>1, <1>2 DEF FilesInv, BlacklistWhole, HistoryWhole, AtBlacklist, AtHistory
  <1>3. ASSUME NEW next \in Evaluating \cup Ended, Goto(p, next),
               IF pc[p] = "in_blacklist" THEN next = "died_in_blacklist"
               ELSE IF pc[p] = "in_history" THEN next = "died_in_history"
               ELSE (pc[p] = "between" /\ next = "died") \/ pc[p] \in Evaluating
        PROVE  FilesInv'
    <2>1. next \in Steps
      BY DEF Steps
    <2>2. /\ pc' \in [Callers -> Steps] /\ pc'[p] = next
          /\ \A q \in Callers \ {p} : pc'[q] = pc[q]
      BY <1>3, <2>1, GotoFrame
    <2>3. AtBlacklist \subseteq AtBlacklist' /\ AtHistory \subseteq AtHistory'
      BY <1>3, <2>2 DEF AtBlacklist, AtHistory, Evaluating
    <2>4. BlacklistWhole'
      BY <1>1, <1>3, <2>2, <2>3 DEF FilesInv, BlacklistWhole, Evaluating
    <2>5. HistoryWhole'
      BY <1>1, <1>3, <2>2, <2>3 DEF FilesInv, HistoryWhole, Evaluating
    <2> QED BY <1>1, <2>2, <2>4, <2>5 DEF FilesInv, Evaluating, Ended
  <1> QED BY <1>2, <1>3

-----------------------------------------------------------------------------
(* Runs                                                                    *)

\* What the enabled rules rs have against candidate x, by the inputs bl and n.
Against(rs, r, x, bl, n) == {k \in Enabled(rs) : Rejects(rs[k], Context(r, x, bl, n))}

\* A verdict as the policy promises it, and one whose reasons have codes.
Verdict(rs, why, all) ==
  /\ why = << >> <=> all = {}
  /\ \A m \in DOMAIN why : why[m] \in all
  /\ \A m, n \in DOMAIN why : m < n => Precedes(rs, why[m], why[n])
Coded(rs, why) == \A m \in DOMAIN why : why[m] = SystemRule \/ rs[why[m]].reason \in Reasons

VarTypes ==
  /\ rules \in [Runs -> Policies \cup {<< >>}]
  /\ size \in [Runs -> Nat]
  /\ candidates \in [Runs -> Searches \cup {<< >>}]
  /\ black \in [Runs -> SUBSET Blacklist]
  /\ contacts \in [Runs -> 0..Len(History)]
  /\ ready \in [Runs -> BOOLEAN]
  /\ misled \in [Runs -> SUBSET Callers]
  /\ DOMAIN rest = Runs /\ DOMAIN reasons = Runs /\ DOMAIN results = Runs
  /\ counts \in [Runs -> [Reasons -> Nat]]
  /\ selected \in [Runs -> SUBSET Customers]
  /\ audited \in [Runs -> SUBSET Customers]
  /\ decisions \in [Runs -> SUBSET DecisionRows]
  /\ exported \in [Runs -> SUBSET Customers]
  /\ faults \in 0..MaxFaults

ListsOK(r) ==
  /\ rest[r] \subseteq Enabled(rules[r])
  /\ reasons[r] \in Seq(DOMAIN rules[r])
  /\ results[r] \in Seq(Seq(DOMAIN rules[r] \cup {SystemRule}))
  /\ Len(results[r]) <= Len(candidates[r])
  /\ pc[r] = "trying" => Len(results[r]) < Len(candidates[r])
  /\ Coded(rules[r], reasons[r])
  /\ \A i \in DOMAIN results[r] : Coded(rules[r], results[r][i])

Reading == Early \cup {"retrieving", "load_blacklist", "load_history"}

EarlyOK(r) == pc[r] \in Reading => results[r] = << >> /\ reasons[r] = << >> /\ rest[r] = {}

ReadyOK(r) ==
  /\ pc[r] \in {"trying", "selecting"} => ready[r]
  /\ ~ ready[r] => \A i \in DOMAIN results[r] : results[r][i] # << >>

VerdictsOK(r) ==
  ready[r] => \A i \in DOMAIN results[r] :
    Verdict(rules[r], results[r][i],
            Against(rules[r], r, candidates[r][i], black[r], contacts[r]))

\* The reasons so far come before every rule that is left, and as long as there is
\* none, no rule that has been tried rejects.
LoopOK(r) ==
  pc[r] = "trying" =>
    LET all == Against(rules[r], r, Candidate(r), black[r], contacts[r]) IN
    /\ \A m \in DOMAIN reasons[r] : reasons[r][m] \in all
    /\ \A m, n \in DOMAIN reasons[r] : m < n => Precedes(rules[r], reasons[r][m], reasons[r][n])
    /\ \A m \in DOMAIN reasons[r] : \A k \in rest[r] : Precedes(rules[r], reasons[r][m], k)
    /\ reasons[r] = << >> => all \subseteq rest[r]

\* An input that was not read whole had a writer at it.
InputsOK(r) ==
  misled[r] = {} /\ ready[r] =>
    /\ pc[r] \in {"load_history", "trying", "selecting", "auditing", "exporting", "done"} =>
         black[r] = Blacklist
    /\ pc[r] \in {"trying", "selecting", "auditing", "exporting", "done"} =>
         contacts[r] = Len(History)

ExportOK(r) ==
  /\ pc[r] # "done" => exported[r] = {}
  /\ \A i \in DOMAIN candidates[r] : Row(r, i) \in exported[r] => i \in Approved(r)

RunOK(r) ==
  /\ ListsOK(r) /\ EarlyOK(r) /\ ReadyOK(r) /\ VerdictsOK(r) /\ LoopOK(r)
  /\ InputsOK(r) /\ ExportOK(r)

PolicyInv == FilesInv /\ VarTypes /\ \A r \in Runs : RunOK(r)

LEMMA InitRuns == Init => PolicyInv
  <1> SUFFICES ASSUME Init PROVE PolicyInv
    OBVIOUS
  <1>1. VarTypes
    BY HistorySize, FaultsAssumption DEF Init, VarTypes
  <1>2. ASSUME NEW r \in Runs PROVE RunOK(r)
    <2>1. /\ pc[r] = "idle" /\ rest[r] = {} /\ reasons[r] = << >> /\ results[r] = << >>
          /\ rules[r] = << >> /\ candidates[r] = << >> /\ exported[r] = {} /\ ready[r]
      BY RunsAssumption DEF Init
    <2>2. ListsOK(r)
      BY <2>1 DEF ListsOK, Coded
    <2> QED BY <2>1, <2>2
            DEF RunOK, EarlyOK, ReadyOK, VerdictsOK, LoopOK, InputsOK, ExportOK
  <1> QED BY <1>1, <1>2, InitFiles DEF PolicyInv

\* What stays of a run when a step is not its own.
Kept(r) ==
  /\ rules'[r] = rules[r] /\ size'[r] = size[r] /\ candidates'[r] = candidates[r]
  /\ black'[r] = black[r] /\ contacts'[r] = contacts[r] /\ ready'[r] = ready[r]
  /\ misled'[r] = misled[r] /\ rest'[r] = rest[r] /\ reasons'[r] = reasons[r]
  /\ results'[r] = results[r] /\ exported'[r] = exported[r]

LEMMA KeptRun ==
  ASSUME NEW r \in Runs, RunOK(r), Kept(r),
         \/ pc'[r] = pc[r]
         \/ pc[r] \in Early /\ pc'[r] \in Early \cup {"retrieving"}
         \/ pc[r] # "done" /\ pc'[r] \in {"died", "died_in_blacklist", "died_in_history"}
  PROVE  RunOK(r)'
  <1>1. pc'[r] # pc[r] =>
          \/ pc[r] \in Reading /\ pc'[r] \in Early \cup {"retrieving"} /\ pc[r] # "done"
          \/ pc[r] # "done" /\ pc'[r] \in {"died", "died_in_blacklist", "died_in_history"}
    BY DEF Reading, Early, Writing
  <1>2. ListsOK(r)'
    BY <1>1 DEF RunOK, Kept, ListsOK, Early, Writing
  <1>3. EarlyOK(r)' /\ ReadyOK(r)'
    BY <1>1 DEF RunOK, Kept, EarlyOK, ReadyOK, Reading, Early, Writing
  <1>4. VerdictsOK(r)'
    BY DEF RunOK, Kept, VerdictsOK
  <1>5. LoopOK(r)'
    BY <1>1 DEF RunOK, Kept, LoopOK, Candidate, Early, Writing
  <1>6. InputsOK(r)'
    BY <1>1 DEF RunOK, Kept, InputsOK, Early, Writing
  <1>7. ExportOK(r)'
    BY <1>1 DEF RunOK, Kept, ExportOK, Row, Approved, Early, Writing
  <1> QED BY <1>2, <1>3, <1>4, <1>5, <1>6, <1>7 DEF RunOK

LEMMA SearchLengths ==
  ASSUME NEW found \in Searches \cup {<< >>}
  PROVE  /\ Len(found) \in Nat /\ DOMAIN found = 1..Len(found)
         /\ found # << >> => Len(found) > 0
         /\ \A i \in DOMAIN found : found[i].customer \in Customers
         /\ \A i, j \in DOMAIN found : found[i].customer = found[j].customer => i = j
  <1>1. CASE found = << >>
    BY <1>1
  <1>2. CASE found \in Searches
    <2> DEFINE Point == [customer: Customers, score: Int, facts: [Payload -> Int]]
    <2>1. /\ found \in Seq(Point)
          /\ \A i, j \in DOMAIN found : found[i].customer = found[j].customer => i = j
      BY <1>2, SearchesAssumption
    <2>2. \A x \in Point : x.customer \in Customers
      OBVIOUS
    <2> HIDE DEF Point
    <2> QED BY <2>1, <2>2
  <1> QED BY <1>1, <1>2

\* The runs that a step of one run leaves alone.
LEMMA OthersKept ==
  ASSUME PolicyInv, NEW r \in Runs, Evaluate(r), NEW q \in Runs \ {r}
  PROVE  pc'[q] = pc[q] /\ Kept(q)
  <1>1. PICK next : UNCHANGED pc \/ Goto(r, next)
    BY DEF Evaluate, Retrieve, LoadBlacklist, LoadHistory, FailClosed, StartRules,
           TryRule, Pass, AddReason, RuleRaises, Decide, Select, WriteAudit, Export
  <1>2. pc'[q] = pc[q]
    BY <1>1, RunsAssumption DEF PolicyInv, FilesInv, Goto
  <1>3. Kept(q)
    <2>1. CASE Retrieve(r)
      BY <2>1 DEF Kept, PolicyInv, VarTypes, Retrieve, inputs, verdicts, outputs
    <2>2. CASE LoadBlacklist(r)
      BY <2>2 DEF Kept, PolicyInv, VarTypes, LoadBlacklist, Unavailable, task, verdicts, outputs
    <2>3. CASE LoadHistory(r)
      BY <2>3 DEF Kept, PolicyInv, VarTypes, LoadHistory, Unavailable, ReadRows, BrokenRow,
                  FailClosed, StartRules, task, outputs
    <2>4. CASE TryRule(r)
      BY <2>4 DEF Kept, PolicyInv, VarTypes, TryRule, Pass, AddReason, RuleRaises, task, inputs, outputs
    <2>5. CASE Decide(r)
      BY <2>5 DEF Kept, PolicyInv, VarTypes, Decide, task, inputs, outputs
    <2>6. CASE Select(r) \/ WriteAudit(r) \/ Export(r)
      BY <2>6 DEF Kept, PolicyInv, VarTypes, Select, WriteAudit, Export, task, inputs, verdicts
    <2> QED BY <2>1, <2>2, <2>3, <2>4, <2>5, <2>6 DEF Evaluate
  <1> QED BY <1>2, <1>3

LEMMA RetrieveKeeps ==
  ASSUME PolicyInv, NEW r \in Runs, Retrieve(r)
  PROVE  VarTypes' /\ RunOK(r)'
  <1>1. /\ pc[r] = "retrieving" /\ pc'[r] = "load_blacklist"
        /\ UNCHANGED << inputs, verdicts, outputs, faults >>
    BY RunsAssumption DEF Retrieve, Goto, PolicyInv, FilesInv
  <1>2. /\ \E policy \in Policies : rules' = [rules EXCEPT ![r] = policy]
        /\ \E found \in Searches : candidates' = [candidates EXCEPT ![r] = found]
                                   /\ \E n \in 1..Len(found) \cup {1} : size' = [size EXCEPT ![r] = n]
    BY DEF Retrieve
  <1>3. VarTypes'
    <2>1. rules' \in [Runs -> Policies \cup {<< >>}]
      BY <1>2 DEF PolicyInv, VarTypes
    <2>2. candidates' \in [Runs -> Searches \cup {<< >>}]
      BY <1>2 DEF PolicyInv, VarTypes
    <2>3. size' \in [Runs -> Nat]
      <3>1. PICK found \in Searches : \E n \in 1..Len(found) \cup {1} : size' = [size EXCEPT ![r] = n]
        BY <1>2
      <3>2. PICK n \in 1..Len(found) \cup {1} : size' = [size EXCEPT ![r] = n]
        BY <3>1
      <3>3. n \in Nat
        BY SearchLengths
      <3> QED BY <3>2, <3>3 DEF PolicyInv, VarTypes
    <2> QED BY <1>1, <2>1, <2>2, <2>3
            DEF PolicyInv, VarTypes, inputs, verdicts, outputs, DecisionRows
  <1>4. /\ results'[r] = << >> /\ reasons'[r] = << >> /\ rest'[r] = {} /\ exported'[r] = {}
        /\ ready'[r] = ready[r]
    BY <1>1 DEF PolicyInv, RunOK, EarlyOK, ExportOK, Reading, verdicts, outputs, inputs
  <1>5. candidates'[r] \in Searches \cup {<< >>}
    BY <1>3 DEF VarTypes
  <1>6. Len(candidates'[r]) \in Nat
    BY <1>5, SearchLengths
  <1>7. ListsOK(r)'
    BY <1>1, <1>4, <1>6 DEF ListsOK, Coded
  <1>8. EarlyOK(r)' /\ ReadyOK(r)' /\ VerdictsOK(r)' /\ LoopOK(r)' /\ InputsOK(r)' /\ ExportOK(r)'
    BY <1>1, <1>4 DEF EarlyOK, ReadyOK, VerdictsOK, LoopOK, InputsOK, ExportOK
  <1> QED BY <1>3, <1>7, <1>8 DEF RunOK

LEMMA LoadBlacklistKeeps ==
  ASSUME PolicyInv, NEW r \in Runs, LoadBlacklist(r)
  PROVE  VarTypes' /\ RunOK(r)'
  <1>1. /\ pc[r] = "load_blacklist" /\ pc'[r] = "load_history"
        /\ UNCHANGED << files, task, verdicts, outputs >>
    BY RunsAssumption DEF LoadBlacklist, Goto, PolicyInv, FilesInv
  <1>2. VarTypes'
    <2> DEFINE read == /\ black' = [black EXCEPT ![r] = blacklist]
                       /\ misled' = IF blacklist = Blacklist THEN misled
                                    ELSE [misled EXCEPT ![r] = @ \cup AtBlacklist]
                       /\ UNCHANGED << contacts, ready, faults >>
    <2>1. AtBlacklist \subseteq Callers
      BY DEF AtBlacklist
    <2>2. CASE Unavailable(r)
      BY <1>1, <2>2, FaultsAssumption
         DEF Unavailable, PolicyInv, VarTypes, task, verdicts, outputs, DecisionRows
    <2>3. CASE read
      <3>1. black' \in [Runs -> SUBSET Blacklist]
        BY <2>3 DEF PolicyInv, FilesInv, VarTypes
      <3>2. misled' \in [Runs -> SUBSET Callers]
        BY <2>1, <2>3 DEF PolicyInv, VarTypes
      <3> QED BY <1>1, <2>3, <3>1, <3>2
              DEF PolicyInv, VarTypes, task, verdicts, outputs, DecisionRows
    <2> QED BY <2>2, <2>3 DEF LoadBlacklist
  <1>3. /\ results'[r] = << >> /\ reasons'[r] = << >> /\ rest'[r] = {} /\ exported'[r] = {}
        /\ Len(candidates'[r]) >= 0
    <2>1. results[r] = << >> /\ reasons[r] = << >> /\ rest[r] = {} /\ exported[r] = {}
          /\ Len(results[r]) <= Len(candidates[r])
      BY <1>1 DEF PolicyInv, RunOK, EarlyOK, ExportOK, ListsOK, Reading
    <2> QED BY <1>1, <2>1 DEF verdicts, outputs, task
  <1>4. InputsOK(r)'
    <2> SUFFICES ASSUME misled'[r] = {}, ready'[r] PROVE black'[r] = Blacklist
      BY <1>1 DEF InputsOK
    <2>1. /\ black'[r] = blacklist
          /\ blacklist # Blacklist => AtBlacklist \subseteq misled'[r]
      BY DEF LoadBlacklist, Unavailable, PolicyInv, VarTypes
    <2>2. blacklist = Blacklist \/ AtBlacklist # {}
      BY <1>1, RunsAssumption DEF PolicyInv, FilesInv, BlacklistWhole
    <2> QED BY <2>1, <2>2
  <1>5. ListsOK(r)' /\ EarlyOK(r)' /\ ReadyOK(r)' /\ VerdictsOK(r)' /\ LoopOK(r)' /\ ExportOK(r)'
    BY <1>1, <1>3 DEF ListsOK, Coded, EarlyOK, ReadyOK, VerdictsOK, LoopOK, ExportOK
  <1> QED BY <1>2, <1>4, <1>5 DEF RunOK

LEMMA LoadHistoryKeeps ==
  ASSUME PolicyInv, NEW r \in Runs, LoadHistory(r)
  PROVE  VarTypes' /\ RunOK(r)'
  <1>1. /\ pc[r] = "load_history" /\ UNCHANGED << files, task, outputs >> /\ black' = black
        /\ Unavailable(r) \/ ReadRows(r) \/ BrokenRow(r)
    BY DEF LoadHistory, Unavailable, ReadRows, BrokenRow
  <1>2. /\ results[r] = << >> /\ reasons[r] = << >> /\ rest[r] = {} /\ exported[r] = {}
        /\ candidates'[r] = candidates[r] /\ rules'[r] = rules[r] /\ exported'[r] = {}
    BY <1>1 DEF PolicyInv, RunOK, EarlyOK, ExportOK, Reading, task, outputs
  <1>3. /\ Len(candidates[r]) \in Nat /\ DOMAIN candidates[r] = 1..Len(candidates[r])
        /\ candidates[r] # << >> => Len(candidates[r]) > 0
    <2>1. candidates[r] \in Searches \cup {<< >>}
      BY DEF PolicyInv, VarTypes
    <2> QED BY <2>1, SearchLengths
  <1>4. /\ contacts' \in [Runs -> 0..Len(History)] /\ ready' \in [Runs -> BOOLEAN]
        /\ misled' \in [Runs -> SUBSET Callers] /\ faults' \in 0..MaxFaults
    <2>1. CASE Unavailable(r)
      BY <2>1, FaultsAssumption DEF Unavailable, PolicyInv, VarTypes
    <2>2. CASE BrokenRow(r)
      BY <2>2 DEF BrokenRow, PolicyInv, VarTypes
    <2>3. CASE ReadRows(r)
      <3>1. PICK n \in 0..Len(History) :
              /\ contacts' = [contacts EXCEPT ![r] = n]
              /\ misled' = IF n = Len(History) THEN misled
                           ELSE [misled EXCEPT ![r] = @ \cup AtHistory]
        BY <2>3 DEF ReadRows
      <3>2. misled' \in [Runs -> SUBSET Callers]
        BY <3>1 DEF AtHistory, PolicyInv, VarTypes
      <3> QED BY <2>3, <3>1, <3>2 DEF ReadRows, PolicyInv, VarTypes
    <2> QED BY <1>1, <2>1, <2>2, <2>3
  <1>5. CASE ready'[r]
    <2>1. StartRules(r)
      BY <1>5 DEF LoadHistory
    <2>2. /\ pc'[r] = IF candidates[r] = << >> THEN "selecting" ELSE "trying"
          /\ rest' = [rest EXCEPT ![r] = Enabled(rules[r])] /\ rest'[r] = Enabled(rules[r])
          /\ UNCHANGED << reasons, results, counts >>
      BY <2>1, RunsAssumption DEF StartRules, FirstCandidate, Goto, PolicyInv, FilesInv, VarTypes
    <2>3. VarTypes'
      BY <1>1, <1>4, <2>2 DEF PolicyInv, VarTypes, task, outputs
    <2>4. ListsOK(r)'
      <3>1. /\ reasons'[r] = << >> /\ results'[r] = << >> /\ rest'[r] = Enabled(rules'[r])
            /\ Len(candidates'[r]) >= 0
            /\ pc'[r] = "trying" => Len(candidates'[r]) > 0
        BY <1>2, <1>3, <2>2
      <3> QED BY <3>1 DEF ListsOK, Coded
    <2>5. LoopOK(r)'
      BY <1>2, <2>2 DEF LoopOK, Against
    <2>6. InputsOK(r)'
      <3> SUFFICES ASSUME misled'[r] = {} PROVE black'[r] = Blacklist /\ contacts'[r] = Len(History)
        BY DEF InputsOK
      <3>1. ready[r]
        BY <1>1, <1>5 DEF Unavailable, ReadRows, BrokenRow, PolicyInv, VarTypes
      <3>2. ReadRows(r)
        BY <1>1, <1>5 DEF Unavailable, BrokenRow, PolicyInv, VarTypes
      <3>3. PICK n \in 0..Len(History) :
              /\ history = 1..(2 * n) /\ contacts' = [contacts EXCEPT ![r] = n]
              /\ misled' = IF n = Len(History) THEN misled
                           ELSE [misled EXCEPT ![r] = @ \cup AtHistory]
        BY <3>2 DEF ReadRows, Parses
      <3>4. contacts'[r] = n /\ misled[r] = {} /\ (n # Len(History) => AtHistory = {})
        <4>1. contacts'[r] = n
          BY <3>3 DEF PolicyInv, VarTypes
        <4>2. CASE n = Len(History)
          BY <3>3, <4>1, <4>2
        <4>3. CASE n # Len(History)
          <5>1. misled'[r] = misled[r] \cup AtHistory
            BY <3>3, <4>3 DEF PolicyInv, VarTypes
          <5> QED BY <4>1, <5>1
        <4> QED BY <4>2, <4>3
      <3>5. history = Halves \/ AtHistory # {}
        BY <1>1, RunsAssumption DEF PolicyInv, FilesInv, HistoryWhole
      <3>6. history = Halves => n = Len(History)
        <4>1. ASSUME history = Halves PROVE ~ (n < Len(History))
          <5>1. ASSUME n < Len(History) PROVE HistoryEnd \in Halves /\ HistoryEnd \notin 1..(2 * n)
            BY <5>1, HistorySize DEF Halves, HistoryEnd
          <5> QED BY <3>3, <4>1, <5>1
        <4> QED BY <4>1, HistorySize
      <3>7. black[r] = Blacklist
        BY <1>1, <3>1, <3>4 DEF PolicyInv, RunOK, InputsOK
      <3> QED BY <1>1, <3>4, <3>5, <3>6, <3>7
    <2>7. EarlyOK(r)' /\ ReadyOK(r)' /\ VerdictsOK(r)' /\ ExportOK(r)'
      BY <1>2, <1>5, <2>2 DEF EarlyOK, ReadyOK, VerdictsOK, ExportOK, Reading, Early, Writing
    <2> QED BY <2>3, <2>4, <2>5, <2>6, <2>7 DEF RunOK
  <1>6. CASE ~ ready'[r]
    <2>1. FailClosed(r)
      BY <1>6 DEF LoadHistory
    <2> DEFINE all == [i \in DOMAIN candidates[r] |-> << SystemRule >>]
    <2>2. /\ pc'[r] = "auditing" /\ results' = [results EXCEPT ![r] = all] /\ results'[r] = all
          /\ UNCHANGED << rest, reasons >>
          /\ counts' = [counts EXCEPT ![r] = [counts[r] EXCEPT ![SystemReason] = Len(candidates[r])]]
      BY <2>1, RunsAssumption DEF FailClosed, Goto, PolicyInv, FilesInv, VarTypes
    <2>3. counts' \in [Runs -> [Reasons -> Nat]]
      BY <1>3, <2>2 DEF PolicyInv, VarTypes
    <2>4. VarTypes'
      BY <1>1, <1>4, <2>2, <2>3 DEF PolicyInv, VarTypes, task, outputs
    <2>5. all \in Seq(Seq(DOMAIN rules[r] \cup {SystemRule})) /\ Len(all) = Len(candidates[r])
      <3>1. << SystemRule >> \in Seq(DOMAIN rules[r] \cup {SystemRule})
        OBVIOUS
      <3> QED BY <1>3, <3>1
    <2>6. \A i \in DOMAIN all : all[i] = << SystemRule >>
      OBVIOUS
    <2> HIDE DEF all
    <2>7. ListsOK(r)'
      <3>1. /\ reasons'[r] = << >> /\ rest'[r] = {} /\ pc'[r] = "auditing"
            /\ results'[r] \in Seq(Seq(DOMAIN rules'[r] \cup {SystemRule}))
            /\ Len(results'[r]) <= Len(candidates'[r])
            /\ \A i \in DOMAIN results'[r] : results'[r][i] = << SystemRule >>
        BY <1>2, <1>3, <2>2, <2>5, <2>6
      <3>2. Coded(rules'[r], << SystemRule >>) /\ Coded(rules'[r], << >>)
        BY DEF Coded
      <3> QED BY <3>1, <3>2 DEF ListsOK
    <2>8. EarlyOK(r)' /\ ReadyOK(r)' /\ VerdictsOK(r)' /\ LoopOK(r)' /\ InputsOK(r)' /\ ExportOK(r)'
      BY <1>2, <1>6, <2>2, <2>6
         DEF EarlyOK, ReadyOK, VerdictsOK, LoopOK, InputsOK, ExportOK, Reading, Early, Writing
    <2> QED BY <2>4, <2>7, <2>8 DEF RunOK
  <1> QED BY <1>5, <1>6

LEMMA AppendIs ==
  ASSUME NEW S, NEW s \in Seq(S), NEW e \in S
  PROVE  /\ Append(s, e) \in Seq(S) /\ Append(s, e) # << >>
         /\ Len(s) \in Nat /\ Len(Append(s, e)) = Len(s) + 1
         /\ DOMAIN s = 1..Len(s) /\ DOMAIN Append(s, e) = 1..(Len(s) + 1)
         /\ Append(s, e)[Len(s) + 1] = e
         /\ \A m \in 1..Len(s) : Append(s, e)[m] = s[m]
  <1>1. /\ Append(s, e) \in Seq(S) /\ Len(s) \in Nat /\ Len(Append(s, e)) = Len(s) + 1
        /\ DOMAIN s = 1..Len(s)
    OBVIOUS
  <1>2. DOMAIN Append(s, e) = 1..(Len(s) + 1)
    BY <1>1
  <1>3. Append(s, e)[Len(s) + 1] = e /\ \A m \in 1..Len(s) : Append(s, e)[m] = s[m]
    BY <1>1
  <1>4. Append(s, e) # << >>
    BY <1>1
  <1> QED BY <1>1, <1>2, <1>3, <1>4

\* The places of results are places of candidates.
LEMMA ResultPlaces ==
  ASSUME PolicyInv, NEW r \in Runs
  PROVE  /\ results[r] \in Seq(Seq(DOMAIN rules[r] \cup {SystemRule}))
         /\ Len(results[r]) \in Nat /\ DOMAIN results[r] = 1..Len(results[r])
         /\ Len(candidates[r]) \in Nat /\ DOMAIN candidates[r] = 1..Len(candidates[r])
         /\ DOMAIN results[r] \subseteq DOMAIN candidates[r]
         /\ \A i \in DOMAIN candidates[r] : Row(r, i) \in Customers
         /\ \A i, j \in DOMAIN candidates[r] : Row(r, i) = Row(r, j) => i = j
  <1>1. candidates[r] \in Searches \cup {<< >>}
    BY DEF PolicyInv, VarTypes
  <1>2. results[r] \in Seq(Seq(DOMAIN rules[r] \cup {SystemRule})) /\ Len(results[r]) <= Len(candidates[r])
    BY DEF PolicyInv, RunOK, ListsOK
  <1>3. /\ Len(candidates[r]) \in Nat /\ DOMAIN candidates[r] = 1..Len(candidates[r])
        /\ \A i \in DOMAIN candidates[r] : Row(r, i) \in Customers
        /\ \A i, j \in DOMAIN candidates[r] : Row(r, i) = Row(r, j) => i = j
    BY <1>1, SearchLengths DEF Row
  <1>4. Len(results[r]) \in Nat /\ DOMAIN results[r] = 1..Len(results[r])
    BY <1>2
  <1> QED BY <1>2, <1>3, <1>4

LEMMA MemberOf ==
  ASSUME NEW S, NEW s \in Seq(S), NEW i \in DOMAIN s
  PROVE  s[i] \in S
  OBVIOUS

LEMMA TryRuleKeeps ==
  ASSUME PolicyInv, NEW r \in Runs, TryRule(r)
  PROVE  VarTypes' /\ RunOK(r)'
  <1>1. /\ pc[r] = "trying" /\ UNCHANGED << files, task, inputs, results, counts, outputs, faults >>
        /\ ready[r] /\ RunOK(r)
    BY DEF TryRule, PolicyInv, RunOK, ReadyOK
  <1>2. PICK k \in rest[r] :
          /\ IsNext(rules[r], k, rest[r])
          /\ \/ ~ CannotEvaluate(rules[r][k], ContextNow(r)) /\ (Pass(r, k) \/ AddReason(r, k))
             \/ RuleRaises(r, k)
    BY DEF TryRule
  <1> DEFINE x == Candidate(r)
             all == Against(rules[r], r, x, black[r], contacts[r])
  <1>3. /\ UNCHANGED << rules, candidates, black, contacts, ready, misled, exported >>
        /\ x' = x /\ all' = all
    BY <1>1 DEF task, inputs, outputs, Candidate
  <1>4. k \in Enabled(rules[r]) /\ k \in DOMAIN rules[r]
    BY <1>1 DEF RunOK, ListsOK, Enabled
  <1>5. Rejects(rules[r][k], ContextNow(r)) <=> k \in all
    BY <1>4 DEF Against, ContextNow
  <1>6. \A l \in rest[r] \ {k} : Precedes(rules[r], k, l)
    BY <1>2 DEF IsNext
  <1>7. EarlyOK(r)' /\ VerdictsOK(r)'
    <2>1. pc'[r] \in {"trying", "raised"}
      BY <1>1, <1>2, RunsAssumption DEF Pass, AddReason, RuleRaises, Goto, PolicyInv, FilesInv
    <2> QED BY <1>1, <1>3, <2>1 DEF RunOK, EarlyOK, VerdictsOK, Reading, Early, Writing
  <1> DEFINE loop == /\ \A m \in DOMAIN reasons[r] : reasons[r][m] \in all
                     /\ \A m, n \in DOMAIN reasons[r] :
                          m < n => Precedes(rules[r], reasons[r][m], reasons[r][n])
                     /\ \A m \in DOMAIN reasons[r] : \A l \in rest[r] :
                          Precedes(rules[r], reasons[r][m], l)
                     /\ reasons[r] = << >> => all \subseteq rest[r]
  <1>8. loop /\ reasons[r] \in Seq(DOMAIN rules[r])
    BY <1>1 DEF RunOK, LoopOK, ListsOK
  <1> HIDE DEF all, x
  <1>9. CASE Pass(r, k)
    <2>1. /\ rest' = [rest EXCEPT ![r] = rest[r] \ {k}] /\ rest'[r] = rest[r] \ {k}
          /\ UNCHANGED << reasons, pc >> /\ k \notin all
      BY <1>5, <1>9 DEF Pass, PolicyInv, VarTypes
    <2>2. VarTypes'
      BY <1>1, <2>1 DEF PolicyInv, VarTypes, task, inputs, outputs
    <2>3. ListsOK(r)'
      BY <1>1, <1>3, <2>1 DEF RunOK, ListsOK
    <2>4. loop'
      BY <1>3, <1>8, <2>1
    <2>5. LoopOK(r)'
      BY <2>4 DEF LoopOK, all, x
    <2>6. ReadyOK(r)' /\ InputsOK(r)' /\ ExportOK(r)'
      BY <1>1, <1>3, <2>1 DEF RunOK, ReadyOK, InputsOK, ExportOK, Row, Approved
    <2> QED BY <1>7, <2>2, <2>3, <2>5, <2>6 DEF RunOK
  <1>10. CASE AddReason(r, k)
    <2>1. /\ reasons' = [reasons EXCEPT ![r] = Append(reasons[r], k)]
          /\ reasons'[r] = Append(reasons[r], k)
          /\ rest'[r] \subseteq rest[r] \ {k} /\ DOMAIN rest' = Runs
          /\ UNCHANGED pc /\ k \in all /\ rules[r][k].reason \in Reasons
      BY <1>5, <1>10 DEF AddReason, PolicyInv, VarTypes
    <2>2. VarTypes'
      BY <1>1, <2>1 DEF PolicyInv, VarTypes, task, inputs, outputs
    <2> DEFINE old == reasons[r]
               new == Append(old, k)
    <2>3. /\ new \in Seq(DOMAIN rules[r]) /\ Len(old) \in Nat /\ new # << >>
          /\ DOMAIN old = 1..Len(old) /\ DOMAIN new = 1..(Len(old) + 1)
          /\ new[Len(old) + 1] = k /\ \A m \in 1..Len(old) : new[m] = old[m]
      <3>1. old \in Seq(DOMAIN rules[r]) /\ k \in DOMAIN rules[r]
        BY <1>4, <1>8
      <3> HIDE DEF old
      <3> QED BY <3>1, AppendIs
    <2> HIDE DEF new
    <2>4. Coded(rules[r], new)
      <3>1. Coded(rules[r], old)
        BY <1>1 DEF RunOK, ListsOK
      <3>2. \A m \in DOMAIN new : m \in 1..Len(old) \/ m = Len(old) + 1
        BY <2>3
      <3> QED BY <2>1, <2>3, <3>1, <3>2 DEF Coded
    <2>5. reasons'[r] = new
      BY <2>1 DEF new
    <2>6. ListsOK(r)'
      BY <1>1, <1>3, <2>1, <2>3, <2>4, <2>5 DEF RunOK, ListsOK
    <2>7. loop'
      <3>1. \A m \in DOMAIN new : new[m] \in all
        BY <1>8, <2>1, <2>3
      <3>2. \A m, n \in DOMAIN new : m < n => Precedes(rules[r], new[m], new[n])
        <4> SUFFICES ASSUME NEW m \in DOMAIN new, NEW n \in DOMAIN new, m < n
                     PROVE  Precedes(rules[r], new[m], new[n])
          OBVIOUS
        <4>1. m \in 1..Len(old) /\ (n \in 1..Len(old) \/ n = Len(old) + 1)
          BY <2>3
        <4> QED BY <1>8, <2>3, <4>1
      <3>3. \A m \in DOMAIN new : \A l \in rest'[r] : Precedes(rules[r], new[m], l)
        <4> SUFFICES ASSUME NEW m \in DOMAIN new, NEW l \in rest'[r]
                     PROVE  Precedes(rules[r], new[m], l)
          OBVIOUS
        <4>1. l \in rest[r] \ {k} /\ (m \in 1..Len(old) \/ m = Len(old) + 1)
          BY <2>1, <2>3
        <4> QED BY <1>6, <1>8, <2>3, <4>1
      <3> QED BY <1>3, <2>3, <2>5, <3>1, <3>2, <3>3
    <2>8. LoopOK(r)'
      BY <2>7 DEF LoopOK, all, x
    <2>9. ReadyOK(r)' /\ InputsOK(r)' /\ ExportOK(r)'
      BY <1>1, <1>3, <2>1 DEF RunOK, ReadyOK, InputsOK, ExportOK, Row, Approved
    <2> QED BY <1>7, <2>2, <2>6, <2>8, <2>9 DEF RunOK
  <1>11. CASE RuleRaises(r, k)
    <2>1. pc'[r] = "raised" /\ UNCHANGED << rest, reasons >>
      BY <1>11, RunsAssumption DEF RuleRaises, Goto, PolicyInv, FilesInv
    <2>2. VarTypes'
      BY <1>1, <2>1 DEF PolicyInv, VarTypes, task, inputs, outputs
    <2>3. ListsOK(r)'
      BY <1>1, <1>3, <2>1 DEF RunOK, ListsOK
    <2>4. LoopOK(r)' /\ ReadyOK(r)' /\ InputsOK(r)' /\ ExportOK(r)'
      BY <1>1, <1>3, <2>1 DEF RunOK, LoopOK, ReadyOK, InputsOK, ExportOK, Row, Approved
    <2> QED BY <1>7, <2>2, <2>3, <2>4 DEF RunOK
  <1> QED BY <1>2, <1>9, <1>10, <1>11

LEMMA DecideKeeps ==
  ASSUME PolicyInv, NEW r \in Runs, Decide(r)
  PROVE  VarTypes' /\ RunOK(r)'
  <1>1. /\ pc[r] = "trying" /\ rest[r] = {}
        /\ UNCHANGED << files, task, inputs, outputs, faults >>
        /\ ready[r] /\ RunOK(r)
    BY DEF Decide, PolicyInv, RunOK, ReadyOK
  <1>2. UNCHANGED << rules, candidates, black, contacts, ready, misled, exported >>
    BY <1>1 DEF task, inputs, outputs
  <1> DEFINE old == results[r]
             why == reasons[r]
             new == Append(old, why)
             all(i) == Against(rules[r], r, candidates[r][i], black[r], contacts[r])
  <1>3. /\ results' = [results EXCEPT ![r] = new] /\ results'[r] = new
        /\ reasons' = [reasons EXCEPT ![r] = << >>] /\ reasons'[r] = << >>
        /\ rest' = [rest EXCEPT ![r] = Enabled(rules[r])] /\ rest'[r] = Enabled(rules[r])
        /\ pc'[r] = IF Len(old) + 1 = Len(candidates[r]) THEN "selecting" ELSE "trying"
    BY RunsAssumption DEF Decide, Goto, PolicyInv, FilesInv, VarTypes
  <1>4. counts' \in [Runs -> [Reasons -> Nat]]
    <2> DEFINE met(c) == Cardinality({m \in DOMAIN why : CodeOf(r, why[m]) = c})
    <2>1. \A c : met(c) \in Nat
      <3>1. Len(why) \in Nat /\ DOMAIN why = 1..Len(why)
        BY <1>1 DEF RunOK, ListsOK
      <3>2. IsFiniteSet(1..Len(why))
        BY <3>1, FS_Interval
      <3>3. \A c : IsFiniteSet({m \in DOMAIN why : CodeOf(r, why[m]) = c})
        BY <3>1, <3>2, FS_Subset
      <3> QED BY <3>3, FS_CardinalityType
    <2>2. counts' = [counts EXCEPT ![r] = [c \in Reasons |-> counts[r][c] + met(c)]]
      BY DEF Decide
    <2> HIDE DEF met
    <2> QED BY <2>1, <2>2 DEF PolicyInv, VarTypes
  <1>5. VarTypes'
    BY <1>1, <1>3, <1>4 DEF PolicyInv, VarTypes, task, inputs, outputs
  <1>6. /\ old \in Seq(Seq(DOMAIN rules[r] \cup {SystemRule})) /\ why \in Seq(DOMAIN rules[r])
        /\ Len(old) < Len(candidates[r]) /\ Len(candidates[r]) \in Nat
        /\ Coded(rules[r], why) /\ \A i \in DOMAIN old : Coded(rules[r], old[i])
    BY <1>1, ResultPlaces DEF RunOK, ListsOK
  <1>7. why \in Seq(DOMAIN rules[r] \cup {SystemRule})
    BY <1>6
  <1>8. /\ new \in Seq(Seq(DOMAIN rules[r] \cup {SystemRule}))
        /\ Len(old) \in Nat /\ Len(new) = Len(old) + 1
        /\ DOMAIN old = 1..Len(old) /\ DOMAIN new = 1..(Len(old) + 1)
        /\ new[Len(old) + 1] = why /\ \A m \in 1..Len(old) : new[m] = old[m]
    BY <1>6, <1>7, AppendIs
  <1>9. Verdict(rules[r], why, all(Len(old) + 1))
    <2> DEFINE mine == all(Len(old) + 1)
    <2>1. /\ \A m \in DOMAIN why : why[m] \in mine
          /\ \A m, n \in DOMAIN why : m < n => Precedes(rules[r], why[m], why[n])
          /\ why = << >> => mine \subseteq {}
      BY <1>1 DEF RunOK, LoopOK, Candidate
    <2>2. why # << >> => 1 \in DOMAIN why
      BY <1>6
    <2> HIDE DEF mine
    <2>3. Verdict(rules[r], why, mine)
      BY <2>1, <2>2 DEF Verdict
    <2> QED BY <2>3 DEF mine
  <1> HIDE DEF new
  <1>10. \A i \in DOMAIN new : i \in DOMAIN old \/ i = Len(old) + 1
    BY <1>8
  <1>11. ListsOK(r)'
    <2>1. \A i \in DOMAIN new : Coded(rules[r], new[i])
      BY <1>6, <1>8, <1>10
    <2>2. /\ Len(new) <= Len(candidates[r])
          /\ pc'[r] = "trying" => Len(new) < Len(candidates[r])
      BY <1>3, <1>6, <1>8
    <2>3. Coded(rules[r], << >>)
      BY DEF Coded
    <2>4. << >> \in Seq(DOMAIN rules[r])
      OBVIOUS
    <2>5. /\ rest'[r] = Enabled(rules[r]) /\ reasons'[r] = << >> /\ results'[r] = new
          /\ rules'[r] = rules[r] /\ candidates'[r] = candidates[r]
      BY <1>2, <1>3
    <2> QED BY <1>8, <2>1, <2>2, <2>3, <2>4, <2>5 DEF ListsOK
  <1>12. VerdictsOK(r)'
    <2>1. \A i \in DOMAIN old : Verdict(rules[r], old[i], all(i))
      BY <1>1 DEF RunOK, VerdictsOK
    <2>2. \A i \in DOMAIN new : Verdict(rules[r], new[i], all(i))
      BY <1>8, <1>9, <1>10, <2>1
    <2> QED BY <1>2, <1>3, <2>2 DEF VerdictsOK
  <1>13. LoopOK(r)'
    <2>1. Against(rules'[r], r, Candidate(r)', black'[r], contacts'[r]) \subseteq rest'[r]
      BY <1>2, <1>3 DEF Against
    <2>2. reasons'[r] = << >>
      BY <1>3
    <2> HIDE DEF all
    <2> QED BY <2>1, <2>2 DEF LoopOK
  <1>14. EarlyOK(r)' /\ ReadyOK(r)' /\ InputsOK(r)' /\ ExportOK(r)'
    <2>1. pc'[r] \in {"selecting", "trying"} /\ exported'[r] = {}
      BY <1>1, <1>2, <1>3 DEF RunOK, ExportOK
    <2> QED BY <1>1, <1>2, <2>1
            DEF RunOK, EarlyOK, ReadyOK, InputsOK, ExportOK, Reading, Early, Writing
  <1> QED BY <1>5, <1>11, <1>12, <1>13, <1>14 DEF RunOK

\* What is done with the results leaves them as they are.
LEMMA ResultsStay ==
  ASSUME PolicyInv, NEW r \in Runs, UNCHANGED << files, task, inputs, verdicts >>,
         pc[r] \in {"selecting", "auditing", "exporting"},
         pc'[r] \in {"auditing", "exporting", "done"}
  PROVE  /\ ListsOK(r)' /\ EarlyOK(r)' /\ ReadyOK(r)' /\ VerdictsOK(r)' /\ LoopOK(r)' /\ InputsOK(r)'
         /\ Approved(r)' = Approved(r) /\ \A i : Row(r, i)' = Row(r, i)
  <1>1. RunOK(r)
    BY DEF PolicyInv
  <1> QED BY <1>1
          DEF RunOK, ListsOK, EarlyOK, ReadyOK, VerdictsOK, LoopOK, InputsOK, Approved, Row,
              Reading, Early, Writing, task, inputs, verdicts

LEMMA SelectKeeps ==
  ASSUME PolicyInv, NEW r \in Runs, Select(r)
  PROVE  VarTypes' /\ RunOK(r)'
  <1>1. /\ pc[r] = "selecting" /\ pc'[r] = "auditing"
        /\ UNCHANGED << files, task, inputs, verdicts, audited, decisions, exported, faults >>
        /\ selected' = [selected EXCEPT ![r] = {candidates[r][i].customer : i \in Best(r)}]
    BY RunsAssumption DEF Select, Goto, PolicyInv, FilesInv
  <1>2. Best(r) \subseteq DOMAIN candidates[r]
    BY ResultPlaces DEF Best, Approved
  <1>3. {candidates[r][i].customer : i \in Best(r)} \subseteq Customers
    <2>1. \A i \in DOMAIN candidates[r] : candidates[r][i].customer \in Customers
      BY ResultPlaces DEF Row
    <2> QED BY <1>2, <2>1
  <1>4. VarTypes'
    BY <1>1, <1>3 DEF PolicyInv, VarTypes, task, inputs, verdicts, DecisionRows
  <1>5. ExportOK(r)'
    BY <1>1 DEF PolicyInv, RunOK, ExportOK
  <1> QED BY <1>1, <1>4, <1>5, ResultsStay DEF RunOK

LEMMA WriteAuditKeeps ==
  ASSUME PolicyInv, NEW r \in Runs, WriteAudit(r)
  PROVE  VarTypes' /\ RunOK(r)'
  <1>1. /\ pc[r] = "auditing" /\ pc'[r] = "exporting"
        /\ UNCHANGED << files, task, inputs, verdicts, selected, exported, faults >>
        /\ audited' = [audited EXCEPT ![r] =
                         {Row(r, i) : i \in {j \in DOMAIN results[r] : Row(r, j) \in selected[r]}}]
        /\ decisions' = [decisions EXCEPT ![r] = {DecisionRow(r, i) : i \in DOMAIN results[r]}]
    BY RunsAssumption DEF WriteAudit, Goto, PolicyInv, FilesInv
  <1>2. {Row(r, i) : i \in {j \in DOMAIN results[r] : Row(r, j) \in selected[r]}} \subseteq Customers
    <2>1. \A i \in DOMAIN results[r] : Row(r, i) \in Customers
      BY ResultPlaces
    <2> QED BY <2>1
  <1>3. ASSUME NEW i \in DOMAIN results[r] PROVE DecisionRow(r, i) \in DecisionRows
    <2> DEFINE why == results[r][i]
               codes == [m \in DOMAIN why |-> CodeOf(r, why[m])]
    <2>1. why \in Seq(DOMAIN rules[r] \cup {SystemRule}) /\ Coded(rules[r], why)
      BY ResultPlaces, MemberOf DEF PolicyInv, RunOK, ListsOK
    <2>2. Len(why) \in Nat /\ DOMAIN why = 1..Len(why)
      BY <2>1
    <2>3. \A m \in DOMAIN why : CodeOf(r, why[m]) \in Reasons
      BY <2>1, ReasonsAssumption DEF Coded, CodeOf
    <2>4. codes \in Seq(Reasons)
      BY <2>2, <2>3
    <2> HIDE DEF codes
    <2>5. Row(r, i) \in Customers /\ Flagged(r, i) \in BOOLEAN
      BY ResultPlaces DEF Flagged
    <2>6. DecisionRow(r, i) = [customer |-> Row(r, i),
                               decision |-> IF i \in Approved(r) THEN "approve" ELSE "reject",
                               codes |-> codes, selected |-> Flagged(r, i)]
      BY DEF DecisionRow, codes
    <2> QED BY <2>4, <2>5, <2>6 DEF DecisionRows
  <1>4. decisions' \in [Runs -> SUBSET DecisionRows]
    BY <1>1, <1>3 DEF PolicyInv, VarTypes
  <1>5. VarTypes'
    BY <1>1, <1>2, <1>4 DEF PolicyInv, VarTypes, task, inputs, verdicts
  <1>6. ExportOK(r)'
    BY <1>1 DEF PolicyInv, RunOK, ExportOK
  <1> QED BY <1>1, <1>5, <1>6, ResultsStay DEF RunOK

LEMMA ExportKeeps ==
  ASSUME PolicyInv, NEW r \in Runs, Export(r)
  PROVE  VarTypes' /\ RunOK(r)'
  <1> DEFINE out == {Row(r, i) : i \in {j \in DOMAIN results[r] : Flagged(r, j)}}
  <1>1. /\ pc[r] = "exporting" /\ pc'[r] = "done"
        /\ UNCHANGED << files, task, inputs, verdicts, selected, audited, decisions, faults >>
        /\ exported' = [exported EXCEPT ![r] = out] /\ exported'[r] = out
    BY RunsAssumption DEF Export, Goto, PolicyInv, FilesInv, VarTypes
  <1>2. out \subseteq Customers
    <2>1. \A i \in DOMAIN results[r] : Row(r, i) \in Customers
      BY ResultPlaces
    <2> QED BY <2>1
  <1>3. VarTypes'
    BY <1>1, <1>2 DEF PolicyInv, VarTypes, task, inputs, verdicts, DecisionRows
  <1>4. ASSUME NEW i \in DOMAIN candidates[r], Row(r, i) \in out PROVE i \in Approved(r)
    <2>1. PICK j \in DOMAIN results[r] : Flagged(r, j) /\ Row(r, i) = Row(r, j)
      BY <1>4
    <2>2. i = j
      BY <2>1, ResultPlaces
    <2> QED BY <2>1, <2>2 DEF Flagged
  <1> HIDE DEF out
  <1>5. ExportOK(r)'
    <2>1. candidates' = candidates
      BY <1>1 DEF task
    <2> QED BY <1>1, <1>4, <2>1, ResultsStay DEF ExportOK
  <1> QED BY <1>1, <1>3, <1>5, ResultsStay DEF RunOK


LEMMA DieKeeps ==
  ASSUME PolicyInv, NEW p \in Callers, Die(p)
  PROVE  PolicyInv'
  <1>1. PICK next \in {"died", "died_in_blacklist", "died_in_history"} :
          /\ Goto(p, next)
          /\ IF pc[p] = "in_blacklist" THEN next = "died_in_blacklist"
             ELSE IF pc[p] = "in_history" THEN next = "died_in_history"
             ELSE (pc[p] = "between" /\ next = "died") \/ pc[p] \in Evaluating
    BY DEF Die, Writing
  <1>2. UNCHANGED << files, task, inputs, verdicts, outputs >> /\ faults' \in 0..MaxFaults
        /\ pc[p] # "done"
    BY FaultsAssumption DEF Die, PolicyInv, VarTypes, Writing, Evaluating
  <1>3. FilesInv'
    BY <1>1, <1>2, OtherStepsKeepFiles DEF PolicyInv, Ended
  <1>4. VarTypes'
    BY <1>2 DEF PolicyInv, VarTypes, task, inputs, verdicts, outputs
  <1>5. ASSUME NEW r \in Runs PROVE RunOK(r)'
    <2>1. Kept(r)
      BY <1>2 DEF Kept, task, inputs, verdicts, outputs
    <2>2. pc'[r] = pc[r] \/ (pc[r] # "done" /\ pc'[r] = next)
      BY <1>1, <1>2, RunsAssumption DEF Goto, PolicyInv, FilesInv
    <2> QED BY <1>1, <2>1, <2>2, KeptRun DEF PolicyInv
  <1> QED BY <1>3, <1>4, <1>5 DEF PolicyInv

LEMMA GenerateKeeps ==
  ASSUME PolicyInv, NEW p \in Callers, Generate(p)
  PROVE  PolicyInv'
  <1>1. FilesInv' /\ UNCHANGED << task, inputs, verdicts, outputs, faults >>
    BY GenerateKeepsFiles
       DEF PolicyInv, Generate, OpenBlacklist, CloseBlacklist, OpenHistory, WriteHistory
  <1>2. VarTypes'
    BY <1>1 DEF PolicyInv, VarTypes, task, inputs, verdicts, outputs
  <1>3. ASSUME NEW r \in Runs PROVE RunOK(r)'
    <2>1. Kept(r)
      BY <1>1 DEF Kept, task, inputs, verdicts, outputs
    <2>2. pc'[r] = pc[r] \/ (pc[r] \in Early /\ pc'[r] \in Early \cup {"retrieving"})
      BY RunsAssumption
         DEF Generate, OpenBlacklist, CloseBlacklist, OpenHistory, WriteHistory, Goto,
             Early, Writing, PolicyInv, FilesInv
    <2> QED BY <2>1, <2>2, KeptRun DEF PolicyInv
  <1> QED BY <1>1, <1>2, <1>3 DEF PolicyInv

LEMMA EvaluateKeeps ==
  ASSUME PolicyInv, NEW r \in Runs, Evaluate(r)
  PROVE  PolicyInv'
  <1>1. VarTypes' /\ RunOK(r)'
    BY RetrieveKeeps, LoadBlacklistKeeps, LoadHistoryKeeps, TryRuleKeeps, DecideKeeps,
       SelectKeeps, WriteAuditKeeps, ExportKeeps DEF Evaluate
  <1>2. \A q \in Runs \ {r} : RunOK(q)'
    BY OthersKept, KeptRun DEF PolicyInv
  <1>3. UNCHANGED files /\ pc[r] \in Evaluating
    BY DEF Evaluate, Retrieve, LoadBlacklist, LoadHistory, TryRule, Decide, Select, WriteAudit,
           Export, Evaluating
  <1>4. \/ UNCHANGED pc
        \/ \E next \in Evaluating \cup Ended : Goto(r, next)
    BY DEF Evaluate, Retrieve, LoadBlacklist, LoadHistory, FailClosed, StartRules, FirstCandidate,
           TryRule, Pass, AddReason, RuleRaises, Decide, Select, WriteAudit, Export, Evaluating, Ended
  <1>5. FilesInv'
    BY <1>3, <1>4, OtherStepsKeepFiles, RunsAssumption DEF PolicyInv, Evaluating
  <1> QED BY <1>1, <1>2, <1>5 DEF PolicyInv

LEMMA Invariance == Spec => []PolicyInv
  <1>1. PolicyInv /\ [Next]_vars => PolicyInv'
    <2> SUFFICES ASSUME PolicyInv, [Next]_vars PROVE PolicyInv'
      OBVIOUS
    <2>1. CASE UNCHANGED vars
      <3>1. UNCHANGED << files, pc, task, inputs, verdicts, outputs, faults >>
        BY <2>1 DEF vars
      <3>2. FilesInv'
        BY <3>1 DEF PolicyInv, FilesInv, BlacklistWhole, HistoryWhole, AtBlacklist, AtHistory, files
      <3>3. VarTypes'
        BY <3>1 DEF PolicyInv, VarTypes, task, inputs, verdicts, outputs
      <3>4. \A r \in Runs : RunOK(r)'
        BY <3>1, KeptRun DEF Kept, PolicyInv, task, inputs, verdicts, outputs
      <3> QED BY <3>2, <3>3, <3>4 DEF PolicyInv
    <2> QED BY <2>1, GenerateKeeps, DieKeeps, EvaluateKeeps DEF Next
  <1> QED BY <1>1, InitRuns, PTL DEF Spec

-----------------------------------------------------------------------------
(* Theorems                                                                *)

\* Whatever the policies, the searches and the files: a run evaluates no more
\* candidates than it has found, and every decision it audits has codes of the
\* dictionary.
THEOREM PolicyTypes == Spec => []TypeOK
  <1>1. ASSUME PolicyInv, NEW r \in Runs
        PROVE  /\ rest[r] \subseteq DOMAIN rules[r]
               /\ reasons[r] \in Seq(DOMAIN rules[r])
               /\ results[r] \in Seq(Seq(DOMAIN rules[r] \cup {SystemRule}))
               /\ Len(results[r]) <= Len(candidates[r])
               /\ pc[r] = "trying" => Len(results[r]) < Len(candidates[r])
    BY <1>1 DEF PolicyInv, RunOK, ListsOK, Enabled
  <1>2. PolicyInv => TypeOK
    BY <1>1 DEF PolicyInv, FilesInv, VarTypes, TypeOK, Steps
  <1> QED BY <1>2, Invariance, PTL

\* For every policy, with whatever priorities, stops and actions: who is approved
\* does not depend on the order in which the rules are tried, and the reasons of
\* who is not are in that order.
THEOREM DecisionsAreThePolicys == Spec => []DecisionsFollowPolicy
  <1>1. PolicyInv => DecisionsFollowPolicy
    <2> SUFFICES ASSUME PolicyInv, NEW r \in Runs, ready[r], NEW i \in DOMAIN results[r]
                 PROVE  Verdict(rules[r], results[r][i],
                                RejectedBy(r, candidates[r][i], black[r], contacts[r]))
      BY DEF DecisionsFollowPolicy, Verdict
    <2> QED BY DEF PolicyInv, RunOK, VerdictsOK, RejectedBy, Against
  <1> QED BY <1>1, Invariance, PTL

\* For any number of processes that rewrite the two input files, and die doing so:
\* a run that has not read a file while somebody was at it exports nobody whom the
\* complete inputs reject.
THEOREM InputsAreRespected == Spec => []InputsRespected
  <1>1. PolicyInv => InputsRespected
    <2> SUFFICES ASSUME PolicyInv, NEW r \in Runs, misled[r] = {},
                        NEW i \in DOMAIN candidates[r], Row(r, i) \in exported[r]
                 PROVE  RejectedBy(r, candidates[r][i], Blacklist, Len(History)) = {}
      BY DEF InputsRespected
    <2>1. RunOK(r)
      BY DEF PolicyInv
    <2>2. pc[r] = "done" /\ i \in DOMAIN results[r] /\ results[r][i] = << >>
      BY <2>1 DEF RunOK, ExportOK, Approved
    <2>3. ready[r]
      BY <2>1, <2>2 DEF RunOK, ReadyOK, PolicyInv, VarTypes
    <2>4. black[r] = Blacklist /\ contacts[r] = Len(History)
      BY <2>1, <2>2, <2>3 DEF RunOK, InputsOK
    <2> QED BY <2>1, <2>2, <2>3, <2>4 DEF RunOK, VerdictsOK, Verdict, RejectedBy, Against
  <1> QED BY <1>1, Invariance, PTL

-----------------------------------------------------------------------------
(* Counting                                                                *)

LEMMA SameSize ==
  ASSUME NEW S, IsFiniteSet(S), NEW T, NEW f \in [S -> T],
         \A x, y \in S : f[x] = f[y] => x = y,
         \A t \in T : \E x \in S : f[x] = t
  PROVE  IsFiniteSet(T) /\ Cardinality(T) = Cardinality(S)
  <1>1. f \in Bijection(S, T)
    BY DEF Bijection, Injection, Surjection, IsInjective
  <1> QED BY <1>1, FS_Bijection DEF ExistsBijection

LEMMA UpTo ==
  ASSUME NEW n \in Nat
  PROVE  IsFiniteSet(1..n) /\ Cardinality(1..n) = n
  BY FS_Interval

\* In a set that is totally ordered, by the members ahead of each, those with
\* fewer than n ahead of them are n, or all if there are no more.
LEMMA FirstOfAnOrder ==
  ASSUME NEW S, IsFiniteSet(S), NEW ahead \in [S -> SUBSET S], NEW n \in Nat,
         \A i \in S : i \notin ahead[i],
         \A i, j \in S : i # j => i \in ahead[j] \/ j \in ahead[i],
         \A i, j \in S : i \in ahead[j] => ahead[i] \subseteq ahead[j]
  PROVE  LET first == {i \in S : Cardinality(ahead[i]) < n} IN
           IF first = S THEN Cardinality(first) <= n ELSE Cardinality(first) = n
  <1> DEFINE N == Cardinality(S)
             first == {i \in S : Cardinality(ahead[i]) < n}
             rank == [i \in S |-> Cardinality(ahead[i])]
  <1>1. N \in Nat
    BY FS_CardinalityType
  <1>2. ASSUME NEW i \in S
        PROVE  IsFiniteSet(ahead[i]) /\ Cardinality(ahead[i]) \in 0..(N - 1)
    <2>1. ahead[i] \in SUBSET S /\ ahead[i] # S
      OBVIOUS
    <2>2. IsFiniteSet(ahead[i]) /\ Cardinality(ahead[i]) <= N /\ Cardinality(ahead[i]) # N
      BY <2>1, FS_Subset
    <2>3. Cardinality(ahead[i]) \in Nat
      BY <2>2, FS_CardinalityType
    <2> HIDE DEF N
    <2> QED BY <1>1, <2>2, <2>3
  <1>3. ASSUME NEW i \in S, NEW j \in S, i \in ahead[j]
        PROVE  Cardinality(ahead[i]) < Cardinality(ahead[j])
    <2>1. ahead[i] \in SUBSET ahead[j] /\ ahead[i] # ahead[j]
      BY <1>3
    <2>2. /\ Cardinality(ahead[i]) <= Cardinality(ahead[j])
          /\ Cardinality(ahead[i]) # Cardinality(ahead[j])
      BY <1>2, <2>1, FS_Subset
    <2> QED BY <1>1, <1>2, <2>2
  <1>4. \A i, j \in S : rank[i] = rank[j] => i = j
    <2> SUFFICES ASSUME NEW i \in S, NEW j \in S, rank[i] = rank[j], i # j PROVE FALSE
      OBVIOUS
    <2>1. i \in ahead[j] \/ j \in ahead[i]
      OBVIOUS
    <2>2. rank[i] \in Nat /\ rank[i] = Cardinality(ahead[i]) /\ rank[j] = Cardinality(ahead[j])
      BY <1>1, <1>2
    <2>3. \/ Cardinality(ahead[i]) < Cardinality(ahead[j])
          \/ Cardinality(ahead[j]) < Cardinality(ahead[i])
      BY <1>3, <2>1
    <2>4. rank[i] = rank[j]
      OBVIOUS
    <2> HIDE DEF rank
    <2> QED BY <2>2, <2>3, <2>4
  <1>5. \A k \in 0..(N - 1) : \E i \in S : rank[i] = k
    <2>1. rank \in Injection(S, 0..(N - 1))
      BY <1>2, <1>4 DEF Injection, IsInjective
    <2>2. IsFiniteSet(0..(N - 1)) /\ Cardinality(0..(N - 1)) = N
      BY <1>1, FS_Interval
    <2> HIDE DEF rank, N
    <2>3. rank \in Surjection(S, 0..(N - 1))
      BY <2>1, <2>2, FS_Injection DEF N
    <2> QED BY <2>3 DEF Surjection
  <1>6. CASE n < N
    <2>1. n \in 0..(N - 1)
      BY <1>1, <1>6
    <2>2. first # S
      <3>1. PICK i \in S : rank[i] = n
        BY <1>5, <2>1
      <3> QED BY <3>1
    <2>3. IsFiniteSet(first)
      BY FS_Subset
    <2> DEFINE place == [i \in first |-> rank[i]]
    <2>4. place \in [first -> 0..(n - 1)]
      <3>1. ASSUME NEW i \in first PROVE rank[i] \in 0..(n - 1)
        BY <1>1, <1>2
      <3> QED BY <3>1
    <2>5. \A i, j \in first : place[i] = place[j] => i = j
      BY <1>4
    <2>6. ASSUME NEW k \in 0..(n - 1) PROVE \E i \in first : place[i] = k
      <3>1. PICK i \in S : rank[i] = k
        BY <1>1, <1>5, <1>6
      <3>2. i \in first
        BY <3>1
      <3> QED BY <3>1, <3>2
    <2>7. Cardinality(0..(n - 1)) = Cardinality(first)
      <3> HIDE DEF place, first
      <3> QED BY <2>3, <2>4, <2>5, <2>6, SameSize
    <2>8. Cardinality(0..(n - 1)) = n
      BY FS_Interval
    <2> QED BY <2>2, <2>7, <2>8
  <1>7. CASE N <= n
    <2>1. first = S
      BY <1>1, <1>2, <1>7
    <2> QED BY <1>7, <2>1
  <1> QED BY <1>1, <1>6, <1>7

-----------------------------------------------------------------------------
(* Selection and counts                                                    *)

\* The reasons c among the results of a run, by candidate and place.
Listed(r, c) ==
  {at \in (1..Len(results[r])) \X (1..(Len(rules[r]) + 1)) :
     /\ at[2] \in DOMAIN results[r][at[1]]
     /\ CodeOf(r, results[r][at[1]][at[2]]) = c}

\* Results are complete when somebody is selected; and from then on, what is
\* selected, audited and exported is the best of these results.
SelectionOK(r) ==
  /\ pc[r] \in {"selecting", "auditing", "exporting", "done"} =>
       Len(results[r]) = Len(candidates[r])
  /\ pc[r] \in Reading \cup {"trying", "selecting"} => selected[r] = {}
  /\ pc[r] \in {"auditing", "exporting", "done"} => selected[r] = {Row(r, i) : i \in Best(r)}
  /\ pc[r] \in {"exporting", "done"} =>
       /\ audited[r] = selected[r]
       /\ decisions[r] = {DecisionRow(r, i) : i \in DOMAIN results[r]}
  /\ pc[r] = "done" => exported[r] = selected[r]

CountsOK(r) ==
  /\ pc[r] \in Reading => \A c \in Reasons : counts[r][c] = 0
  /\ \A c \in Reasons : counts[r][c] = Cardinality(Listed(r, c))

SelectionInv == \A r \in Runs : SelectionOK(r) /\ CountsOK(r)

LEMMA NothingListed ==
  ASSUME NEW r \in Runs, NEW c, results[r] = << >>
  PROVE  Cardinality(Listed(r, c)) = 0
  <1>1. Listed(r, c) = {}
    BY DEF Listed
  <1> QED BY <1>1, FS_EmptySet

LEMMA InitSelection == Init => SelectionInv
  <1> SUFFICES ASSUME Init, NEW r \in Runs PROVE SelectionOK(r) /\ CountsOK(r)
    BY DEF SelectionInv
  <1>1. /\ pc[r] = "idle" /\ results[r] = << >> /\ selected[r] = {}
        /\ \A c \in Reasons : counts[r][c] = 0
    BY RunsAssumption DEF Init
  <1> QED BY <1>1, NothingListed DEF SelectionOK, CountsOK

\* The counts of a run hold as long as its results do.
LEMMA CountsStay ==
  ASSUME NEW r \in Runs, CountsOK(r), rules'[r] = rules[r], results'[r] = results[r],
         counts'[r] = counts[r], pc'[r] \in Reading => pc[r] \in Reading
  PROVE  CountsOK(r)'
  <1>1. \A c \in Reasons : Listed(r, c)' = Listed(r, c)
    BY DEF Listed, CodeOf
  <1> QED BY <1>1 DEF CountsOK

\* The best of a run are the same as long as its results are.
LEMMA BestStays ==
  ASSUME NEW r \in Runs, candidates'[r] = candidates[r], results'[r] = results[r],
         size'[r] = size[r]
  PROVE  /\ Approved(r)' = Approved(r) /\ Best(r)' = Best(r)
         /\ \A i : Row(r, i)' = Row(r, i)
  <1>1. Approved(r)' = Approved(r) /\ \A i : Row(r, i)' = Row(r, i)
    BY DEF Approved, Row
  <1>2. \A i : Ahead(r, i)' = Ahead(r, i)
    BY <1>1 DEF Ahead, Better
  <1> QED BY <1>1, <1>2 DEF Best

LEMMA DecisionStays ==
  ASSUME NEW r \in Runs, NEW i, candidates'[r] = candidates[r], results'[r] = results[r],
         size'[r] = size[r], rules'[r] = rules[r], selected'[r] = selected[r]
  PROVE  DecisionRow(r, i)' = DecisionRow(r, i)
  <1>1. Approved(r)' = Approved(r) /\ Row(r, i)' = Row(r, i)
    BY BestStays
  <1>2. Flagged(r, i)' = Flagged(r, i)
    BY <1>1 DEF Flagged
  <1>3. [m \in DOMAIN results[r][i] |-> CodeOf(r, results[r][i][m])]'
          = [m \in DOMAIN results[r][i] |-> CodeOf(r, results[r][i][m])]
    BY DEF CodeOf
  <1> QED BY <1>1, <1>2, <1>3 DEF DecisionRow

\* What a step that is not its own leaves a run.
LEMMA SelectionStays ==
  ASSUME NEW r \in Runs, SelectionOK(r), CountsOK(r), Kept(r),
         counts'[r] = counts[r], selected'[r] = selected[r], audited'[r] = audited[r],
         decisions'[r] = decisions[r],
         \/ pc'[r] = pc[r]
         \/ pc[r] \in Early /\ pc'[r] \in Early \cup {"retrieving"}
         \/ pc'[r] \in {"died", "died_in_blacklist", "died_in_history"}
  PROVE  SelectionOK(r)' /\ CountsOK(r)'
  <1>1. pc'[r] \in Reading => pc[r] \in Reading
    BY DEF Reading, Early, Writing
  <1>2. CountsOK(r)'
    BY <1>1, CountsStay DEF Kept
  <1>3. Best(r)' = Best(r) /\ \A i : Row(r, i)' = Row(r, i)
    BY BestStays DEF Kept
  <1>4. \A i : DecisionRow(r, i)' = DecisionRow(r, i)
    BY DecisionStays DEF Kept
  <1>5. {Row(r, i) : i \in Best(r)}' = {Row(r, i) : i \in Best(r)}
    BY <1>3
  <1>6. {DecisionRow(r, i) : i \in DOMAIN results[r]}'
          = {DecisionRow(r, i) : i \in DOMAIN results[r]}
    BY <1>4 DEF Kept
  <1>7. pc'[r] # pc[r] => pc'[r] \notin {"trying", "selecting", "auditing", "exporting", "done"}
    BY DEF Early, Writing
  <1> QED BY <1>1, <1>2, <1>5, <1>6, <1>7 DEF Kept, SelectionOK

\* Retrieving, and what comes before any rule is tried.
LEMMA RetrieveSelection ==
  ASSUME PolicyInv, NEW r \in Runs, SelectionOK(r), CountsOK(r), Retrieve(r) \/ LoadBlacklist(r)
  PROVE  SelectionOK(r)' /\ CountsOK(r)'
  <1>1. /\ pc[r] \in Reading /\ pc'[r] = IF Retrieve(r) THEN "load_blacklist" ELSE "load_history"
        /\ UNCHANGED << results, counts, selected >>
    BY RunsAssumption
       DEF Retrieve, LoadBlacklist, Goto, Reading, PolicyInv, FilesInv, verdicts, outputs
  <1>2. results[r] = << >> /\ selected[r] = {}
    BY <1>1 DEF PolicyInv, RunOK, EarlyOK, SelectionOK
  <1>3. pc'[r] \in {"load_blacklist", "load_history"}
    BY <1>1
  <1>4. \A c : Cardinality(Listed(r, c))' = 0
    <2>1. \A c : Listed(r, c)' = {}
      BY <1>1, <1>2 DEF Listed
    <2> QED BY <2>1, FS_EmptySet
  <1>5. CountsOK(r)'
    BY <1>1, <1>4 DEF CountsOK
  <1> QED BY <1>1, <1>2, <1>3, <1>5 DEF SelectionOK, Reading, Early, Writing

LEMMA LoadHistorySelection ==
  ASSUME PolicyInv, NEW r \in Runs, SelectionOK(r), CountsOK(r), LoadHistory(r)
  PROVE  SelectionOK(r)' /\ CountsOK(r)'
  <1>1. /\ pc[r] = "load_history" /\ pc[r] \in Reading
        /\ candidates' = candidates /\ rules' = rules /\ selected' = selected
    BY DEF LoadHistory, Reading, task, outputs
  <1>2. results[r] = << >> /\ selected[r] = {} /\ \A c \in Reasons : counts[r][c] = 0
    BY <1>1 DEF PolicyInv, RunOK, EarlyOK, SelectionOK, CountsOK
  <1>3. Len(candidates[r]) \in Nat /\ DOMAIN candidates[r] = 1..Len(candidates[r])
    BY ResultPlaces
  <1>4. CASE StartRules(r)
    <2>1. /\ pc'[r] = IF candidates[r] = << >> THEN "selecting" ELSE "trying"
          /\ UNCHANGED << results, counts >>
      BY <1>4, RunsAssumption DEF StartRules, FirstCandidate, Goto, PolicyInv, FilesInv
    <2>2. CountsOK(r)'
      BY <1>1, <2>1, CountsStay
    <2>3. pc'[r] = "selecting" => Len(results'[r]) = Len(candidates'[r])
      BY <1>1, <1>2, <2>1
    <2> QED BY <1>1, <1>2, <2>1, <2>2, <2>3 DEF SelectionOK
  <1>5. CASE FailClosed(r)
    <2> DEFINE all == [i \in DOMAIN candidates[r] |-> << SystemRule >>]
               n == Len(candidates[r])
    <2>1. /\ pc'[r] = "auditing" /\ results'[r] = all
          /\ counts'[r] = [counts[r] EXCEPT ![SystemReason] = n]
      BY <1>5, RunsAssumption DEF FailClosed, Goto, PolicyInv, FilesInv, VarTypes
    <2>2. /\ Len(all) = n /\ DOMAIN all = 1..n
          /\ \A i \in 1..n : all[i] # << >> /\ DOMAIN all[i] = {1} /\ all[i][1] = SystemRule
      BY <1>3
    <2> HIDE DEF all
    <2>3. Best(r)' = {}
      BY <2>1, <2>2 DEF Best, Approved
    <2>4. SelectionOK(r)'
      BY <1>1, <1>2, <2>1, <2>2, <2>3 DEF SelectionOK, Reading, Early, Writing
    <2>5. Len(rules[r]) \in Nat
      BY PoliciesAssumption DEF PolicyInv, VarTypes
    <2>6. \A c : Listed(r, c)' =
            {at \in (1..n) \X (1..(Len(rules[r]) + 1)) : at[2] = 1 /\ SystemReason = c}
      BY <1>1, <2>1, <2>2 DEF Listed, CodeOf
    <2>7. \A c : c # SystemReason => Cardinality(Listed(r, c))' = 0
      <3>1. \A c : c # SystemReason => Listed(r, c)' = {}
        BY <2>6
      <3> QED BY <3>1, FS_EmptySet
    <2>8. Cardinality(Listed(r, SystemReason))' = n
      <3> DEFINE S == 1..n
                 T == {at \in S \X (1..(Len(rules[r]) + 1)) : at[2] = 1}
                 f == [i \in S |-> << i, 1 >>]
      <3>1. Listed(r, SystemReason)' = T
        BY <2>6
      <3>2. f \in [S -> T] /\ \A i, j \in S : f[i] = f[j] => i = j
        BY <2>5
      <3>3. \A t \in T : \E i \in S : f[i] = t
        OBVIOUS
      <3>4. IsFiniteSet(S) /\ Cardinality(S) = n
        BY <1>3, UpTo
      <3> HIDE DEF f, T, S
      <3>5. Cardinality(T) = n
        BY <3>2, <3>3, <3>4, SameSize
      <3> QED BY <3>1, <3>5
    <2>9. \A c \in Reasons : counts'[r][c] = IF c = SystemReason THEN n ELSE 0
      BY <1>2, <2>1 DEF PolicyInv, VarTypes
    <2>10. CountsOK(r)'
      <3>1. pc'[r] \notin Reading
        BY <2>1 DEF Reading, Early, Writing
      <3> QED BY <2>7, <2>8, <2>9, <3>1 DEF CountsOK
    <2> QED BY <2>4, <2>10
  <1> QED BY <1>4, <1>5 DEF LoadHistory

LEMMA TryRuleSelection ==
  ASSUME PolicyInv, NEW r \in Runs, SelectionOK(r), CountsOK(r), TryRule(r)
  PROVE  SelectionOK(r)' /\ CountsOK(r)'
  <1>1. /\ pc[r] = "trying" /\ pc'[r] \in {"trying", "raised"}
        /\ UNCHANGED << candidates, rules, results, counts, selected >>
    BY RunsAssumption
       DEF TryRule, Pass, AddReason, RuleRaises, Goto, PolicyInv, FilesInv, task, outputs
  <1>2. CountsOK(r)'
    BY <1>1, CountsStay DEF Reading, Early, Writing
  <1> QED BY <1>1, <1>2 DEF SelectionOK, Reading, Early, Writing

LEMMA PolicyPriorities ==
  ASSUME NEW rs \in Policies \cup {<< >>}
  PROVE  /\ Len(rs) \in Nat /\ DOMAIN rs = 1..Len(rs)
         /\ \A k \in DOMAIN rs : Priority(rs, k) \in Int /\ rs[k].id \in Nat
  <1>1. CASE rs = << >>
    BY <1>1
  <1>2. CASE rs \in Policies
    <2> DEFINE Rule == [id: Nat, enabled: BOOLEAN, priority: Int \cup {NoPriority},
                        connective: STRING,
                        when: Seq([field: STRING, op: STRING, value: Int]),
                        action: STRING, reason: STRING, stop: BOOLEAN]
    <2>1. rs \in Seq(Rule)
      BY <1>2, PoliciesAssumption
    <2>2. \A rule \in Rule : rule.id \in Nat /\ rule.priority \in Int \cup {NoPriority}
      OBVIOUS
    <2> HIDE DEF Rule
    <2>3. Len(rs) \in Nat /\ DOMAIN rs = 1..Len(rs) /\ \A k \in DOMAIN rs : rs[k] \in Rule
      BY <2>1
    <2> QED BY <2>2, <2>3 DEF Priority
  <1> QED BY <1>1, <1>2

\* Reasons that are in the order of the rules are no more than the rules.
LEMMA ReasonsAreFew ==
  ASSUME NEW rs \in Policies \cup {<< >>}, NEW why \in Seq(DOMAIN rs),
         \A m, n \in DOMAIN why : m < n => Precedes(rs, why[m], why[n])
  PROVE  Len(why) <= Len(rs)
  <1>1. /\ Len(why) \in Nat /\ DOMAIN why = 1..Len(why)
        /\ \A m \in 1..Len(why) : why[m] \in DOMAIN rs
    OBVIOUS
  <1>2. Len(rs) \in Nat /\ DOMAIN rs = 1..Len(rs)
    BY PolicyPriorities
  <1>3. \A k \in DOMAIN rs : ~ Precedes(rs, k, k)
    BY <1>2, PolicyPriorities DEF Precedes
  <1>4. \A m, n \in 1..Len(why) : why[m] = why[n] => m = n
    <2> SUFFICES ASSUME NEW m \in 1..Len(why), NEW n \in 1..Len(why), why[m] = why[n], m # n
                 PROVE  FALSE
      OBVIOUS
    <2>1. m < n \/ n < m
      BY <1>1
    <2>2. Precedes(rs, why[m], why[m])
      BY <1>1, <2>1
    <2> QED BY <1>1, <1>3, <2>2
  <1>5. why \in Injection(1..Len(why), 1..Len(rs))
    BY <1>1, <1>2, <1>4 DEF Injection, IsInjective
  <1> QED BY <1>1, <1>2, <1>5, UpTo, FS_Injection

LEMMA DecideSelection ==
  ASSUME PolicyInv, NEW r \in Runs, SelectionOK(r), CountsOK(r), Decide(r)
  PROVE  SelectionOK(r)' /\ CountsOK(r)'
  <1> DEFINE old == results[r]
             why == reasons[r]
             last == Len(old) + 1
             met(c) == {m \in DOMAIN why : CodeOf(r, why[m]) = c}
  <1>1. /\ pc[r] = "trying" /\ results'[r] = Append(old, why)
        /\ pc'[r] = IF last = Len(candidates[r]) THEN "selecting" ELSE "trying"
        /\ UNCHANGED << candidates, rules, selected >>
    BY RunsAssumption DEF Decide, Goto, PolicyInv, FilesInv, VarTypes, task, outputs
  <1>2. \A c \in Reasons : counts'[r][c] = counts[r][c] + Cardinality(met(c))
    BY DEF Decide, PolicyInv, VarTypes
  <1>3. /\ old \in Seq(Seq(DOMAIN rules[r] \cup {SystemRule})) /\ why \in Seq(DOMAIN rules[r])
        /\ Len(old) \in Nat /\ Len(candidates[r]) \in Nat
    BY ResultPlaces DEF PolicyInv, RunOK, ListsOK
  <1>4. /\ Len(results'[r]) = last /\ DOMAIN old = 1..Len(old)
        /\ results'[r][last] = why /\ \A i \in 1..Len(old) : results'[r][i] = old[i]
    <2>1. why \in Seq(DOMAIN rules[r] \cup {SystemRule})
      BY <1>3
    <2> HIDE DEF old, why
    <2> QED BY <1>1, <1>3, <2>1, AppendIs DEF last
  <1>5. Len(rules[r]) \in Nat /\ Len(why) \in Nat /\ DOMAIN why = 1..Len(why)
        /\ Len(why) <= Len(rules[r])
    <2>1. rules[r] \in Policies \cup {<< >>}
      BY DEF PolicyInv, VarTypes
    <2>2. \A m, n \in DOMAIN why : m < n => Precedes(rules[r], why[m], why[n])
      BY <1>1 DEF PolicyInv, RunOK, LoopOK
    <2> HIDE DEF why
    <2> QED BY <1>3, <2>1, <2>2, ReasonsAreFew, PolicyPriorities
  <1>6. SelectionOK(r)'
    <2>1. pc'[r] \in {"trying", "selecting"} /\ selected'[r] = {}
      BY <1>1 DEF SelectionOK
    <2>2. pc'[r] = "selecting" => Len(results'[r]) = Len(candidates'[r])
      BY <1>1, <1>4
    <2> QED BY <2>1, <2>2 DEF SelectionOK
  <1>7. ASSUME NEW c \in Reasons
        PROVE  /\ IsFiniteSet(Listed(r, c)) /\ IsFiniteSet(met(c))
               /\ Cardinality(Listed(r, c))' = Cardinality(Listed(r, c)) + Cardinality(met(c))
    <2> DEFINE now == {last} \X met(c)
               f == [m \in met(c) |-> << last, m >>]
    <2>1. Listed(r, c)' = Listed(r, c) \cup now
      <3>1. ASSUME NEW at
            PROVE  at \in Listed(r, c)' <=> at \in Listed(r, c) \/ at \in now
        <4>1. at \in Listed(r, c)' <=>
                /\ at \in (1..last) \X (1..(Len(rules[r]) + 1))
                /\ at[2] \in DOMAIN results'[r][at[1]]
                /\ CodeOf(r, results'[r][at[1]][at[2]]) = c
          BY <1>1, <1>4 DEF Listed, CodeOf
        <4>2. at \in Listed(r, c) <=>
                /\ at \in (1..Len(old)) \X (1..(Len(rules[r]) + 1))
                /\ at[2] \in DOMAIN old[at[1]]
                /\ CodeOf(r, old[at[1]][at[2]]) = c
          BY DEF Listed
        <4>3. at \in now <=>
                /\ at \in {last} \X (1..(Len(rules[r]) + 1))
                /\ at[2] \in DOMAIN why
                /\ CodeOf(r, why[at[2]]) = c
          BY <1>5
        <4>4. 1..last = (1..Len(old)) \cup {last}
          BY <1>3
        <4> HIDE DEF last, now, old, why
        <4> QED BY <1>4, <4>1, <4>2, <4>3, <4>4
      <3> HIDE DEF now
      <3> QED BY <3>1
    <2>2. Listed(r, c) \cap now = {}
      <3>1. last \notin 1..Len(old)
        BY <1>3
      <3>2. \A at \in Listed(r, c) : at[1] \in 1..Len(old)
        BY DEF Listed
      <3> QED BY <3>1, <3>2
    <2>3. IsFiniteSet(Listed(r, c))
      <3>1. IsFiniteSet((1..Len(old)) \X (1..(Len(rules[r]) + 1)))
        <4>1. IsFiniteSet(1..Len(old)) /\ IsFiniteSet(1..(Len(rules[r]) + 1))
          BY <1>3, <1>5, UpTo
        <4> QED BY <4>1, FS_Product
      <3>2. Listed(r, c) \in SUBSET ((1..Len(old)) \X (1..(Len(rules[r]) + 1)))
        BY DEF Listed
      <3> QED BY <3>1, <3>2, FS_Subset
    <2>4. IsFiniteSet(met(c))
      <3>1. IsFiniteSet(1..Len(why)) /\ met(c) \in SUBSET (1..Len(why))
        BY <1>5, UpTo
      <3> QED BY <3>1, FS_Subset
    <2>5. IsFiniteSet(now) /\ Cardinality(now) = Cardinality(met(c))
      <3>1. f \in [met(c) -> now] /\ \A m, n \in met(c) : f[m] = f[n] => m = n
        OBVIOUS
      <3>2. \A at \in now : \E m \in met(c) : f[m] = at
        OBVIOUS
      <3> HIDE DEF f, now, met
      <3> QED BY <2>4, <3>1, <3>2, SameSize
    <2>6. Cardinality(Listed(r, c)) \in Nat /\ Cardinality(met(c)) \in Nat
      BY <2>3, <2>4, FS_CardinalityType
    <2> HIDE DEF now, met
    <2>7. Cardinality(Listed(r, c) \cup now) = Cardinality(Listed(r, c)) + Cardinality(now) - 0
      BY <2>2, <2>3, <2>5, FS_Union, FS_EmptySet
    <2> QED BY <2>1, <2>3, <2>4, <2>5, <2>6, <2>7
  <1>8. CountsOK(r)'
    <2>1. pc'[r] \notin Reading
      BY <1>1 DEF Reading, Early, Writing
    <2> HIDE DEF met
    <2> QED BY <1>2, <1>7, <2>1 DEF CountsOK
  <1> QED BY <1>6, <1>8

LEMMA BestAreResults ==
  ASSUME PolicyInv, NEW r \in Runs
  PROVE  /\ Best(r) \subseteq Approved(r) /\ Approved(r) \subseteq DOMAIN results[r]
         /\ DOMAIN results[r] \subseteq DOMAIN candidates[r]
  BY ResultPlaces DEF Best, Approved

\* Customers are found once, so who is among the best is told by identity.
LEMMA BestByIdentity ==
  ASSUME PolicyInv, NEW r \in Runs, selected[r] = {Row(r, i) : i \in Best(r)},
         NEW j \in DOMAIN candidates[r]
  PROVE  (Row(r, j) \in selected[r] <=> j \in Best(r)) /\ (Flagged(r, j) <=> j \in Best(r))
  <1>1. ASSUME Row(r, j) \in selected[r] PROVE j \in Best(r)
    <2>1. PICK i \in Best(r) : Row(r, i) = Row(r, j)
      BY <1>1
    <2>2. i = j
      BY <2>1, BestAreResults, ResultPlaces
    <2> QED BY <2>1, <2>2
  <1> QED BY <1>1, BestAreResults DEF Flagged

LEMMA SelectSelection ==
  ASSUME PolicyInv, NEW r \in Runs, SelectionOK(r), CountsOK(r), Select(r)
  PROVE  SelectionOK(r)' /\ CountsOK(r)'
  <1>1. /\ pc[r] = "selecting" /\ pc'[r] = "auditing" /\ UNCHANGED << task, results, counts >>
        /\ selected'[r] = {Row(r, i) : i \in Best(r)}
    BY RunsAssumption DEF Select, Goto, Row, PolicyInv, FilesInv, VarTypes, verdicts
  <1>2. CountsOK(r)'
    BY <1>1, CountsStay DEF task, Reading, Early, Writing
  <1>3. {Row(r, i) : i \in Best(r)}' = {Row(r, i) : i \in Best(r)}
    BY <1>1, BestStays DEF task
  <1>4. Len(results'[r]) = Len(candidates'[r])
    BY <1>1 DEF SelectionOK, task
  <1> QED BY <1>1, <1>2, <1>3, <1>4 DEF SelectionOK, Reading, Early, Writing

LEMMA WriteAuditSelection ==
  ASSUME PolicyInv, NEW r \in Runs, SelectionOK(r), CountsOK(r), WriteAudit(r)
  PROVE  SelectionOK(r)' /\ CountsOK(r)'
  <1>1. /\ pc[r] = "auditing" /\ pc'[r] = "exporting"
        /\ UNCHANGED << task, results, counts, selected >>
        /\ audited'[r] = {Row(r, i) : i \in {j \in DOMAIN results[r] : Row(r, j) \in selected[r]}}
        /\ decisions'[r] = {DecisionRow(r, i) : i \in DOMAIN results[r]}
    BY RunsAssumption DEF WriteAudit, Goto, PolicyInv, FilesInv, VarTypes, verdicts
  <1>2. CountsOK(r)'
    BY <1>1, CountsStay DEF task, Reading, Early, Writing
  <1>3. selected[r] = {Row(r, i) : i \in Best(r)} /\ Len(results[r]) = Len(candidates[r])
    BY <1>1 DEF SelectionOK
  <1>4. {j \in DOMAIN results[r] : Row(r, j) \in selected[r]} = Best(r)
    BY <1>3, BestAreResults, BestByIdentity
  <1>5. {Row(r, i) : i \in Best(r)}' = {Row(r, i) : i \in Best(r)}
    BY <1>1, BestStays DEF task
  <1>6. {DecisionRow(r, i) : i \in DOMAIN results[r]}'
          = {DecisionRow(r, i) : i \in DOMAIN results[r]}
    BY <1>1, DecisionStays DEF task
  <1> QED BY <1>1, <1>2, <1>3, <1>4, <1>5, <1>6 DEF SelectionOK, task, Reading, Early, Writing

LEMMA ExportSelection ==
  ASSUME PolicyInv, NEW r \in Runs, SelectionOK(r), CountsOK(r), Export(r)
  PROVE  SelectionOK(r)' /\ CountsOK(r)'
  <1>1. /\ pc[r] = "exporting" /\ pc'[r] = "done"
        /\ UNCHANGED << task, results, counts, selected, audited, decisions >>
        /\ exported'[r] = {Row(r, i) : i \in {j \in DOMAIN results[r] : Flagged(r, j)}}
    BY RunsAssumption DEF Export, Goto, PolicyInv, FilesInv, VarTypes, verdicts
  <1>2. CountsOK(r)'
    BY <1>1, CountsStay DEF task, Reading, Early, Writing
  <1>3. /\ selected[r] = {Row(r, i) : i \in Best(r)} /\ Len(results[r]) = Len(candidates[r])
        /\ audited[r] = selected[r]
        /\ decisions[r] = {DecisionRow(r, i) : i \in DOMAIN results[r]}
    BY <1>1 DEF SelectionOK
  <1>4. {j \in DOMAIN results[r] : Flagged(r, j)} = Best(r)
    BY <1>3, BestAreResults, BestByIdentity
  <1>5. {Row(r, i) : i \in Best(r)}' = {Row(r, i) : i \in Best(r)}
    BY <1>1, BestStays DEF task
  <1>6. {DecisionRow(r, i) : i \in DOMAIN results[r]}'
          = {DecisionRow(r, i) : i \in DOMAIN results[r]}
    BY <1>1, DecisionStays DEF task
  <1> QED BY <1>1, <1>2, <1>3, <1>4, <1>5, <1>6 DEF SelectionOK, task, Reading, Early, Writing

LEMMA OthersSelection ==
  ASSUME PolicyInv, NEW r \in Runs, Evaluate(r), NEW q \in Runs \ {r}, SelectionOK(q), CountsOK(q)
  PROVE  SelectionOK(q)' /\ CountsOK(q)'
  <1>1. /\ counts'[q] = counts[q] /\ selected'[q] = selected[q] /\ audited'[q] = audited[q]
        /\ decisions'[q] = decisions[q]
    <2>1. CASE Retrieve(r) \/ LoadBlacklist(r) \/ TryRule(r)
      BY <2>1 DEF Retrieve, LoadBlacklist, TryRule, verdicts, outputs
    <2>2. CASE LoadHistory(r) \/ Decide(r)
      BY <2>2 DEF LoadHistory, FailClosed, StartRules, Decide, PolicyInv, VarTypes, outputs
    <2>3. CASE Select(r) \/ WriteAudit(r) \/ Export(r)
      BY <2>3 DEF Select, WriteAudit, Export, PolicyInv, VarTypes, verdicts
    <2> QED BY <2>1, <2>2, <2>3 DEF Evaluate
  <1> QED BY <1>1, OthersKept, SelectionStays

LEMMA SelectionStep ==
  ASSUME PolicyInv, SelectionInv, [Next]_vars
  PROVE  SelectionInv'
  <1>1. ASSUME NEW r \in Runs, Evaluate(r) PROVE SelectionInv'
    <2>1. SelectionOK(r)' /\ CountsOK(r)'
      BY <1>1, RetrieveSelection, LoadHistorySelection, TryRuleSelection, DecideSelection,
         SelectSelection, WriteAuditSelection, ExportSelection DEF Evaluate, SelectionInv
    <2>2. \A q \in Runs \ {r} : SelectionOK(q)' /\ CountsOK(q)'
      BY <1>1, OthersSelection DEF SelectionInv
    <2> QED BY <2>1, <2>2 DEF SelectionInv
  <1>2. ASSUME UNCHANGED << task, inputs, verdicts, outputs >>,
               NEW p \in Callers, NEW next, UNCHANGED pc \/ Goto(p, next),
               \/ pc[p] \in Early /\ next \in Early \cup {"retrieving", "done"}
               \/ next \in {"died", "died_in_blacklist", "died_in_history"},
               p \in Runs => next # "done"
        PROVE  SelectionInv'
    <2> SUFFICES ASSUME NEW r \in Runs PROVE SelectionOK(r)' /\ CountsOK(r)'
      BY DEF SelectionInv
    <2>1. Kept(r) /\ UNCHANGED << counts, selected, audited, decisions >>
      BY <1>2 DEF Kept, task, inputs, verdicts, outputs
    <2>2. pc'[r] = pc[r] \/ (p = r /\ pc'[r] = next)
      BY <1>2, RunsAssumption DEF Goto, PolicyInv, FilesInv
    <2>3. \/ pc'[r] = pc[r]
          \/ pc[r] \in Early /\ pc'[r] \in Early \cup {"retrieving"}
          \/ pc'[r] \in {"died", "died_in_blacklist", "died_in_history"}
      BY <1>2, <2>2
    <2> QED BY <2>1, <2>3, SelectionStays DEF SelectionInv
  <1>3. ASSUME NEW p \in Callers, Die(p) PROVE SelectionInv'
    <2>1. \E next \in {"died", "died_in_blacklist", "died_in_history"} : Goto(p, next)
      BY <1>3 DEF Die
    <2> QED BY <1>2, <1>3, <2>1 DEF Die
  <1>4. ASSUME NEW p \in Callers, Generate(p) PROVE SelectionInv'
    <2>1. UNCHANGED << task, inputs, verdicts, outputs >> /\ pc[p] \in Early
      BY <1>4
         DEF Generate, OpenBlacklist, CloseBlacklist, OpenHistory, WriteHistory, Early, Writing
    <2>2. \E next \in Early \cup {"retrieving", "done"} :
            (UNCHANGED pc \/ Goto(p, next)) /\ (p \in Runs => next # "done")
      <3>1. {"in_blacklist", "between", "in_history"} \subseteq Early
        BY DEF Early, Writing
      <3> QED BY <1>4, <3>1
              DEF Generate, OpenBlacklist, CloseBlacklist, OpenHistory, WriteHistory
    <2> QED BY <1>2, <2>1, <2>2
  <1>5. CASE UNCHANGED vars
    <2> SUFFICES ASSUME NEW r \in Runs PROVE SelectionOK(r)' /\ CountsOK(r)'
      BY DEF SelectionInv
    <2>1. Kept(r) /\ UNCHANGED << pc, counts, selected, audited, decisions >>
      BY <1>5 DEF Kept, vars, task, inputs, verdicts, outputs
    <2> QED BY <2>1, SelectionStays DEF SelectionInv
  <1> QED BY <1>1, <1>3, <1>4, <1>5 DEF Next

LEMMA SelectionInvariance == Spec => []SelectionInv
  BY InitSelection, SelectionStep, Invariance, PTL DEF Spec

\* Candidates with scores and different places are totally ordered.
LEMMA BetterIsAnOrder ==
  ASSUME PolicyInv, NEW r \in Runs
  PROVE  /\ IsFiniteSet(Approved(r))
         /\ \A i \in Approved(r) : Ahead(r, i) \subseteq Approved(r) /\ i \notin Ahead(r, i)
         /\ \A i, j \in Approved(r) : i # j => i \in Ahead(r, j) \/ j \in Ahead(r, i)
         /\ \A i, j \in Approved(r) : i \in Ahead(r, j) => Ahead(r, i) \subseteq Ahead(r, j)
  <1>1. /\ Approved(r) \subseteq 1..Len(candidates[r]) /\ Len(candidates[r]) \in Nat
        /\ DOMAIN candidates[r] = 1..Len(candidates[r])
    BY ResultPlaces, BestAreResults
  <1>2. \A i \in Approved(r) : candidates[r][i].score \in Int /\ i \in Nat
    <2>1. candidates[r] \in Searches \cup {<< >>}
      BY DEF PolicyInv, VarTypes
    <2>2. CASE candidates[r] = << >>
      BY <1>1, <2>2
    <2>3. CASE candidates[r] \in Searches
      <3> DEFINE Point == [customer: Customers, score: Int, facts: [Payload -> Int]]
      <3>1. candidates[r] \in Seq(Point)
        BY <2>3, SearchesAssumption
      <3>2. \A x \in Point : x.score \in Int
        OBVIOUS
      <3> HIDE DEF Point
      <3>3. \A i \in DOMAIN candidates[r] : candidates[r][i] \in Point
        BY <3>1
      <3> QED BY <1>1, <3>2, <3>3
    <2> QED BY <2>1, <2>2, <2>3
  <1>3. IsFiniteSet(Approved(r))
    <2>1. IsFiniteSet(1..Len(candidates[r]))
      BY <1>1, UpTo
    <2> QED BY <1>1, <2>1, FS_Subset
  <1>4. \A i, j, k \in Approved(r) : Better(r, i, j) /\ Better(r, j, k) => Better(r, i, k)
    BY <1>2 DEF Better
  <1>5. \A i, j \in Approved(r) : i # j => Better(r, i, j) \/ Better(r, j, i)
    BY <1>2 DEF Better
  <1>6. \A i \in Approved(r) : ~ Better(r, i, i)
    BY <1>2 DEF Better
  <1> QED BY <1>3, <1>4, <1>5, <1>6 DEF Ahead

\* For every policy, search and size asked for, and any number of runs: what is
\* exported is audited, is the best of the approved, as many as there are or were
\* asked for, and the reasons against the others are counted as often as they occur.
THEOREM ExportsAreTheBest == Spec => []ExportIsBest
  <1>1. ASSUME PolicyInv, SelectionInv, NEW r \in Runs, pc[r] = "done"
        PROVE  LET out == {i \in DOMAIN candidates[r] : Row(r, i) \in exported[r]} IN
               /\ exported[r] = audited[r]
               /\ exported[r] = {d.customer : d \in {e \in decisions[r] : e.selected}}
               /\ Cardinality(decisions[r]) = Len(candidates[r])
               /\ out \subseteq Approved(r)
               /\ IF out = Approved(r) THEN Cardinality(out) <= size[r]
                  ELSE Cardinality(out) = size[r]
               /\ \A i \in out, j \in Approved(r) \ out : ~ Better(r, j, i)
               /\ \A c \in Reasons : counts[r][c] = Cardinality(Listed(r, c))
    <2> DEFINE out == {i \in DOMAIN candidates[r] : Row(r, i) \in exported[r]}
               ahead == [i \in Approved(r) |-> Ahead(r, i)]
               S == DOMAIN results[r]
               row == [i \in S |-> DecisionRow(r, i)]
    <2>1. /\ selected[r] = {Row(r, i) : i \in Best(r)} /\ exported[r] = selected[r]
          /\ audited[r] = selected[r]
          /\ decisions[r] = {DecisionRow(r, i) : i \in DOMAIN results[r]}
          /\ Len(results[r]) = Len(candidates[r])
          /\ \A c \in Reasons : counts[r][c] = Cardinality(Listed(r, c))
      BY <1>1 DEF SelectionInv, SelectionOK, CountsOK
    <2>2. out = Best(r)
      BY <1>1, <2>1, BestByIdentity, BestAreResults
    <2>3. exported[r] = {d.customer : d \in {e \in decisions[r] : e.selected}}
      <3>1. \A i \in DOMAIN results[r] :
              /\ DecisionRow(r, i).customer = Row(r, i)
              /\ DecisionRow(r, i).selected <=> i \in Best(r)
        BY <1>1, <2>1, BestByIdentity, BestAreResults DEF DecisionRow
      <3> QED BY <1>1, <2>1, <3>1, BestAreResults
    <2>4. Cardinality(decisions[r]) = Len(candidates[r])
      <3>1. row \in [S -> decisions[r]] /\ \A i \in S : row[i].customer = Row(r, i)
        BY <2>1 DEF DecisionRow
      <3>2. \A d \in decisions[r] : \E i \in S : row[i] = d
        BY <2>1
      <3>3. \A i, j \in S : Row(r, i) = Row(r, j) => i = j
        BY <1>1, ResultPlaces
      <3>4. IsFiniteSet(S) /\ Cardinality(S) = Len(results[r])
        <4>1. S = 1..Len(results[r]) /\ Len(results[r]) \in Nat
          BY <1>1, ResultPlaces
        <4> QED BY <4>1, UpTo
      <3> HIDE DEF row, S
      <3>5. \A i, j \in S : row[i] = row[j] => i = j
        BY <3>1, <3>3
      <3> QED BY <2>1, <3>1, <3>2, <3>4, <3>5, SameSize
    <2>5. /\ IsFiniteSet(Approved(r)) /\ size[r] \in Nat
          /\ \A i \in Approved(r) : Ahead(r, i) \subseteq Approved(r) /\ i \notin Ahead(r, i)
          /\ \A i, j \in Approved(r) : i # j => i \in Ahead(r, j) \/ j \in Ahead(r, i)
          /\ \A i, j \in Approved(r) : i \in Ahead(r, j) => Ahead(r, i) \subseteq Ahead(r, j)
      BY <1>1, BetterIsAnOrder DEF PolicyInv, VarTypes
    <2>6. IF Best(r) = Approved(r) THEN Cardinality(Best(r)) <= size[r]
          ELSE Cardinality(Best(r)) = size[r]
      <3>1. /\ ahead \in [Approved(r) -> SUBSET Approved(r)]
            /\ \A i \in Approved(r) : i \notin ahead[i]
            /\ \A i, j \in Approved(r) : i # j => i \in ahead[j] \/ j \in ahead[i]
            /\ \A i, j \in Approved(r) : i \in ahead[j] => ahead[i] \subseteq ahead[j]
        BY <2>5
      <3>2. Best(r) = {i \in Approved(r) : Cardinality(ahead[i]) < size[r]}
        BY DEF Best
      <3> HIDE DEF ahead
      <3>3. LET first == {i \in Approved(r) : Cardinality(ahead[i]) < size[r]} IN
              IF first = Approved(r) THEN Cardinality(first) <= size[r]
              ELSE Cardinality(first) = size[r]
        BY <2>5, <3>1, FirstOfAnOrder
      <3> QED BY <3>2, <3>3
    <2>7. ASSUME NEW i \in Best(r), NEW j \in Approved(r) \ Best(r), Better(r, j, i)
          PROVE  FALSE
      <3>1. i \in Approved(r) /\ Cardinality(Ahead(r, i)) < size[r]
        BY DEF Best
      <3>2. Ahead(r, j) \subseteq Ahead(r, i) /\ Ahead(r, i) \subseteq Approved(r)
        BY <2>5, <2>7, <3>1 DEF Ahead
      <3>3. IsFiniteSet(Ahead(r, i))
        BY <2>5, <3>2, FS_Subset
      <3>4. /\ Cardinality(Ahead(r, j)) <= Cardinality(Ahead(r, i)) /\ IsFiniteSet(Ahead(r, j))
        BY <3>2, <3>3, FS_Subset
      <3>5. Cardinality(Ahead(r, i)) \in Nat /\ Cardinality(Ahead(r, j)) \in Nat
        BY <3>3, <3>4, FS_CardinalityType
      <3>6. Cardinality(Ahead(r, j)) < size[r]
        BY <2>5, <3>1, <3>4, <3>5
      <3> QED BY <3>6 DEF Best
    <2> HIDE DEF out
    <2> QED BY <1>1, <2>1, <2>2, <2>3, <2>4, <2>6, <2>7, BestAreResults DEF out
  <1>2. PolicyInv /\ SelectionInv => ExportIsBest
    BY <1>1 DEF ExportIsBest, Listed
  <1> QED BY <1>2, Invariance, SelectionInvariance, PTL

\* evaluate_policy: a run that could not read one of its inputs exports nobody.
THEOREM UnreadInputsFailClosed == Spec => [](\A r \in Runs : ~ ready[r] => exported[r] = {})
  <1>1. ASSUME PolicyInv, SelectionInv, NEW r \in Runs, ~ ready[r]
        PROVE  exported[r] = {}
    <2>1. RunOK(r)
      BY <1>1 DEF PolicyInv
    <2>2. CASE pc[r] # "done"
      BY <2>1, <2>2 DEF RunOK, ExportOK
    <2>3. CASE pc[r] = "done"
      <3>1. exported[r] = {Row(r, i) : i \in Best(r)}
        BY <1>1, <2>3 DEF SelectionInv, SelectionOK
      <3>2. Approved(r) = {}
        BY <1>1, <2>1 DEF RunOK, ReadyOK, Approved
      <3> QED BY <3>1, <3>2 DEF Best
    <2> QED BY <2>2, <2>3
  <1>2. PolicyInv /\ SelectionInv => \A r \in Runs : ~ ready[r] => exported[r] = {}
    BY <1>1
  <1> QED BY <1>2, Invariance, SelectionInvariance, PTL

=============================================================================
