-------------------------- MODULE MCRunResolution --------------------------
(* Two operators save, a run resolves; two saves or transitions in all.    *)
(* m1 and m2 are models of two keys with the version of the bundle, each   *)
(* with an embedding model; e3 is a second one of m1.                      *)
EXTENDS RunResolution, TLC

CONSTANTS s1, s2, r1

MCPolicyList == << [version |-> "p0", active |-> FALSE], [version |-> "p1", active |-> TRUE] >>
Profile(id, implemented, ready, staging) ==
  [id |-> id, implemented |-> implemented, ready |-> ready, staging |-> staging]
MCProfileList ==
  << Profile("planned", FALSE, TRUE, TRUE), Profile("local", TRUE, TRUE, FALSE),
     Profile("postgres", TRUE, TRUE, TRUE), Profile("half", TRUE, FALSE, TRUE) >>
MCTargetList ==
  << [id |-> "crm", implemented |-> TRUE, needs |-> TRUE],
     [id |-> "none", implemented |-> TRUE, needs |-> FALSE] >>
MCLength == [x \in {"p0", "p1", "p9", "gone", "planned", "local", "postgres", "half", "crm", "none", Nothing} |->
               CASE x = "postgres" -> 2 [] x = Nothing -> 0 [] OTHER -> 1]

Fieldset(p, i, t) == [policy |-> p, profile |-> i, target |-> t]
MCOldFiles == {Fieldset("p0", "postgres", "gone"), Fieldset("p1", "local", "crm"),
               Fieldset("p9", "planned", Nothing)}
MCSaves == {Fieldset("p0", Nothing, Nothing), Fieldset(Nothing, Nothing, "crm"),
            Fieldset(Nothing, "postgres", Nothing), Fieldset("p1", "local", "none"),
            Fieldset(Nothing, "half", Nothing)}

Asked(p, i, t, ids) ==
  [policy |-> p, profile |-> i, target |-> t,
   explicit |-> [x \in ToSet(Tables) |-> IF x \in DOMAIN ids THEN ids[x] ELSE Nothing]]
MCRequests ==
  { Asked(Nothing, Nothing, Nothing, << >>), Asked("p1", Nothing, "crm", << >>),
    Asked("p1", Nothing, Nothing, [x \in {"embedding_model"} |-> "e2"]),
    Asked(Nothing, Nothing, Nothing, [x \in {"model"} |-> "m9"]) }

Row(table, key, version, parent) ==
  [table |-> table, key |-> key, version |-> version, parent |-> parent]
MCCatalog ==
  [v \in {"f1", "m1", "m2", "q0", "q1", "e1", "e2", "e3", "a1"} |->
     CASE v = "f1" -> Row("feature_set", "f", "1", Nothing)
       [] v = "m1" -> Row("model", "m", "1", Nothing)
       [] v = "m2" -> Row("model", "n", "1", Nothing)
       [] v = "q0" -> Row("policy", "q", "p0", Nothing)
       [] v = "q1" -> Row("policy", "q", "p1", Nothing)
       [] v = "e1" -> Row("embedding_model", "e", "1", "m1")
       [] v = "e2" -> Row("embedding_model", "g", "1", "m2")
       [] v = "e3" -> Row("embedding_model", "e", "2", "m1")
       [] OTHER    -> Row("audience_definition", "a", "1", "f1")]
ActivatedInTurn(ids) ==
  [v \in DOMAIN MCCatalog |-> IF v \in ToSet(ids) THEN CHOOSE k \in DOMAIN ids : ids[k] = v ELSE 0]
MCRegistries == { ActivatedInTurn(<< "f1", "m1", "q1", "e1", "a1" >>),
                  ActivatedInTurn(<< "m2", "f1", "e2", "q1", "m1", "e1" >>) }
MCBundleVersion == [x \in {"feature_set", "model"} |-> "1"]
MCSymmetry == Permutations(Savers)
=============================================================================
