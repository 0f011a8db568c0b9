---------------------------- MODULE MCOwnership ----------------------------
(* A rule with markers and a skill without, for the model checker.         *)
EXTENDS Ownership, TLC

CONSTANTS rule, skill, w1, t1, a, b, p1, p2, r1, generic

\* A project that grows: a framework for certain, another test command, more risk.
Found(test, confidence, tier) ==
    [type |-> "service", git_workflow |-> "trunk", primary_language |-> "go",
     test_command |-> test, package_manager |-> "none",
     framework |-> w1, frameworks |-> [w \in {w1} |-> confidence],
     paths |-> {"src/a.go"}, dirs |-> {"src"}, risk_tier |-> tier]
AllFacts == [q \in {p1, p2} |->
    IF q = p1 THEN Found("go test", "weak", "low") ELSE Found("make test", "strong", "high")]

Unconditional(f, tier) ==
    [file |-> f, name |-> f, pack |-> generic, tier |-> tier, risk_tier |-> None,
     backend_features |-> {}, languages |-> None, frameworks |-> None, project_types |-> None]
AllTemplates ==
    {Unconditional(rule, None),
     [Unconditional(skill, "high") EXCEPT !.risk_tier = {"high", "critical"}],
     [Unconditional(rule, "high") EXCEPT !.name = "go-only", !.languages = {"rust"}]}
NoSpecialPack == [x \in {"go"} \X {w1} |-> None]
NoLanguagePack == [l \in {"go"} |-> None]

Silent == [entries |-> {}, test |-> None, scopes |-> {"src"}, topics |-> {w1},
           metrics |-> [r \in {r1} |-> [recent |-> TRUE, fails |-> 1, successes |-> 1]],
           outputs |-> [r \in {r1} |-> <<"one", "two", "two">>], costs |-> <<4, 6, 7, 6>>]
Loud == [entries |-> {"src/b.go"}, test |-> "go test", scopes |-> {}, topics |-> {},
         metrics |-> [r \in {r1} |-> [recent |-> TRUE, fails |-> 2, successes |-> 0]],
         outputs |-> [r \in {r1} |-> <<"one", "two">>], costs |-> <<4, 6, 7, 8>>]
AllEvidence == {Silent, Loud}
Symmetry == Permutations({a, b})

\* The measurements of the loud evidence are all reported, of the other none.
ASSUME /\ checkRuleEffectivenessDrift(Loud) = {r1} /\ checkRuleEffectivenessDrift(Silent) = {}
       /\ checkOutputDrift(Loud) = {r1} /\ checkOutputDrift(Silent) = {}
       /\ checkCostDrift(Loud) /\ ~checkCostDrift(Silent)
=============================================================================
