------------------------------- MODULE Drift -------------------------------
(* The drift analysis of bp sync, bp drift and bp verify: what has changed *)
(* between the project a fingerprint was stored for and the project that   *)
(* is detected now, and what the governance files and the collected        *)
(* measurements say about it (validator/drift.ts).                         *)
EXTENDS Fingerprints, Integers, FiniteSets, Sequences, Functions

(* Facts[q].frameworks[w] is the detector's confidence in w: none, weak or *)
(* strong (0.8 and above).  A framework that is gone is no delta, and one  *)
(* that was stored with a weak confidence never becomes one.               *)
Compared == {"type", "git_workflow", "primary_language", "test_command", "package_manager"}
NewFrameworks(stored, current) ==
    {w \in Framework : Facts[stored].frameworks[w] = "none" /\ Facts[current].frameworks[w] = "strong"}
computeFingerprintDelta(stored, current) ==
    {field \in Compared : Facts[stored][field] # Facts[current][field]} \cup NewFrameworks(stored, current)

(* What the governance files say, as evidence e: the entry points and the  *)
(* test command that CLAUDE.md declares, the directories that the scopes   *)
(* of rules reach and the frameworks that names and tags mention.          *)
checkEntryPointDrift(e, current) == e.entries \ Facts[current].paths
checkTestCommandDrift(e, current) ==
    {t \in {e.test} \ {None} : Facts[current].test_command \notin {None, t}}
checkTopologyDrift(e, current) == Facts[current].dirs \ e.scopes
checkDependencyDrift(e, stored, current) ==
    IF stored = None THEN {} ELSE NewFrameworks(stored, current) \ e.topics

(* What was measured: how often a rule's check succeeded and failed, the   *)
(* tokens of each run and the outputs of a rule, the latest of them last.  *)
checkRuleEffectivenessDrift(e) ==
    {r \in DOMAIN e.metrics : /\ e.metrics[r].recent
                              /\ e.metrics[r].fails > 0 /\ e.metrics[r].successes = 0}
computeSimilarity(one, other) == IF one = other THEN 1 ELSE 0
checkOutputDrift(e) ==
    {r \in DOMAIN e.outputs : LET h == e.outputs[r]
                              IN  Len(h) >= 2 /\ computeSimilarity(h[Len(h)], h[Len(h) - 1]) = 0}

Total(s) == SumFunction(s)
\* The later half costs more on average than the earlier half and twice its
\* standard deviation; both sides are multiplied out, the squares compared.
checkCostDrift(e) ==
    LET h == e.costs
        m == Len(h) \div 2
        n == Len(h) - m
        old == Total(SubSeq(h, 1, m))
        excess == m * Total(SubSeq(h, m + 1, Len(h))) - n * old
        spread == Total([i \in 1..m |-> (m * h[i] - old) * (m * h[i] - old)])
    IN  Len(h) >= 2 /\ excess > 0 /\ excess * excess * m > 4 * n * n * spread

validateDrift(stored, current, e) ==
    LET Found(type, of) == [type : {type}, of : of]
    IN  Found("FINGERPRINT_DELTA", IF stored = None THEN {} ELSE computeFingerprintDelta(stored, current))
            \cup Found("ENTRY_POINT_DRIFT", checkEntryPointDrift(e, current))
            \cup Found("TEST_COMMAND_DRIFT", checkTestCommandDrift(e, current))
            \cup Found("UNCOVERED_DIRECTORY", checkTopologyDrift(e, current))
            \cup Found("DEPENDENCY_DRIFT", checkDependencyDrift(e, stored, current))
            \cup Found("RULE_INEFFECTIVE", checkRuleEffectivenessDrift(e))
            \cup Found("OUTPUT_DRIFT", checkOutputDrift(e))
            \cup Found("COST_ANOMALY", IF checkCostDrift(e) THEN {None} ELSE {})

canAutoFix(finding) ==
    finding.type \in {"FINGERPRINT_DELTA", "TEST_COMMAND_DRIFT", "DEPENDENCY_DRIFT"}
=============================================================================
