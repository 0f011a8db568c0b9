-------------------------- MODULE MCArtifactInstall --------------------------
(* A small registry for the model checker. *)
EXTENDS ArtifactInstall, TLC

CONSTANTS p1, p2, pl, m, n, k1, first, second, bare, bent, doc1, odd

\* Two releases of a plugin by the trusted publisher, the second release also
\* unsigned and damaged, a rule pack that takes over the plugin's id, and an
\* unsigned one whose pack document disagrees with its manifest.
SmallAbout ==
    LET plugin(v, k, ok, fs) == [id |-> pl, version |-> v, kind |-> "plugin", signer |-> k,
                                 intact |-> ok, valid |-> TRUE, files |-> fs]
    IN  first :> plugin(1, k1, TRUE, {m, n}) @@ second :> plugin(2, k1, TRUE, {m}) @@
        bare :> plugin(2, None, TRUE, {m}) @@ bent :> plugin(2, k1, FALSE, {m}) @@
        doc1 :> [id |-> pl, version |-> 3, kind |-> "rules", signer |-> k1,
                 intact |-> TRUE, valid |-> TRUE, files |-> {m}] @@
        odd :> [id |-> pl, version |-> 3, kind |-> "rules", signer |-> None,
                intact |-> TRUE, valid |-> FALSE, files |-> {m}]

Command(from, v, kind, allow, dry) ==
    [from |-> from, release |-> <<pl, v>>, kind |-> kind,
     allowUnsigned |-> allow, dryRun |-> dry]

SmallJobs ==
    {Command("registry", 1, "plugin", FALSE, FALSE),
     Command("url", 2, "plugin", TRUE, FALSE), Command("url", 2, "plugin", TRUE, TRUE),
     Command("url", 3, "rules", TRUE, FALSE)}

\* The processes are interchangeable.
ProcSymmetry == Permutations(Proc)
=============================================================================
