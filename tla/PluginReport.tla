----------------------------- MODULE PluginReport -----------------------------
(***************************************************************************)
(* What running the configured plugins promises: unless they are skipped as *)
(* a whole, or the process is lost, each plugin gets exactly one outcome,   *)
(* in the order of the configuration, whatever the others did.              *)
(***************************************************************************)
EXTENDS Naturals, Sequences

CONSTANTS
    Plugins,     \* the configured plugins, a sequence
    Outcomes(_)  \* Outcomes(p): the outcomes that plugin p may have

VARIABLES
    reports,     \* the outcomes so far
    state        \* "running", "skipped" or "lost"

vars == <<reports, state>>

Init == reports = <<>> /\ state = "running"

\* The next plugin's outcome.
Report ==
    /\ state = "running"
    /\ Len(reports) < Len(Plugins)
    /\ \E o \in Outcomes(Plugins[Len(reports) + 1]) : reports' = Append(reports, o)
    /\ UNCHANGED state

\* None of the plugins is run.
Skip ==
    /\ state = "running" /\ reports = <<>>
    /\ state' = "skipped"
    /\ UNCHANGED reports

\* The process ends without a report.
Lose ==
    /\ state = "running"
    /\ state' = "lost"
    /\ UNCHANGED reports

Next == Report \/ Skip \/ Lose

Spec == Init /\ [][Next]_vars
=============================================================================
