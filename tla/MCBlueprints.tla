---------------------------- MODULE MCBlueprints ----------------------------
(* One tool of every kind of adapter and a small blueprint to merge.       *)
EXTENDS Blueprints, TLC

CONSTANTS s1, r1, name, rule, skill, na, nb, nc, ra, rb, ka

Backends == {"claude", "codex", "kiro", "generic", "qwen", "kimi"}
\* "skills_only" differs from the first in the command files alone.
Overrides == {[delivery_mode |-> "skills_and_commands", workflows |-> {s1}],
              [delivery_mode |-> "commands_only", workflows |-> {}]}

\* Three names for the project, so that both sides can change it differently,
\* two texts of the rule, which may also be missing, and a skill that is there
\* or not.
SmallContents == name :> {na, nb, nc} @@ rule :> {ra, rb} @@ skill :> {ka}
=============================================================================
