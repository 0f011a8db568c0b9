------------------------ MODULE MCValidationPipeline ------------------------
(***************************************************************************)
(* Small instances of ValidationPipeline: a rule, which may name a skill    *)
(* and have a scope with one source file in it.                             *)
(***************************************************************************)
EXTENDS ValidationPipeline, TLC

CONSTANTS r1, r2, rule, skill, source, sound, broken, secret, vague, citing

NoCites == [t \in Text |-> {}]

NoScope == [t \in Text |-> None]

CitesSkill == [t \in Text |-> IF t = citing THEN {skill} ELSE {}]

ScopeSource == [t \in Text |-> IF t = citing THEN {source} ELSE None]

\* Two validations differ in nothing but their names.
RunSymmetry == Permutations(Run)
=============================================================================
