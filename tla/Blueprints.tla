----------------------------- MODULE Blueprints -----------------------------
(* What is done with blueprints, in one specification: conversions from    *)
(* tool to tool, or a merge of three of them, one of the two per behaviour. *)
EXTENDS Translation, ThreeWayMerge

vars == <<translation, merging>>

Init ==
    \/ TranslationInit /\ NoMerge
    \/ NoTranslation /\ MergeInit
Translate == TranslationNext /\ UNCHANGED merging
Merge == MergeNext /\ UNCHANGED translation
Next == Translate \/ Merge
Spec == Init /\ [][Next]_vars
=============================================================================
