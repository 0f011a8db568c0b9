------------------------------- MODULE Levels -------------------------------
(* Five machines that look at a project side by side, one per behaviour:   *)
(* the enforcement of rules, the governance of a document, the cleanup and *)
(* audit of a memory directory, the searches for cycles of the hook,       *)
(* logical and chain validators, and the tools that keep a result on       *)
(* display.                                                                *)
EXTENDS Enforcement, Governance, Memory, Cycles, LiveFeedback

vars == <<enforcement, governance, memory, search, feedback>>

Init ==
    \/ EnforcementInit /\ NoGovernance /\ NoMemory /\ NoSearch /\ NoFeedback
    \/ NoEnforcement /\ GovernanceInit /\ NoMemory /\ NoSearch /\ NoFeedback
    \/ NoEnforcement /\ NoGovernance /\ MemoryInit /\ NoSearch /\ NoFeedback
    \/ NoEnforcement /\ NoGovernance /\ NoMemory /\ CyclesInit /\ NoFeedback
    \/ NoEnforcement /\ NoGovernance /\ NoMemory /\ NoSearch /\ FeedbackInit
Enforce == EnforcementNext /\ UNCHANGED <<governance, memory, search, feedback>>
Govern == GovernanceNext /\ UNCHANGED <<enforcement, memory, search, feedback>>
Remember == MemoryNext /\ UNCHANGED <<enforcement, governance, search, feedback>>
Search == CyclesNext /\ UNCHANGED <<enforcement, governance, memory, feedback>>
Display == FeedbackNext /\ UNCHANGED <<enforcement, governance, memory, search>>
Next == Enforce \/ Govern \/ Remember \/ Search \/ Display
Spec == Init /\ [][Next]_vars
FairSpec == Spec /\ FeedbackFairness
=============================================================================
