---------------------------- MODULE ThreeWayMerge ----------------------------
(***************************************************************************)
(* `bp merge BASE OURS THEIRS`: src/blueprint-sync/merge.ts and the command *)
(* src/cli/commands/merge.ts around it.                                     *)
(*                                                                          *)
(* A blueprint is a function from its keys to what it holds there.  A key   *)
(* is a field of the spatial anchor, or an item: a persona, a rule or a     *)
(* skill under its layer and its name or id (the merger's path              *)
(* "rules[id]"), which may be Absent.  The contents are compared whole, as  *)
(* deepEqual does, and never looked into.  The three layers go through one  *)
(* procedure, over disjoint sets of items, so they are one set here.  Left  *)
(* out: the order of the items in a layer; hooks, commands and the optional *)
(* layers, which the merger never touches and which stay as BASE has them;  *)
(* and resolution_strategies, which nothing reads.                          *)
(***************************************************************************)
EXTENDS Integers, FiniteSets

CONSTANTS
    Anchor,     \* the fields of the spatial anchor
    Item,       \* the items of all layers
    Contents,   \* what each key may hold in a blueprint
    Absent      \* an item that is not there

Key == Anchor \union Item

ASSUME MergeAssumption ==
    /\ IsFiniteSet(Anchor) /\ IsFiniteSet(Item)
    /\ Anchor \intersect Item = {}
    /\ \A k \in Anchor : Absent \notin Contents[k]

Held(k) == IF k \in Item THEN Contents[k] \union {Absent} ELSE Contents[k]

Blueprint == {b \in [Key -> UNION {Held(k) : k \in Key}] : \A k \in Key : b[k] \in Held(k)}

VARIABLES
    base, ours, theirs,  \* the three files
    resolver,            \* --strategy: "ours", "theirs", or "none" for deep and interactive
    merged,              \* the clone of base that the merge works on
    pending,             \* the keys that the loops have not come to
    conflicts,           \* the keys in the list of conflicts
    applied,             \* appliedChanges
    pc,
    written,             \* --output holds the result
    exit                 \* how the command ended

inputs == <<base, ours, theirs, resolver>>
merging == <<inputs, merged, pending, conflicts, applied, pc, written, exit>>

MergeInit ==
    /\ base \in Blueprint /\ ours \in Blueprint /\ theirs \in Blueprint
    /\ resolver \in {"none", "ours", "theirs"}
    /\ merged = base
    /\ pending = Key
    /\ conflicts = {}
    /\ applied = 0
    /\ pc = "merge"
    /\ written = FALSE
    /\ exit = "running"

\* A merge of equals that has ended.
NoMerge ==
    /\ base = CHOOSE b \in Blueprint : TRUE
    /\ ours = base /\ theirs = base /\ merged = base
    /\ resolver = "none" /\ pending = {} /\ conflicts = {} /\ applied = 0
    /\ pc = "done" /\ written = FALSE /\ exit = "clean"

\* What the differ reports between two blueprints: each key that differs, with
\* what it holds in the second.  An addition, a removal and a modification are
\* told apart by which side of it is Absent.
Differing(from, to) == {k \in Key : from[k] # to[k]}

Changes(from, to) == {<<k, to[k]>> : k \in Differing(from, to)}

Changed(k, side) == side[k] # base[k]

------------------------------------------------------------------------------
Put(k, content) ==
    /\ merged' = [merged EXCEPT ![k] = content]
    /\ applied' = applied + 1
    /\ UNCHANGED conflicts

Keep == UNCHANGED <<merged, applied, conflicts>>

\* autoResolveStrategy of the command.
Resolution(k) == IF resolver = "ours" THEN ours[k] ELSE theirs[k]

\* A conflict leaves what base has unless the strategy resolves it.
Conflict(k) ==
    /\ conflicts' = conflicts \union {k}
    /\ IF resolver = "none"
       THEN UNCHANGED <<merged, applied>>
       ELSE merged' = [merged EXCEPT ![k] = Resolution(k)] /\ applied' = applied + 1

Visit(k) ==
    /\ pc = "merge" /\ k \in pending
    /\ pending' = pending \ {k}
    /\ UNCHANGED <<inputs, pc, written, exit>>

\* The anchor comes first.  A change that only they made is not applied.
AnchorClash(k) == Changed(k, ours) /\ Changed(k, theirs) /\ ours[k] # theirs[k]

MergeAnchor(k) ==
    /\ Visit(k)
    /\ \/ AnchorClash(k) /\ Conflict(k)
       \/ ~AnchorClash(k) /\ Changed(k, ours) /\ Put(k, ours[k])
       \/ ~Changed(k, ours) /\ Keep

\* Both sides hold the item and differ.  What base has plays no part in it.
ItemClash(k) == ours[k] # Absent /\ theirs[k] # Absent /\ ours[k] # theirs[k]

\* Only one side holds the item, and base does not.
OnlyAdds(k, side, other) == side[k] # Absent /\ other[k] = Absent /\ base[k] = Absent

MergeItem(k) ==
    /\ pending \intersect Anchor = {}
    /\ Visit(k)
    /\ \/ ItemClash(k) /\ Conflict(k)
       \/ OnlyAdds(k, ours, theirs) /\ Put(k, ours[k])
       \/ OnlyAdds(k, theirs, ours) /\ Put(k, theirs[k])
       \/ /\ ~ItemClash(k) /\ ~OnlyAdds(k, ours, theirs) /\ ~OnlyAdds(k, theirs, ours)
          /\ Keep

\* Mutant of Gone: what the sides differ in, gone or not.
GoneOrChanged == {k \in Item : base[k] # Absent /\ ours[k] # theirs[k]}

\* Mutant of Gone: without the look at base.
GoneUnbased == {k \in Item : ours[k] = Absent \/ theirs[k] = Absent}

\* Mutant of Gone: only what both sides have removed.
GoneTwice == {k \in Item : base[k] # Absent /\ ours[k] = Absent /\ theirs[k] = Absent}

\* toRemove: what base had and either side has no more.
Gone == {k \in Item : base[k] # Absent /\ (ours[k] = Absent \/ theirs[k] = Absent)}

\* Mutant of RemoveGone: the removals are taken off the count.
RemoveUncounted ==
    /\ pc = "merge" /\ pending = {}
    /\ merged' = [k \in Key |-> IF k \in Gone THEN Absent ELSE merged[k]]
    /\ applied' = applied - Cardinality(Gone)
    /\ pc' = "write"
    /\ UNCHANGED <<inputs, pending, conflicts, written, exit>>

RemoveGone ==
    /\ pc = "merge" /\ pending = {}
    /\ merged' = [k \in Key |-> IF k \in Gone THEN Absent ELSE merged[k]]
    /\ applied' = applied + Cardinality(Gone)
    /\ pc' = "write"
    /\ UNCHANGED <<inputs, pending, conflicts, written, exit>>

\* The result is written, to --output or to the terminal, before the conflicts
\* are looked at.
WriteResult ==
    /\ pc = "write"
    /\ pc' = "report"
    /\ written' \in BOOLEAN
    /\ UNCHANGED <<inputs, merged, pending, conflicts, applied, exit>>

\* The path of --output is refused, or the file cannot be written.
WriteFails ==
    /\ pc = "write"
    /\ pc' = "done"
    /\ exit' = "error"
    /\ UNCHANGED <<inputs, merged, pending, conflicts, applied, written>>

\* The end without conflicts, with conflicts that --allow-partial lets pass,
\* and with exit code 1 because of them.
Report(allowPartial) ==
    /\ pc = "report"
    /\ pc' = "done"
    /\ exit' = IF conflicts = {} THEN "clean" ELSE IF allowPartial THEN "partial" ELSE "failed"
    /\ UNCHANGED <<inputs, merged, pending, conflicts, applied, written>>

MergeNext ==
    \/ \E k \in Anchor : MergeAnchor(k)
    \/ \E k \in Item : MergeItem(k)
    \/ RemoveGone
    \/ WriteResult
    \/ WriteFails
    \/ \E allow \in BOOLEAN : Report(allow)

MergeSpec == MergeInit /\ [][MergeNext]_merging

------------------------------------------------------------------------------
\* Every variable holds what its comment says.
MergeTypes ==
    /\ base \in Blueprint /\ ours \in Blueprint /\ theirs \in Blueprint /\ merged \in Blueprint
    /\ resolver \in {"none", "ours", "theirs"}
    /\ pending \subseteq Key /\ conflicts \subseteq Key
    /\ applied \in Nat
    /\ pc \in {"merge", "write", "report", "done"}
    /\ written \in BOOLEAN
    /\ exit \in {"running", "clean", "partial", "failed", "error"}

Merged == pc # "merge"

\* The merge makes no change of its own: whatever the differ finds between the
\* base and the result it also finds, with the same content, between the base
\* and one of the two sides, whichever strategy resolves the conflicts.
NoForeignChange ==
    Merged => Changes(base, merged) \subseteq Changes(base, ours) \union Changes(base, theirs)

\* "N changes applied" counts what changed: without a strategy, exactly the
\* changes between the base and the result; with one, never fewer.
AppliedCounts ==
    Merged => LET made == Cardinality(Differing(base, merged))
              IN  /\ applied >= made
                  /\ resolver = "none" => applied = made

\* A merge that ends as clean has taken up everything that one side alone did to
\* an item: where one side is as the base, the result is as the other.
CleanTakesBoth ==
    exit = "clean" =>
        \A k \in Item : /\ ~Changed(k, ours) => merged[k] = theirs[k]
                        /\ ~Changed(k, theirs) => merged[k] = ours[k]

\* MergeFaithful: the result holds nothing that neither side did, and when it is
\* called clean, all that either side alone did (blueprint-sync/merge.ts:87-192).
MergeFaithful == NoForeignChange /\ CleanTakesBoth

\* The message of the failure advises `--strategy ours` or `theirs` "to
\* auto-resolve": then a merge with such a strategy does not fail of unresolved
\* conflicts.  The command passes allowPartialMerge = false and the merger
\* counts the resolved conflicts too, so it does.
ResolvedMergeSucceeds == exit = "failed" => resolver = "none"
==============================================================================
