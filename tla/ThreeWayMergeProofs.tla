------------------------- MODULE ThreeWayMergeProofs -------------------------
(***************************************************************************)
(* What ThreeWayMerge keeps for any anchor fields, items and contents.      *)
(***************************************************************************)
EXTENDS ThreeWayMerge, FiniteSetTheorems, TLAPS

\* What the loops make of an item without a conflict.
Looped(k) ==
    IF OnlyAdds(k, ours, theirs) THEN ours[k]
    ELSE IF OnlyAdds(k, theirs, ours) THEN theirs[k] ELSE base[k]

\* A key that the loops have not come to is as the base has it.
Unvisited == \A k \in pending : merged[k] = base[k] /\ k \notin conflicts

\* The result has nothing of its own.
Picked == \A k \in Key : merged[k] \in {base[k], ours[k], theirs[k]}

\* An item that the loops have come to is in conflict or settled by its rule.
Settled ==
    \A k \in Item \ pending :
        /\ ItemClash(k) => k \in conflicts
        /\ k \notin conflicts => merged[k] = IF pc # "merge" /\ k \in Gone THEN Absent ELSE Looped(k)

\* Only items on which the sides clash are in conflict.
Clashing == \A k \in conflicts : k \in Item => ItemClash(k)

Counted ==
    LET made == Cardinality(Differing(base, merged))
    IN  applied >= made /\ (resolver = "none" => applied = made)

Ending ==
    /\ pc # "merge" => pending = {}
    /\ exit = "clean" => pc = "done" /\ conflicts = {}

Inv == MergeTypes /\ Unvisited /\ Picked /\ Settled /\ Clashing /\ Counted /\ Ending

LEMMA KeysFinite == IsFiniteSet(Key)
  BY MergeAssumption, FS_Union DEF Key

\* The sets of keys that differ are finite.
LEMMA DifferingFinite ==
    ASSUME NEW a, NEW b
    PROVE  IsFiniteSet(Differing(a, b)) /\ Cardinality(Differing(a, b)) \in Nat
<1>1. Differing(a, b) \subseteq Key
  BY DEF Differing
<1> QED
  BY <1>1, KeysFinite, FS_Subset, FS_CardinalityType

\* What is left of the blueprints' types.
LEMMA HeldInBlueprint ==
    ASSUME NEW b \in Blueprint, NEW k \in Key
    PROVE  /\ b[k] \in Held(k)
           /\ \A v \in Held(k) : [b EXCEPT ![k] = v] \in Blueprint
<1>1. b[k] \in Held(k)
  BY DEF Blueprint
<1>2. ASSUME NEW v \in Held(k) PROVE [b EXCEPT ![k] = v] \in Blueprint
  <2>1. v \in UNION {Held(j) : j \in Key}
    OBVIOUS
  <2>2. \A j \in Key : [b EXCEPT ![k] = v][j] \in Held(j)
    BY DEF Blueprint
  <2> QED
    BY <2>1, <2>2 DEF Blueprint
<1> QED
  BY <1>1, <1>2

LEMMA InitInv == MergeInit => Inv
<1> SUFFICES ASSUME MergeInit PROVE Inv
  OBVIOUS
<1>1. MergeTypes
  BY DEF MergeInit, MergeTypes
<1>2. Differing(base, merged) = {}
  BY DEF MergeInit, Differing
<1>3. Counted
  BY <1>2, FS_EmptySet DEF MergeInit, Counted
<1>4. Unvisited /\ Picked /\ Settled /\ Clashing /\ Ending
  BY DEF MergeInit, Unvisited, Picked, Settled, Clashing, Ending, Key
<1> QED
  BY <1>1, <1>3, <1>4 DEF Inv

\* A key that had base's content and is given another makes one more change; one
\* that is given base's content makes none.
LEMMA OneMore ==
    ASSUME NEW b, NEW m \in Blueprint, NEW k \in Key, NEW v, m[k] = b[k]
    PROVE  LET n == [m EXCEPT ![k] = v] IN
           Cardinality(Differing(b, n)) =
               Cardinality(Differing(b, m)) + (IF v = b[k] THEN 0 ELSE 1)
<1> DEFINE n == [m EXCEPT ![k] = v]
<1>1. n[k] = v /\ \A j \in Key \ {k} : n[j] = m[j]
  BY DEF Blueprint
<1>2. k \notin Differing(b, m)
  BY DEF Differing
<1>3. CASE v = b[k]
  <2>1. Differing(b, n) = Differing(b, m)
    BY <1>1, <1>2, <1>3 DEF Differing
  <2> QED
    BY <2>1, <1>3, DifferingFinite
<1>4. CASE v # b[k]
  <2>1. Differing(b, n) = Differing(b, m) \union {k}
    BY <1>1, <1>2, <1>4 DEF Differing
  <2>2. Cardinality(Differing(b, m) \union {k}) = Cardinality(Differing(b, m)) + 1
    BY <1>2, DifferingFinite, FS_AddElement
  <2> QED
    BY <2>1, <2>2, <1>4
<1> QED
  BY <1>3, <1>4
\* What a step of a loop may do to the result.
Handles(k) ==
    \/ \E v \in {ours[k], theirs[k]} : v # base[k] /\ Put(k, v)
    \/ Keep
    \/ Conflict(k)

LEMMA HandlesTypes ==
    ASSUME Inv, NEW k \in Key, Visit(k), Handles(k)
    PROVE  MergeTypes'
<1>1. ours[k] \in Held(k) /\ theirs[k] \in Held(k)
  BY HeldInBlueprint DEF Inv, MergeTypes
<1>2. Resolution(k) \in Held(k)
  BY <1>1 DEF Resolution
<1>3. merged \in Blueprint /\ applied \in Nat /\ conflicts \subseteq Key
  BY DEF Inv, MergeTypes
<1>4. merged' = merged \/ \E v \in Held(k) : merged' = [merged EXCEPT ![k] = v]
  <2>1. CASE Conflict(k)
    BY <1>2, <2>1 DEF Conflict
  <2>2. CASE ~Conflict(k)
    BY <1>1, <2>2 DEF Handles, Put, Keep
  <2> QED
    BY <2>1, <2>2
<1>5. merged' \in Blueprint
  BY <1>3, <1>4, HeldInBlueprint
<1>6. applied' \in Nat /\ conflicts' \subseteq Key
  BY <1>3 DEF Handles, Put, Keep, Conflict
<1> QED
  BY <1>5, <1>6 DEF Inv, MergeTypes, Visit, inputs

\* The count keeps up with the changes.
LEMMA HandlesCounted ==
    ASSUME Inv, NEW k \in Key, Visit(k), Handles(k)
    PROVE  Counted'
<1>1. merged \in Blueprint /\ merged[k] = base[k] /\ applied \in Nat
  BY DEF Inv, MergeTypes, Unvisited, Visit
<1>2. base' = base /\ resolver' = resolver
  BY DEF Visit, inputs
<1>3. /\ applied >= Cardinality(Differing(base, merged))
      /\ resolver = "none" => applied = Cardinality(Differing(base, merged))
  BY DEF Inv, Counted
<1>4. Cardinality(Differing(base, merged)) \in Nat
  BY DifferingFinite
<1>5. ASSUME NEW v, v # base[k], Put(k, v) PROVE Counted'
  <2>1. Cardinality(Differing(base, merged')) = Cardinality(Differing(base, merged)) + 1
    BY <1>1, <1>5, OneMore DEF Put
  <2>2. applied' = applied + 1
    BY <1>5 DEF Put
  <2> QED
    BY <1>1, <1>2, <1>3, <1>4, <2>1, <2>2 DEF Counted
<1>6. CASE Keep
  BY <1>2, <1>3, <1>6 DEF Counted, Keep
<1>7. CASE Conflict(k)
  <2>1. CASE resolver = "none"
    BY <1>2, <1>3, <1>7, <2>1 DEF Counted, Conflict
  <2>2. CASE resolver # "none"
    <3>1. PICK v : merged' = [merged EXCEPT ![k] = v]
      BY <1>7, <2>2 DEF Conflict
    <3>2. Cardinality(Differing(base, merged')) =
              Cardinality(Differing(base, merged)) + (IF v = base[k] THEN 0 ELSE 1)
      BY <1>1, <3>1, OneMore
    <3>3. applied' = applied + 1
      BY <1>7, <2>2 DEF Conflict
    <3> QED
      BY <1>1, <1>2, <1>3, <1>4, <2>2, <3>2, <3>3 DEF Counted
  <2> QED
    BY <2>1, <2>2
<1> QED
  BY <1>5, <1>6, <1>7 DEF Handles

\* The parts of the invariant that do not depend on the kind of the key.
LEMMA HandlesRest ==
    ASSUME Inv, NEW k \in Key, Visit(k), Handles(k)
    PROVE  Unvisited' /\ Picked' /\ Ending'
<1> USE DEF Handles, Put, Keep, Conflict, Resolution
<1>1. merged \in [Key -> UNION {Held(j) : j \in Key}]
  BY DEF Inv, MergeTypes, Blueprint
<1>2. \A j \in Key \ {k} : merged'[j] = merged[j] /\ (j \in conflicts' <=> j \in conflicts)
  BY <1>1
<1>3. merged'[k] \in {merged[k], ours[k], theirs[k]}
  BY <1>1
<1>4. Unvisited'
  BY <1>2 DEF Inv, MergeTypes, Unvisited, Visit, inputs
<1>5. Picked'
  BY <1>2, <1>3 DEF Inv, Picked, Visit, inputs
<1>6. Ending'
  BY DEF Inv, MergeTypes, Ending, Visit, inputs
<1> QED
  BY <1>4, <1>5, <1>6

LEMMA AnchorInv == ASSUME Inv, NEW k \in Anchor, MergeAnchor(k) PROVE Inv'
<1>1. k \in Key /\ k \notin Item /\ Visit(k)
  BY MergeAssumption DEF Key, MergeAnchor
<1>2. Handles(k)
  BY DEF MergeAnchor, Handles, Changed
<1>3. \A j \in Item : merged'[j] = merged[j] /\ (j \in conflicts' <=> j \in conflicts)
  BY <1>1 DEF Inv, MergeTypes, Blueprint, Key, MergeAnchor, Put, Keep, Conflict
<1>4. Item \ pending' = Item \ pending /\ UNCHANGED <<base, ours, theirs, pc>>
  BY <1>1 DEF Visit, inputs
<1>5. Settled'
  BY <1>3, <1>4 DEF Inv, Settled, ItemClash, Looped, OnlyAdds, Gone
<1>6. Clashing'
  BY <1>3, <1>4 DEF Inv, Clashing, ItemClash
<1> QED
  BY <1>1, <1>2, <1>5, <1>6, HandlesTypes, HandlesCounted, HandlesRest DEF Inv

LEMMA ItemInv == ASSUME Inv, NEW k \in Item, MergeItem(k) PROVE Inv'
<1>1. k \in Key /\ Visit(k) /\ pc = "merge" /\ pc' = pc
  BY DEF Key, MergeItem, Visit
<1>2. Handles(k)
  BY DEF MergeItem, Handles, OnlyAdds
<1>3. /\ \A j \in Key \ {k} : merged'[j] = merged[j]
      /\ \A j : j # k => (j \in conflicts' <=> j \in conflicts)
  BY DEF Inv, MergeTypes, Blueprint, MergeItem, Put, Keep, Conflict
<1>4. pending' = pending \ {k} /\ UNCHANGED <<base, ours, theirs, pc>>
  BY <1>1 DEF Visit, inputs
<1>5. k \notin conflicts /\ merged[k] = base[k]
  BY <1>1 DEF Inv, Unvisited, Visit
<1>6. /\ ItemClash(k) <=> k \in conflicts'
      /\ k \notin conflicts' => merged'[k] = Looped(k)
  BY <1>1, <1>5 DEF Inv, MergeTypes, Blueprint, MergeItem, Put, Keep, Conflict, ItemClash, OnlyAdds, Looped
<1>7. Settled'
  BY <1>1, <1>3, <1>4, <1>6 DEF Inv, Settled, ItemClash, Looped, OnlyAdds, Key
<1>8. Clashing'
  BY <1>3, <1>4, <1>6 DEF Inv, MergeTypes, Clashing, ItemClash
<1> QED
  BY <1>1, <1>2, <1>7, <1>8, HandlesTypes, HandlesCounted, HandlesRest DEF Inv
\* What a side has removed was not touched by the loops.
LEMMA GoneUntouched == ASSUME Inv, pc = "merge", pending = {}, NEW k \in Gone
                       PROVE  k \in Item /\ merged[k] = base[k] /\ base[k] # Absent
<1>1. /\ k \in Item /\ base[k] # Absent
      /\ ~ItemClash(k) /\ ~OnlyAdds(k, ours, theirs) /\ ~OnlyAdds(k, theirs, ours)
  BY DEF Gone, ItemClash, OnlyAdds
<1>2. k \notin conflicts
  BY <1>1 DEF Inv, Clashing
<1> QED
  BY <1>1, <1>2 DEF Inv, Settled, Looped

LEMMA RemoveInv == ASSUME Inv, RemoveGone PROVE Inv'
<1>1. /\ pc = "merge" /\ pc' = "write" /\ pending = {} /\ pending' = {}
      /\ UNCHANGED <<base, ours, theirs, resolver, conflicts, exit, written>>
      /\ applied' = applied + Cardinality(Gone)
  BY DEF RemoveGone, inputs
<1>2. \A k \in Key : merged'[k] = IF k \in Gone THEN Absent ELSE merged[k]
  BY DEF RemoveGone
<1>3. Gone \subseteq Key /\ Gone \subseteq Item
  BY DEF Gone, Key
<1>4. IsFiniteSet(Gone) /\ Cardinality(Gone) \in Nat
  BY <1>3, MergeAssumption, FS_Subset, FS_CardinalityType
<1>5. MergeTypes'
  <2>1. \A k \in Key : merged'[k] \in Held(k)
    BY <1>2, <1>3 DEF Inv, MergeTypes, Blueprint, Held
  <2>2. merged' \in Blueprint
    BY <2>1 DEF RemoveGone, Blueprint
  <2> QED
    BY <1>1, <1>4, <2>2 DEF Inv, MergeTypes
<1>6. Unvisited' /\ Ending'
  BY <1>1 DEF Inv, Unvisited, Ending, MergeTypes
<1>7. Picked'
  BY <1>1, <1>2 DEF Inv, Picked, Gone
<1>8. Settled' /\ Clashing'
  <2>1. Gone' = Gone
    BY <1>1 DEF Gone
  <2> QED
    BY <1>1, <1>2, <2>1, GoneUntouched
       DEF Inv, Settled, Clashing, ItemClash, Looped, OnlyAdds, Key, Gone
<1>9. Counted'
  <2>1. Differing(base, merged') = Differing(base, merged) \union Gone
    BY <1>1, <1>2, <1>3, GoneUntouched DEF Differing
  <2>2. Differing(base, merged) \intersect Gone = {}
    BY <1>1, GoneUntouched DEF Differing
  <2>3. Cardinality(Differing(base, merged')) =
            Cardinality(Differing(base, merged)) + Cardinality(Gone)
    BY <1>4, <2>1, <2>2, DifferingFinite, FS_Union, FS_EmptySet
  <2>4. /\ applied \in Nat
        /\ applied >= Cardinality(Differing(base, merged))
        /\ resolver = "none" => applied = Cardinality(Differing(base, merged))
    BY DEF Inv, MergeTypes, Counted
  <2> QED
    BY <1>1, <1>4, <2>3, <2>4, DifferingFinite DEF Counted
<1> QED
  BY <1>5, <1>6, <1>7, <1>8, <1>9 DEF Inv

LEMMA RestInv ==
    ASSUME Inv, WriteResult \/ WriteFails \/ (\E allow \in BOOLEAN : Report(allow)) \/ UNCHANGED merging
    PROVE  Inv'
<1>1. /\ UNCHANGED <<base, ours, theirs, resolver, merged, pending, conflicts, applied>>
      /\ pc' = "merge" <=> pc = "merge"
      /\ pc' \in {"merge", "write", "report", "done"} /\ written' \in BOOLEAN
      /\ exit' \in {"running", "clean", "partial", "failed", "error"}
      /\ exit' = "clean" => pc' = "done" /\ conflicts = {}
  BY DEF WriteResult, WriteFails, Report, merging, inputs, Inv, MergeTypes, Ending
<1>2. MergeTypes' /\ Unvisited' /\ Picked' /\ Clashing' /\ Counted' /\ Ending'
  BY <1>1 DEF Inv, MergeTypes, Unvisited, Picked, Clashing, Counted, Ending, ItemClash
<1>3. Settled'
  BY <1>1 DEF Inv, Settled, ItemClash, Looped, OnlyAdds, Gone
<1> QED
  BY <1>2, <1>3 DEF Inv

LEMMA Invariance == MergeSpec => []Inv
<1>1. Inv /\ [MergeNext]_merging => Inv'
  BY AnchorInv, ItemInv, RemoveInv, RestInv DEF MergeNext
<1> QED
  BY InitInv, <1>1, PTL DEF MergeSpec

\* The merge never leaves the type of its variables, whatever the blueprints
\* hold; in particular no field of the anchor is ever removed.
THEOREM TypeCorrect == MergeSpec => []MergeTypes
  BY Invariance, PTL DEF Inv

\* Of any three blueprints and under any strategy, the merge makes no change
\* that neither side has made.
THEOREM NothingForeign == MergeSpec => []NoForeignChange
<1>1. Inv => NoForeignChange
  BY DEF Inv, Picked, NoForeignChange, Changes, Differing
<1> QED
  BY <1>1, Invariance, PTL

\* "N changes applied" is the number of keys in which the result differs from
\* the base, or more where a strategy resolves a conflict as the base has it.
THEOREM CountsApplied == MergeSpec => []AppliedCounts
<1>1. Inv => AppliedCounts
  BY DEF Inv, Counted, AppliedCounts
<1> QED
  BY <1>1, Invariance, PTL

\* A clean merge has everything that one side alone did to an item.
THEOREM CleanComplete == MergeSpec => []CleanTakesBoth
<1>1. ASSUME Inv PROVE CleanTakesBoth
  <2> SUFFICES ASSUME exit = "clean", NEW k \in Item
               PROVE  /\ ~Changed(k, ours) => merged[k] = theirs[k]
                      /\ ~Changed(k, theirs) => merged[k] = ours[k]
    BY DEF CleanTakesBoth
  <2>1. pc # "merge" /\ conflicts = {} /\ pending = {}
    BY <1>1 DEF Inv, Ending
  <2>2. /\ ~ItemClash(k)
        /\ merged[k] = IF k \in Gone THEN Absent ELSE Looped(k)
    BY <1>1, <2>1 DEF Inv, Settled
  <2> QED
    BY <2>2 DEF ItemClash, Looped, OnlyAdds, Gone, Changed
<1> QED
  BY <1>1, Invariance, PTL

\* Of any three blueprints: the result holds nothing that neither side did, and
\* a clean one everything that either side alone did.
THEOREM MergesFaithfully == MergeSpec => []MergeFaithful
BY NothingForeign, CleanComplete, PTL DEF MergeFaithful
==============================================================================
