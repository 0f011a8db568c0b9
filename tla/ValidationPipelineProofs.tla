----------------------- MODULE ValidationPipelineProofs -----------------------
(***************************************************************************)
(* Proofs about ValidationPipeline, for any set of validations, files and   *)
(* texts and any number of changes and kills.                               *)
(***************************************************************************)
EXTENDS ValidationPipeline, TLAPS

LEMMA InitTypeOK == Init => TypeOK
BY ConstantsAssumption
DEF Init, TypeOK, Shapes, StampsCounted, OptionsKnown, StatsBlank, StatsCompared, Standing,
    Phase, Entries, NoEntries

LEMMA ForgetTypes ==
    ASSUME TypeOK, NEW r \in Run, Forget(r), UNCHANGED <<files, cache>>, kills' \in 0 .. MaxKills
    PROVE  TypeOK'
<1>1. Shapes'
  <2>1. NoEntries \in Entries
    BY DEF NoEntries, Entries
  <2>2. [f \in File |-> None] \in [File -> 0 .. MaxEdits \union {None}]
    OBVIOUS
  <2> QED
    BY <2>1, <2>2, ConstantsAssumption DEF Forget, TypeOK, Shapes, files, Phase
<1>2. StampsCounted'
  BY DEF TypeOK, StampsCounted, files
<1>3. OptionsKnown'
  BY DEF TypeOK, Shapes, OptionsKnown, Forget
<1>4. StatsBlank' /\ StatsCompared'
  BY DEF TypeOK, Shapes, StatsBlank, StatsCompared, Forget
<1> QED
  BY <1>1, <1>2, <1>3, <1>4 DEF TypeOK

LEMMA NewEntryType ==
    ASSUME Shapes, NEW r \in Run, NEW f \in File, seen[r][f] # None, disk[f] # None
    PROVE  NewEntry(r, f) \in Entry
BY DEF Shapes, NewEntry, Entry

LEMMA StartTypeOK == ASSUME TypeOK, NEW r \in Run, Start(r) PROVE TypeOK'
<1> USE DEF TypeOK
<1>1. PICK o \in Option : opt' = [opt EXCEPT ![r] = o]
  BY DEF Start
<1>2. PICK s \in {"load", "failed"} : pc' = [pc EXCEPT ![r] = s]
  BY DEF Start
<1>3. Shapes'
  <2>1. Listed \subseteq File
    BY DEF Listed
  <2>2. begun' \in [Run -> 0 .. MaxEdits] /\ todo' \in [Run -> SUBSET File]
    BY <2>1 DEF Start, Shapes
  <2>3. answer' \in [Run -> {"none", "waiting", "report", "timeout", "limit", "error"}]
    BY DEF Start, Shapes
  <2> QED
    BY <1>1, <1>2, <2>2, <2>3 DEF Start, Shapes, files, Phase
<1>4. StampsCounted'
  BY DEF Start, StampsCounted, files
<1>5. OptionsKnown'
  BY <1>1, <1>2 DEF OptionsKnown, Shapes
<1>6. StatsBlank'
  BY <1>2 DEF Start, StatsBlank, Shapes
<1>7. StatsCompared'
  BY <1>2 DEF Start, StatsCompared, Shapes
<1> QED
  BY <1>3, <1>4, <1>5, <1>6, <1>7

LEMMA ValidateShapes == ASSUME TypeOK, NEW r \in Run, Validate(r) PROVE Shapes'
<1> USE DEF TypeOK
<1>1. CASE LoadCache(r)
  <2>1. base' \in [Run -> Entries]
    BY <1>1 DEF LoadCache, Shapes, Usable, Cache, NoEntries, Entries
  <2> QED
    BY <1>1, <2>1 DEF LoadCache, Shapes, files, Phase
<1>2. CASE EndTriage(r)
  BY <1>2 DEF EndTriage, Shapes, files, Phase
<1>3. CASE EndStructural(r)
  BY <1>3 DEF EndStructural, Shapes, files, Phase
<1>4. CASE EndSemantic(r)
  BY <1>4 DEF EndSemantic, Shapes, files, Phase
<1>5. CASE SaveBegin(r)
  BY <1>5 DEF SaveBegin, Shapes, files, local, Phase
<1>6. CASE SaveEnd(r)
  <2>1. cache' \in Cache \union {Unreadable}
    BY <1>6 DEF SaveEnd, Shapes, OptionsKnown, Cache, Option
  <2> QED
    BY <1>6, <2>1 DEF SaveEnd, Shapes, files, local, Phase
<1>7. CASE GlobalPhase(r)
  BY <1>7 DEF GlobalPhase, Shapes, files, Phase
<1>8. CASE Return(r)
  BY <1>8, ForgetTypes DEF Return, Shapes
<1>9. ASSUME NEW f \in File, StatFile(r, f) PROVE Shapes'
  <2>1. /\ fresh \in [Run -> SUBSET File] /\ todo \in [Run -> SUBSET File]
        /\ seen \in [Run -> [File -> 0 .. MaxEdits \union {None}]]
        /\ served \in [Run -> SUBSET Finding]
        /\ stamp[f] \in 0 .. MaxEdits
        /\ base[r][f] # None => base[r][f].errors \subseteq Finding
    BY DEF Shapes, Entries, Entry
  <2>2. served' \in [Run -> SUBSET Finding]
    BY <1>9, <2>1 DEF StatFile, Serve
  <2>3. seen' \in [Run -> [File -> 0 .. MaxEdits \union {None}]]
    <3>1. seen' = seen \/ seen' = [seen EXCEPT ![r] = [seen[r] EXCEPT ![f] = stamp[f]]]
      BY <1>9 DEF StatFile
    <3>2. [seen[r] EXCEPT ![f] = stamp[f]] \in [File -> 0 .. MaxEdits \union {None}]
      BY <2>1
    <3> QED
      BY <2>1, <3>1, <3>2
  <2>4. fresh' \in [Run -> SUBSET File] /\ todo' \in [Run -> SUBSET File]
    <3>1. fresh' = fresh \/ fresh' = [fresh EXCEPT ![r] = @ \union {f}]
      BY <1>9 DEF StatFile
    <3>2. todo' = todo \/ todo' = [todo EXCEPT ![r] = @ \ {f}]
      BY <1>9 DEF StatFile
    <3>3. fresh[r] \union {f} \in SUBSET File /\ todo[r] \ {f} \in SUBSET File
      BY <2>1
    <3>4. fresh' \in [Run -> SUBSET File]
      BY <2>1, <3>1, <3>3
    <3>5. todo' \in [Run -> SUBSET File]
      BY <2>1, <3>2, <3>3
    <3> QED
      BY <3>4, <3>5
  <2>5. UNCHANGED <<files, cache, pc, opt, base, found, failed, ran, begun, answer, kills>>
    BY <1>9 DEF StatFile
  <2> QED
    BY <2>2, <2>3, <2>4, <2>5 DEF Shapes, files
<1>10. ASSUME NEW f \in File, HashFile(r, f) PROVE Shapes'
  <2>1. /\ fresh \in [Run -> SUBSET File] /\ todo \in [Run -> SUBSET File]
        /\ seen \in [Run -> [File -> 0 .. MaxEdits \union {None}]]
        /\ served \in [Run -> SUBSET Finding] /\ base \in [Run -> Entries]
    BY DEF Shapes
  <2>2. base[r][f] \in Entry /\ seen[r][f] \in 0 .. MaxEdits
    BY <1>10, <2>1 DEF HashFile, StatsCompared, Entries
  <2>3. [base[r][f] EXCEPT !.stamp = seen[r][f]] \in Entry /\ base[r][f].errors \subseteq Finding
    BY <2>2 DEF Entry
  <2>4. base' \in [Run -> Entries]
    <3>1. \/ base' = base
          \/ base' = [base EXCEPT ![r][f].stamp = seen[r][f]]
      BY <1>10 DEF HashFile
    <3>2. [base[r] EXCEPT ![f].stamp = seen[r][f]] \in Entries
      BY <2>1, <2>3 DEF Entries
    <3> QED
      BY <2>1, <3>1, <3>2
  <2>5. served' \in [Run -> SUBSET Finding]
    BY <1>10, <2>1, <2>3 DEF HashFile, Serve
  <2>6. seen' \in [Run -> [File -> 0 .. MaxEdits \union {None}]]
    BY <1>10, <2>1 DEF HashFile
  <2>7. fresh' \in [Run -> SUBSET File] /\ todo' \in [Run -> SUBSET File]
    <3>1. fresh' = fresh \/ fresh' = [fresh EXCEPT ![r] = @ \union {f}]
      BY <1>10 DEF HashFile
    <3>2. todo' = [todo EXCEPT ![r] = @ \ {f}]
      BY <1>10 DEF HashFile
    <3>3. fresh[r] \union {f} \in SUBSET File /\ todo[r] \ {f} \in SUBSET File
      BY <2>1
    <3>4. fresh' \in [Run -> SUBSET File]
      BY <2>1, <3>1, <3>3
    <3>5. todo' \in [Run -> SUBSET File]
      BY <2>1, <3>2, <3>3
    <3> QED
      BY <3>4, <3>5
  <2>8. UNCHANGED <<files, cache, pc, opt, found, failed, ran, begun, answer, kills>>
    BY <1>10 DEF HashFile
  <2> QED
    BY <2>4, <2>5, <2>6, <2>7, <2>8 DEF Shapes, files
<1>11. ASSUME NEW f \in File, HashFails(r, f) PROVE Shapes'
  BY <1>11 DEF HashFails, Shapes, files, local, Phase
<1>12. ASSUME NEW f \in File, StructuralFile(r, f) PROVE Shapes'
  <2>1. found' \in [Run -> SUBSET Finding]
    BY <1>12 DEF StructuralFile, Shapes, Finding
  <2> QED
    BY <1>12, <2>1 DEF StructuralFile, Shapes, files
<1>13. ASSUME NEW f \in File, SemanticFile(r, f) PROVE Shapes'
  <2>1. found' \in [Run -> SUBSET Finding]
    BY <1>13 DEF SemanticFile, Shapes, Finding
  <2> QED
    BY <1>13, <2>1 DEF SemanticFile, Shapes, files
<1>14. ASSUME NEW f \in File, RestatFile(r, f) PROVE Shapes'
  <2>1. /\ todo \in [Run -> SUBSET File] /\ stamp[f] \in 0 .. MaxEdits
        /\ seen \in [Run -> [File -> 0 .. MaxEdits \union {None}]]
    BY DEF Shapes
  <2>2. seen' \in [Run -> [File -> 0 .. MaxEdits \union {None}]]
    <3>1. seen' = seen \/ seen' = [seen EXCEPT ![r][f] = stamp[f]]
      BY <1>14 DEF RestatFile
    <3>2. [seen[r] EXCEPT ![f] = stamp[f]] \in [File -> 0 .. MaxEdits \union {None}]
      BY <2>1
    <3> QED
      BY <2>1, <3>1, <3>2
  <2>3. todo' \in [Run -> SUBSET File]
    BY <1>14, <2>1 DEF RestatFile
  <2>4. UNCHANGED <<files, cache, pc, opt, fresh, base, served, found, failed, ran, begun, answer, kills>>
    BY <1>14 DEF RestatFile
  <2> QED
    BY <2>2, <2>3, <2>4 DEF Shapes, files
<1>15. ASSUME NEW f \in File, RehashFile(r, f) PROVE Shapes'
  <2>1. /\ todo \in [Run -> SUBSET File] /\ base \in [Run -> Entries]
        /\ seen \in [Run -> [File -> 0 .. MaxEdits \union {None}]]
    BY DEF Shapes
  <2>2. NewEntry(r, f) \in Entry
    BY <1>15, NewEntryType DEF RehashFile
  <2>3. base' \in [Run -> Entries]
    BY <1>15, <2>1, <2>2 DEF RehashFile, Entries
  <2>4. seen' \in [Run -> [File -> 0 .. MaxEdits \union {None}]]
    BY <1>15, <2>1 DEF RehashFile
  <2>5. todo' \in [Run -> SUBSET File]
    BY <1>15, <2>1 DEF RehashFile
  <2>6. UNCHANGED <<files, cache, pc, opt, fresh, served, found, failed, ran, begun, answer, kills>>
    BY <1>15 DEF RehashFile
  <2> QED
    BY <2>3, <2>4, <2>5, <2>6 DEF Shapes, files
<1> QED
  BY <1>1, <1>2, <1>3, <1>4, <1>5, <1>6, <1>7, <1>8, <1>9, <1>10, <1>11, <1>12, <1>13,
     <1>14, <1>15 DEF Validate

\* No step of a run but the end of it changes its options.
LEMMA ValidateOptions == ASSUME TypeOK, NEW r \in Run, Validate(r) PROVE OptionsKnown'
<1> USE DEF TypeOK, Shapes, OptionsKnown
<1>1. CASE LoadCache(r) \/ EndTriage(r) \/ EndStructural(r) \/ EndSemantic(r) \/ GlobalPhase(r)
  BY <1>1 DEF LoadCache, EndTriage, EndStructural, EndSemantic, GlobalPhase
<1>2. CASE SaveBegin(r) \/ SaveEnd(r)
  BY <1>2 DEF SaveBegin, SaveEnd, local
<1>3. CASE Return(r)
  BY <1>3 DEF Return, Forget
<1>4. ASSUME NEW f \in File, StatFile(r, f) \/ HashFile(r, f) \/ RestatFile(r, f) \/ RehashFile(r, f)
      PROVE  OptionsKnown'
  BY <1>4 DEF StatFile, HashFile, RestatFile, RehashFile
<1>5. ASSUME NEW f \in File, HashFails(r, f) \/ StructuralFile(r, f) \/ SemanticFile(r, f)
      PROVE  OptionsKnown'
  BY <1>5 DEF HashFails, StructuralFile, SemanticFile, local
<1> QED
  BY <1>1, <1>2, <1>3, <1>4, <1>5 DEF Validate

\* The stats a run holds are those of the triage and of the update.
LEMMA ValidateStats ==
    ASSUME TypeOK, NEW r \in Run, Validate(r) PROVE StatsBlank' /\ StatsCompared'
<1> USE DEF StatsBlank, StatsCompared
<1>0. /\ pc \in [Run -> Phase] /\ base \in [Run -> Entries]
      /\ seen \in [Run -> [File -> 0 .. MaxEdits \union {None}]]
      /\ StatsBlank /\ StatsCompared
  BY DEF TypeOK, Shapes
<1>1. CASE LoadCache(r)
  BY <1>0, <1>1 DEF LoadCache
<1>2. CASE EndTriage(r) \/ EndStructural(r) \/ EndSemantic(r) \/ GlobalPhase(r)
  BY <1>0, <1>2 DEF EndTriage, EndStructural, EndSemantic, GlobalPhase
<1>3. CASE SaveBegin(r) \/ SaveEnd(r)
  BY <1>0, <1>3 DEF SaveBegin, SaveEnd, local
<1>4. CASE Return(r)
  BY <1>0, <1>4 DEF Return, Forget
<1>5. ASSUME NEW f \in File, StatFile(r, f) PROVE StatsBlank' /\ StatsCompared'
  <2>1. pc' = pc /\ base' = base /\ pc[r] = "triage"
    BY <1>5 DEF StatFile
  <2>2. \/ seen' = seen
        \/ base[r][f] # None /\ seen' = [seen EXCEPT ![r][f] = stamp[f]]
    BY <1>5 DEF StatFile
  <2>3. \A q \in Run, g \in File : q # r \/ g # f => seen'[q][g] = seen[q][g]
    BY <1>0, <2>2
  <2>4. seen'[r][f] # None => seen[r][f] # None \/ base[r][f] # None
    BY <1>0, <2>2
  <2>5. ASSUME NEW q \in Run, NEW g \in File, pc[q] \in {"idle", "load"} PROVE seen'[q][g] = None
    BY <1>0, <2>1, <2>3, <2>5
  <2>6. ASSUME NEW q \in Run, NEW g \in File, pc[q] = "triage", seen'[q][g] # None
        PROVE  base[q][g] # None
    BY <1>0, <2>1, <2>3, <2>4, <2>6
  <2> QED
    BY <2>1, <2>5, <2>6
<1>6. ASSUME NEW f \in File, HashFile(r, f) PROVE StatsBlank' /\ StatsCompared'
  <2>1. pc' = pc /\ pc[r] = "triage" /\ seen' = [seen EXCEPT ![r][f] = None]
    BY <1>6 DEF HashFile
  <2>2. \/ base' = base
        \/ base' = [base EXCEPT ![r][f].stamp = seen[r][f]]
    BY <1>6 DEF HashFile
  <2>3. \A q \in Run, g \in File : q # r \/ g # f => base'[q][g] = base[q][g]
    BY <1>0, <2>2 DEF Entries
  <2>4. \A q \in Run, g \in File :
          /\ q # r \/ g # f => seen'[q][g] = seen[q][g]
          /\ q = r /\ g = f => seen'[q][g] = None
    BY <1>0, <2>1
  <2> QED
    BY <1>0, <2>1, <2>3, <2>4
<1>7. ASSUME NEW f \in File, RestatFile(r, f) \/ RehashFile(r, f) PROVE StatsBlank' /\ StatsCompared'
  <2>1. pc' = pc /\ pc[r] = "update"
    BY <1>7 DEF RestatFile, RehashFile
  <2>2. \A q \in Run \ {r} : seen'[q] = seen[q] /\ base'[q] = base[q]
    BY <1>0, <1>7 DEF RestatFile, RehashFile
  <2>3. ASSUME NEW q \in Run, pc[q] \in {"idle", "load", "triage"}
        PROVE  seen'[q] = seen[q] /\ base'[q] = base[q]
    BY <2>1, <2>2, <2>3
  <2> QED
    BY <1>0, <2>1, <2>3
<1>8. ASSUME NEW f \in File, HashFails(r, f) \/ StructuralFile(r, f) \/ SemanticFile(r, f)
      PROVE  StatsBlank' /\ StatsCompared'
  BY <1>0, <1>8 DEF HashFails, StructuralFile, SemanticFile, local
<1> QED
  BY <1>1, <1>2, <1>3, <1>4, <1>5, <1>6, <1>7, <1>8 DEF Validate

\* No step of a run touches a blueprint file.
LEMMA ValidateLeavesFiles == ASSUME NEW r \in Run, Validate(r) PROVE UNCHANGED files
BY DEF Validate, LoadCache, EndTriage, EndStructural, EndSemantic, SaveBegin, SaveEnd,
       GlobalPhase, Return, StatFile, HashFile, HashFails, StructuralFile, SemanticFile,
       RestatFile, RehashFile

LEMMA ValidateTypeOK == ASSUME TypeOK, NEW r \in Run, Validate(r) PROVE TypeOK'
<1>1. StampsCounted'
  BY ValidateLeavesFiles DEF TypeOK, StampsCounted, files
<1> QED
  BY <1>1, ValidateShapes, ValidateOptions, ValidateStats DEF TypeOK

LEMMA EnvironmentTypeOK ==
    ASSUME TypeOK
    PROVE  /\ \A r \in Run : Timeout(r) \/ Kill(r) => TypeOK'
           /\ \A f \in File, t \in Text \union {None} : Edit(f, t) => TypeOK'
           /\ \A m \in Member, s \in Standing : EditProject(m, s) => TypeOK'
<1>1. ASSUME NEW r \in Run, Timeout(r) PROVE TypeOK'
  <2>1. Shapes'
    BY <1>1 DEF Timeout, TypeOK, Shapes, files, local
  <2>2. StampsCounted' /\ OptionsKnown' /\ StatsBlank' /\ StatsCompared'
    BY <1>1 DEF Timeout, TypeOK, files, local, StampsCounted, OptionsKnown, StatsBlank, StatsCompared
  <2> QED
    BY <2>1, <2>2 DEF TypeOK
<1>2. ASSUME NEW r \in Run, Kill(r) PROVE TypeOK'
  <2>1. kills' \in 0 .. MaxKills
    BY <1>2, ConstantsAssumption DEF Kill, TypeOK, Shapes
  <2> QED
    BY <1>2, <2>1, ForgetTypes DEF Kill
<1>3. ASSUME NEW f \in File, NEW t \in Text \union {None}, Edit(f, t) PROVE TypeOK'
  <2>1. edits' \in 0 .. MaxEdits /\ edits' = edits + 1
    BY <1>3, ConstantsAssumption DEF Edit, UserMayAct, TypeOK, Shapes
  <2>2. stamp' \in [File -> 0 .. MaxEdits] /\ StampsCounted'
    BY <1>3, <2>1, ConstantsAssumption DEF Edit, TypeOK, Shapes, StampsCounted
  <2>3. Shapes'
    BY <1>3, <2>1, <2>2 DEF Edit, TypeOK, Shapes, local
  <2>4. OptionsKnown' /\ StatsBlank' /\ StatsCompared'
    BY <1>3 DEF Edit, TypeOK, local, OptionsKnown, StatsBlank, StatsCompared
  <2> QED
    BY <2>2, <2>3, <2>4 DEF TypeOK
<1>4. ASSUME NEW m \in Member, NEW s \in Standing, EditProject(m, s) PROVE TypeOK'
  <2>1. edits' \in 0 .. MaxEdits /\ edits' = edits + 1 /\ edits \in Nat
    BY <1>4, ConstantsAssumption DEF EditProject, UserMayAct, TypeOK, Shapes
  <2>2. stamp' = stamp /\ StampsCounted'
    BY <1>4, <2>1 DEF EditProject, TypeOK, Shapes, StampsCounted
  <2>3. Shapes'
    BY <1>4, <2>1, <2>2 DEF EditProject, TypeOK, Shapes, local
  <2>4. OptionsKnown' /\ StatsBlank' /\ StatsCompared'
    BY <1>4 DEF EditProject, TypeOK, local, OptionsKnown, StatsBlank, StatsCompared
  <2> QED
    BY <2>2, <2>3, <2>4 DEF TypeOK
<1> QED
  BY <1>1, <1>2, <1>3, <1>4

LEMMA StutterTypeOK == ASSUME TypeOK, UNCHANGED vars PROVE TypeOK'
BY DEF TypeOK, Shapes, StampsCounted, OptionsKnown, StatsBlank, StatsCompared,
       vars, files, local

LEMMA NextTypeOK == TypeOK /\ [Next]_vars => TypeOK'
<1> SUFFICES ASSUME TypeOK, [Next]_vars PROVE TypeOK'
  OBVIOUS
<1> QED
  BY StartTypeOK, ValidateTypeOK, EnvironmentTypeOK, StutterTypeOK DEF Next

\* The variables of ValidationPipeline.run keep their shape, whatever the
\* validations, the user and the kills do.
THEOREM TypeCorrect == Spec => []TypeOK
<1>1. Init => TypeOK
  BY InitTypeOK
<1>2. TypeOK /\ [Next]_vars => TypeOK'
  BY NextTypeOK
<1> QED
  BY <1>1, <1>2, PTL DEF Spec

-----------------------------------------------------------------------------
(* StampedHash.  It is inductive with the fact that no entry and no stat that  *)
(* waits for its hash is younger than its file: a change of the file then      *)
(* makes all of them older than it.                                            *)

Current(entry, f) ==
    entry # None => entry.stamp <= stamp[f] /\ HashMatches(entry, f)

StampInv ==
    \A f \in File :
        /\ cache # Unreadable => Current(cache.files[f], f)
        /\ \A r \in Run : Current(base[r][f], f)
        /\ \A r \in Run : seen[r][f] # None => seen[r][f] <= stamp[f]

LEMMA StampInvImplies == StampInv => StampedHash
BY DEF StampInv, StampedHash, Current, HashMatches

LEMMA InitStampInv == Init => StampInv
BY DEF Init, StampInv, Current, NoEntries

\* Steps that leave the files, the cache, the entries and the stats alone.
LEMMA StampFrame ==
    ASSUME StampInv, UNCHANGED <<disk, stamp, cache, base, seen>>
    PROVE  StampInv'
BY DEF StampInv, Current, HashMatches

LEMMA ForgetStampInv ==
    ASSUME TypeOK, StampInv, NEW r \in Run, Forget(r), UNCHANGED <<files, cache>>
    PROVE  StampInv'
<1>1. UNCHANGED <<disk, stamp, cache>>
  BY DEF files
<1>2. \A q \in Run, f \in File :
        /\ base'[q][f] = None \/ base'[q][f] = base[q][f]
        /\ seen'[q][f] = None \/ seen'[q][f] = seen[q][f]
  BY DEF Forget, NoEntries, TypeOK, Shapes
<1> QED
  BY <1>1, <1>2 DEF StampInv, Current, HashMatches

LEMMA ValidateStampInv == ASSUME TypeOK, StampInv, NEW r \in Run, Validate(r) PROVE StampInv'
<1>0. /\ UNCHANGED <<disk, stamp>>
      /\ base \in [Run -> Entries] /\ stamp \in [File -> 0 .. MaxEdits]
      /\ seen \in [Run -> [File -> 0 .. MaxEdits \union {None}]]
  BY ValidateLeavesFiles DEF files, TypeOK, Shapes
<1>1. CASE LoadCache(r)
  <2>1. UNCHANGED <<cache, seen>>
    BY <1>1 DEF LoadCache
  <2>2. \A q \in Run, f \in File :
          \/ base'[q][f] = base[q][f] \/ base'[q][f] = None
          \/ cache # Unreadable /\ base'[q][f] = cache.files[f]
    BY <1>0, <1>1 DEF LoadCache, Usable, NoEntries
  <2> QED
    BY <1>0, <2>1, <2>2 DEF StampInv, Current, HashMatches
<1>2. CASE EndTriage(r) \/ EndStructural(r) \/ EndSemantic(r) \/ GlobalPhase(r)
  BY <1>0, <1>2, StampFrame DEF EndTriage, EndStructural, EndSemantic, GlobalPhase
<1>3. CASE SaveBegin(r)
  BY <1>0, <1>3 DEF SaveBegin, local, StampInv, Current, HashMatches
<1>4. CASE SaveEnd(r)
  <2>1. UNCHANGED <<base, seen>>
    BY <1>4 DEF SaveEnd, local
  <2>2. cache' = cache \/ cache'.files = base[r]
    BY <1>4 DEF SaveEnd
  <2> QED
    BY <1>0, <2>1, <2>2 DEF StampInv, Current, HashMatches
<1>5. CASE Return(r)
  BY <1>5, ForgetStampInv DEF Return
<1>6. ASSUME NEW f \in File, StatFile(r, f) \/ RestatFile(r, f) PROVE StampInv'
  <2>1. UNCHANGED <<cache, base>>
    BY <1>6 DEF StatFile, RestatFile
  <2>2. seen' = seen \/ seen' = [seen EXCEPT ![r][f] = stamp[f]]
    BY <1>6 DEF StatFile, RestatFile
  <2>3. \A q \in Run, g \in File : seen'[q][g] = seen[q][g] \/ seen'[q][g] = stamp[g]
    BY <1>0, <2>2
  <2> QED
    BY <1>0, <2>1, <2>3 DEF StampInv, Current, HashMatches
<1>7. ASSUME NEW f \in File, HashFile(r, f) PROVE StampInv'
  <2>1. UNCHANGED cache /\ seen' = [seen EXCEPT ![r][f] = None]
    BY <1>7 DEF HashFile
  <2>2. base[r][f] \in Entry /\ seen[r][f] \in 0 .. MaxEdits /\ None \notin Entry
    BY <1>0, <1>7, ConstantsAssumption DEF HashFile, TypeOK, StatsCompared, Entries
  <2>3. \/ base' = base
        \/ base[r][f].hash = disk[f] /\ base' = [base EXCEPT ![r][f].stamp = seen[r][f]]
    BY <1>7 DEF HashFile
  <2>4. \/ base'[r][f] = base[r][f]
        \/ base'[r][f].stamp = seen[r][f] /\ base'[r][f].hash = disk[f]
    BY <1>0, <2>2, <2>3 DEF Entries, Entry
  <2>5. \A q \in Run, g \in File : q # r \/ g # f => base'[q][g] = base[q][g]
    BY <1>0, <2>3 DEF Entries
  <2>6. \A q \in Run, g \in File : seen'[q][g] = seen[q][g] \/ seen'[q][g] = None
    BY <1>0, <2>1
  <2>7. Current(base'[r][f], f)
    BY <2>2, <2>4, <1>7 DEF HashFile, StampInv, Current, HashMatches
  <2>8. \A q \in Run, g \in File : Current(base'[q][g], g)
    BY <2>5, <2>7 DEF StampInv
  <2> QED
    BY <1>0, <2>1, <2>6, <2>8 DEF StampInv, Current, HashMatches
<1>8. ASSUME NEW f \in File, RehashFile(r, f) PROVE StampInv'
  <2>1. UNCHANGED cache /\ seen' = [seen EXCEPT ![r][f] = None]
    BY <1>8 DEF RehashFile
  <2>2. base' = [base EXCEPT ![r][f] = NewEntry(r, f)] /\ seen[r][f] # None
    BY <1>8 DEF RehashFile
  <2>3. Current(NewEntry(r, f), f)
    BY <2>2 DEF NewEntry, StampInv, Current, HashMatches
  <2>4. \A q \in Run, g \in File : Current(base'[q][g], g)
    BY <1>0, <2>2, <2>3 DEF StampInv, Entries
  <2>5. \A q \in Run, g \in File : seen'[q][g] = seen[q][g] \/ seen'[q][g] = None
    BY <1>0, <2>1
  <2> QED
    BY <1>0, <2>1, <2>4, <2>5 DEF StampInv, Current, HashMatches
<1>9. ASSUME NEW f \in File, HashFails(r, f) \/ StructuralFile(r, f) \/ SemanticFile(r, f)
      PROVE  StampInv'
  BY <1>0, <1>9, StampFrame DEF HashFails, StructuralFile, SemanticFile, local
<1> QED
  BY <1>1, <1>2, <1>3, <1>4, <1>5, <1>6, <1>7, <1>8, <1>9 DEF Validate

\* A change gives the file a time that no entry and no stat bears.
LEMMA EditStampInv ==
    ASSUME TypeOK, StampInv, NEW f \in File, NEW t \in Text \union {None}, Edit(f, t)
    PROVE  StampInv'
<1>1. UNCHANGED <<cache, base, seen>>
  BY DEF Edit, local
<1>2. /\ stamp'[f] = stamp[f] + 1 /\ stamp[f] \in Nat
      /\ \A g \in File \ {f} : stamp'[g] = stamp[g] /\ disk'[g] = disk[g]
  BY ConstantsAssumption DEF Edit, TypeOK, Shapes
<1>3. ASSUME NEW e \in Entry \union {None}, NEW g \in File, Current(e, g) PROVE Current(e, g)'
  <2>1. None \notin Entry /\ (e # None => e.stamp \in Nat)
    BY ConstantsAssumption DEF Entry
  <2> QED
    BY <1>2, <1>3, <2>1 DEF Current, HashMatches
<1>4. ASSUME cache # Unreadable, NEW g \in File PROVE Current(cache.files[g], g)'
  <2>1. cache.files[g] \in Entry \union {None} /\ Current(cache.files[g], g)
    BY <1>4 DEF TypeOK, Shapes, Cache, Entries, StampInv
  <2> QED
    BY <1>1, <1>2, <2>1, ConstantsAssumption DEF Current, HashMatches, Entry
<1>5. ASSUME NEW q \in Run, NEW g \in File PROVE Current(base[q][g], g)'
  <2>1. base[q][g] \in Entry \union {None} /\ Current(base[q][g], g)
    BY DEF TypeOK, Shapes, Entries, StampInv
  <2> QED
    BY <1>1, <1>2, <2>1, ConstantsAssumption DEF Current, HashMatches, Entry
<1>6. ASSUME NEW q \in Run, NEW g \in File, seen[q][g] # None PROVE seen[q][g] <= stamp'[g]
  <2>1. seen[q][g] \in Nat /\ stamp[g] \in Nat /\ seen[q][g] <= stamp[g]
    BY <1>6 DEF TypeOK, Shapes, StampInv
  <2> QED
    BY <1>2, <2>1
<1> QED
  BY <1>1, <1>4, <1>5, <1>6 DEF StampInv

LEMMA NextStampInv == TypeOK /\ StampInv /\ [Next]_vars => StampInv'
<1> SUFFICES ASSUME TypeOK, StampInv, [Next]_vars PROVE StampInv'
  OBVIOUS
<1>1. ASSUME NEW r \in Run, Start(r) \/ Timeout(r) PROVE StampInv'
  BY <1>1, StampFrame DEF Start, Timeout, files, local
<1>2. ASSUME NEW r \in Run, Kill(r) PROVE StampInv'
  BY <1>2, ForgetStampInv DEF Kill
<1>3. CASE UNCHANGED vars
  BY <1>3, StampFrame DEF vars, files, local
<1>4. ASSUME NEW m \in Member, NEW s \in Standing, EditProject(m, s) PROVE StampInv'
  BY <1>4, StampFrame DEF EditProject, local
<1> QED
  BY <1>1, <1>2, <1>3, <1>4, ValidateStampInv, EditStampInv DEF Next

\* However runs, changes, time-outs and kills interleave, an entry with the
\* present time of its file has the hash of its present text, so that serving
\* it on the time alone (validator/index.ts:161) is serving the same text.
THEOREM StampSafe == Spec => []StampedHash
<1>1. Init => TypeOK /\ StampInv
  BY InitTypeOK, InitStampInv
<1>2. (TypeOK /\ StampInv) /\ [Next]_vars => (TypeOK /\ StampInv)'
  BY NextTypeOK, NextStampInv
<1>3. TypeOK /\ StampInv => StampedHash
  BY StampInvImplies
<1> QED
  BY <1>1, <1>2, <1>3, PTL DEF Spec

-----------------------------------------------------------------------------
(* StructuralTruth, for files that only change while no run is in flight.      *)
(* Every entry tells the truth about the text whose hash it bears, in the mode *)
(* of its cache; and a run's served and new findings, taken together, tell the *)
(* truth about the files it has dealt with.                                    *)

Fault(r, f) == StructuralFault(disk[f], opt[r].entropy)

Right(entry, f, mode) ==
    entry # None =>
        /\ \A e \in entry.errors : e[1] = f
        /\ <<f, "structural">> \in entry.errors <=> StructuralFault(entry.hash, mode)

CacheRight == cache # Unreadable => \A f \in File : Right(cache.files[f], f, cache.mode)

EntriesRight(r) == pc[r] # "idle" => \A f \in File : Right(base[r][f], f, opt[r].entropy)

Blank(r) ==
    pc[r] \in {"idle", "load"} =>
        base[r] = NoEntries /\ served[r] = {} /\ found[r] = {} /\ fresh[r] = {}

\* In the triage: the files still to visit, those to validate, and the served.
Triaged(r) ==
    pc[r] \in {"load", "triage"} =>
        /\ todo[r] \subseteq Listed /\ fresh[r] \subseteq Listed
        /\ todo[r] \cap fresh[r] = {} /\ found[r] = {}
        /\ \A f \in Listed :
              <<f, "structural">> \in served[r] <=> f \notin todo[r] \union fresh[r] /\ Fault(r, f)
        /\ pc[r] = "load" => todo[r] = Listed

\* After it: the files to validate have new findings, the others served ones.
Sorted(r) ==
    pc[r] \in {"structural", "semantic", "update", "save", "global", "done"} =>
        /\ todo[r] \subseteq fresh[r] /\ fresh[r] \subseteq Listed
        /\ \A f \in Listed :
              /\ <<f, "structural">> \in served[r] <=> f \notin fresh[r] /\ Fault(r, f)
              /\ <<f, "structural">> \in found[r] <=>
                   /\ f \in fresh[r] /\ Fault(r, f)
                   /\ ~(pc[r] = "structural" /\ f \in todo[r])

RunRight(r) == EntriesRight(r) /\ Blank(r) /\ Triaged(r) /\ Sorted(r)

QuietInv == CacheRight /\ \A r \in Run : RunRight(r)

LEMMA QuietInvImplies == TypeOK /\ QuietInv => StructuralTruth
<1> SUFFICES ASSUME TypeOK, QuietInv, NEW r \in Run, pc[r] = "done", NEW f \in Listed
             PROVE  <<f, "structural">> \in Report(r) <=> StructuralFault(disk[f], opt[r].entropy)
  BY DEF StructuralTruth
<1> QED
  BY DEF QuietInv, RunRight, Sorted, Fault, Report

LEMMA InitQuietInv == Init => QuietInv
BY DEF Init, QuietInv, CacheRight, RunRight, EntriesRight, Blank, Triaged, Sorted, NoEntries

\* A run's part of the invariant depends on the run's variables and the texts.
LEMMA OthersRight ==
    ASSUME NEW q \in Run, RunRight(q), UNCHANGED disk,
           pc'[q] = pc[q], opt'[q] = opt[q], todo'[q] = todo[q], fresh'[q] = fresh[q],
           base'[q] = base[q], served'[q] = served[q], found'[q] = found[q]
    PROVE  RunRight(q)'
<1>1. Listed' = Listed
  BY DEF Listed
<1>2. EntriesRight(q)' /\ Blank(q)'
  BY DEF RunRight, EntriesRight, Blank, Right, StructuralFault
<1>3. \A f \in File : Fault(q, f)' <=> Fault(q, f)
  BY DEF Fault, StructuralFault
<1>4. Listed \subseteq File
  BY DEF Listed
<1>5. Triaged(q)'
  BY <1>1, <1>3, <1>4 DEF RunRight, Triaged
<1>6. Sorted(q)'
  BY <1>1, <1>3, <1>4 DEF RunRight, Sorted
<1> QED
  BY <1>2, <1>5, <1>6 DEF RunRight

\* A step of one run leaves the variables of the others alone.
LEMMA OwnVariables ==
    ASSUME TypeOK, NEW r \in Run, Start(r) \/ Validate(r) \/ Timeout(r) \/ Kill(r),
           NEW q \in Run, q # r
    PROVE  /\ pc'[q] = pc[q] /\ opt'[q] = opt[q] /\ todo'[q] = todo[q]
           /\ fresh'[q] = fresh[q] /\ base'[q] = base[q] /\ served'[q] = served[q]
           /\ found'[q] = found[q]
<1> DEFINE Same == /\ pc'[q] = pc[q] /\ opt'[q] = opt[q] /\ todo'[q] = todo[q]
                   /\ fresh'[q] = fresh[q] /\ base'[q] = base[q] /\ served'[q] = served[q]
                   /\ found'[q] = found[q]
<1> USE DEF TypeOK, Shapes
<1>1. CASE Start(r)
  BY <1>1 DEF Start
<1>2. CASE Timeout(r)
  BY <1>2 DEF Timeout, local
<1>3. CASE Kill(r) \/ Return(r)
  BY <1>3 DEF Kill, Return, Forget
<1>4. CASE LoadCache(r) \/ EndTriage(r) \/ EndStructural(r) \/ EndSemantic(r) \/ GlobalPhase(r)
  BY <1>4 DEF LoadCache, EndTriage, EndStructural, EndSemantic, GlobalPhase
<1>5. CASE SaveBegin(r) \/ SaveEnd(r)
  BY <1>5 DEF SaveBegin, SaveEnd, local
<1>6. ASSUME NEW f \in File, StatFile(r, f) PROVE Same
  BY <1>6 DEF StatFile, Serve
<1>7. ASSUME NEW f \in File, HashFile(r, f) PROVE Same
  BY <1>7 DEF HashFile, Serve
<1>8. ASSUME NEW f \in File, HashFails(r, f) \/ StructuralFile(r, f) \/ SemanticFile(r, f)
      PROVE  Same
  BY <1>8 DEF HashFails, StructuralFile, SemanticFile, local
<1>9. ASSUME NEW f \in File, RestatFile(r, f) \/ RehashFile(r, f) PROVE Same
  BY <1>9 DEF RestatFile, RehashFile
<1> QED
  BY <1>1, <1>2, <1>3, <1>4, <1>5, <1>6, <1>7, <1>8, <1>9 DEF Validate

LEMMA StartRight ==
    ASSUME TypeOK, NEW r \in Run, RunRight(r), Start(r) PROVE RunRight(r)'
<1>1. /\ UNCHANGED <<disk, base, served, found, fresh>>
      /\ pc[r] = "idle" /\ pc'[r] \in {"load", "failed"} /\ todo'[r] = Listed
  BY DEF Start, TypeOK, Shapes, files
<1>2. base[r] = NoEntries /\ served[r] = {} /\ found[r] = {} /\ fresh[r] = {}
  BY <1>1 DEF RunRight, Blank
<1>3. Listed' = Listed /\ Listed \subseteq File
  BY <1>1 DEF Listed
<1>4. EntriesRight(r)' /\ Blank(r)'
  BY <1>1, <1>2 DEF EntriesRight, Blank, Right, NoEntries
<1>5. Triaged(r)'
  BY <1>1, <1>2, <1>3 DEF Triaged
<1>6. Sorted(r)'
  BY <1>1 DEF Sorted
<1> QED
  BY <1>4, <1>5, <1>6 DEF RunRight

LEMMA LoadCacheRight ==
    ASSUME TypeOK, CacheRight, NEW r \in Run, RunRight(r), LoadCache(r) PROVE RunRight(r)'
<1>1. /\ UNCHANGED <<disk, opt, todo, served, found, fresh>>
      /\ pc[r] = "load" /\ pc'[r] = "triage"
      /\ base'[r] = IF Usable(cache, opt[r].entropy) THEN cache.files ELSE NoEntries
  BY DEF LoadCache, TypeOK, Shapes, files
<1>2. Listed' = Listed
  BY <1>1 DEF Listed
<1>3. EntriesRight(r)'
  BY <1>1 DEF EntriesRight, CacheRight, Usable, Right, StructuralFault, NoEntries
<1>4. Triaged(r)'
  BY <1>1, <1>2 DEF RunRight, Triaged, Fault, StructuralFault
<1> QED
  BY <1>1, <1>3, <1>4 DEF RunRight, Blank, Sorted

LEMMA StatFileRight ==
    ASSUME TypeOK, StampInv, NEW r \in Run, RunRight(r), NEW f \in File, StatFile(r, f)
    PROVE  RunRight(r)'
<1>1. /\ UNCHANGED <<disk, pc, opt, base, found>> /\ pc[r] = "triage" /\ f \in todo[r]
  BY DEF StatFile, files
<1>2. Listed' = Listed /\ f \in Listed /\ disk[f] # None
  BY <1>1 DEF Listed, RunRight, Triaged
<1>3. EntriesRight(r)'
  BY <1>1 DEF RunRight, EntriesRight, Right, StructuralFault
<1>4. \A g \in File : Fault(r, g)' <=> Fault(r, g)
  BY <1>1 DEF Fault, StructuralFault
<1>5. Triaged(r)'
  <2> USE DEF TypeOK, Shapes
  <2>1. CASE /\ fresh' = [fresh EXCEPT ![r] = @ \union {f}]
             /\ todo' = [todo EXCEPT ![r] = @ \ {f}] /\ served' = served
    <3>1. fresh'[r] = fresh[r] \union {f} /\ todo'[r] = todo[r] \ {f}
      BY <2>1
    <3> QED
      BY <1>1, <1>2, <1>4, <2>1, <3>1 DEF RunRight, Triaged, Listed
  <2>2. CASE /\ base[r][f] # None /\ base[r][f].stamp = stamp[f] /\ Serve(r, f)
             /\ todo' = [todo EXCEPT ![r] = @ \ {f}] /\ fresh' = fresh
    <3>1. base[r][f].hash = disk[f]
      BY <1>2, <2>2 DEF StampInv, Current, HashMatches
    <3>2. /\ \A e \in base[r][f].errors : e[1] = f
          /\ <<f, "structural">> \in base[r][f].errors <=> Fault(r, f)
      BY <1>1, <2>2, <3>1 DEF RunRight, EntriesRight, Right, Fault
    <3>3. todo'[r] = todo[r] \ {f} /\ served'[r] = served[r] \union base[r][f].errors
      BY <2>2 DEF Serve
    <3>4. \A g \in Listed : <<g, "structural">> \in served'[r] <=>
            <<g, "structural">> \in served[r] \/ (g = f /\ Fault(r, f))
      <4>1. \A g \in Listed : <<g, "structural">> \in base[r][f].errors <=> g = f /\ Fault(r, f)
        <5>1. \A g : <<g, "structural">>[1] = g
          OBVIOUS
        <5> QED
          BY <3>2, <5>1
      <4> QED
        BY <3>3, <4>1
    <3>5. f \notin fresh[r] /\ \A g \in Listed :
            <<g, "structural">> \in served[r] <=> g \notin todo[r] \union fresh[r] /\ Fault(r, g)
      BY <1>1 DEF RunRight, Triaged
    <3>6. \A g \in Listed : <<g, "structural">> \in served'[r] <=>
            g \notin todo'[r] \union fresh'[r] /\ Fault(r, g)
      BY <1>1, <2>2, <3>3, <3>4, <3>5
    <3>7. /\ todo'[r] \subseteq Listed /\ fresh'[r] \subseteq Listed
          /\ todo'[r] \cap fresh'[r] = {} /\ found'[r] = {}
      BY <1>1, <2>2, <3>3 DEF RunRight, Triaged
    <3> QED
      BY <1>1, <1>2, <1>4, <3>6, <3>7 DEF Triaged, Listed
  <2>3. CASE UNCHANGED <<todo, fresh, served>>
    BY <1>1, <1>2, <1>4, <2>3 DEF RunRight, Triaged, Listed
  <2> QED
    BY <2>1, <2>2, <2>3 DEF StatFile
<1> QED
  BY <1>1, <1>3, <1>5 DEF RunRight, Blank, Sorted

LEMMA HashFileRight ==
    ASSUME TypeOK, NEW r \in Run, RunRight(r), NEW f \in File, HashFile(r, f)
    PROVE  RunRight(r)'
<1>1. /\ UNCHANGED <<disk, pc, opt, found>> /\ pc[r] = "triage" /\ f \in todo[r]
      /\ todo'[r] = todo[r] \ {f} /\ disk[f] # None
  BY DEF HashFile, files, TypeOK, Shapes
<1>2. Listed' = Listed /\ f \in Listed
  BY <1>1 DEF Listed
<1>3. /\ base[r][f] \in Entry /\ None \notin Entry /\ base \in [Run -> Entries]
      /\ served \in [Run -> SUBSET Finding] /\ fresh \in [Run -> SUBSET File]
  BY <1>1, ConstantsAssumption DEF HashFile, TypeOK, Shapes, StatsCompared, Entries
<1>4. \A g \in File : Fault(r, g)' <=> Fault(r, g)
  BY <1>1 DEF Fault, StructuralFault
<1>5. EntriesRight(r)'
  <2>1. base' = base \/ base' = [base EXCEPT ![r][f].stamp = seen[r][f]]
    BY DEF HashFile
  <2>2. \A g \in File : base'[r][g] = None \/
          (base[r][g] # None /\ base'[r][g].hash = base[r][g].hash /\ base'[r][g].errors = base[r][g].errors)
    BY <1>3, <2>1 DEF Entries, Entry
  <2> QED
    BY <1>1, <2>2 DEF RunRight, EntriesRight, Right, StructuralFault
<1>6. Triaged(r)'
  <2>1. CASE base[r][f].hash = disk[f] /\ Serve(r, f) /\ UNCHANGED fresh
    <3>1. /\ \A e \in base[r][f].errors : e[1] = f
          /\ <<f, "structural">> \in base[r][f].errors <=> Fault(r, f)
      BY <1>1, <1>3, <2>1 DEF RunRight, EntriesRight, Right, Fault
    <3>2. served'[r] = served[r] \union base[r][f].errors
      BY <1>3, <2>1 DEF Serve
    <3>3. \A g \in Listed : <<g, "structural">> \in served'[r] <=>
            <<g, "structural">> \in served[r] \/ (g = f /\ Fault(r, f))
      <4>1. \A g \in Listed : <<g, "structural">> \in base[r][f].errors <=> g = f /\ Fault(r, f)
        <5>1. \A g : <<g, "structural">>[1] = g
          OBVIOUS
        <5> QED
          BY <3>1, <5>1
      <4> QED
        BY <3>2, <4>1
    <3>4. f \notin fresh[r] /\ \A g \in Listed :
            <<g, "structural">> \in served[r] <=> g \notin todo[r] \union fresh[r] /\ Fault(r, g)
      BY <1>1 DEF RunRight, Triaged
    <3>5. \A g \in Listed : <<g, "structural">> \in served'[r] <=>
            g \notin todo'[r] \union fresh'[r] /\ Fault(r, g)
      BY <1>1, <2>1, <3>3, <3>4
    <3>6. /\ todo'[r] \subseteq Listed /\ fresh'[r] \subseteq Listed
          /\ todo'[r] \cap fresh'[r] = {} /\ found'[r] = {}
      BY <1>1, <2>1 DEF RunRight, Triaged
    <3> QED
      BY <1>1, <1>2, <1>4, <3>5, <3>6 DEF Triaged, Listed
  <2>2. CASE fresh' = [fresh EXCEPT ![r] = @ \union {f}] /\ UNCHANGED served
    <3>1. fresh'[r] = fresh[r] \union {f}
      BY <2>2 DEF TypeOK, Shapes
    <3> QED
      BY <1>1, <1>2, <1>4, <2>2, <3>1 DEF RunRight, Triaged, Listed
  <2> QED
    BY <2>1, <2>2 DEF HashFile
<1> QED
  BY <1>1, <1>5, <1>6 DEF RunRight, Blank, Sorted

\* The steps between the loops, which visit no file.
LEMMA PhaseRight ==
    ASSUME TypeOK, NEW r \in Run, RunRight(r),
           EndTriage(r) \/ EndStructural(r) \/ EndSemantic(r) \/ SaveBegin(r)
             \/ SaveEnd(r) \/ GlobalPhase(r)
    PROVE  RunRight(r)'
<1>1. UNCHANGED <<disk, opt, fresh, base, served, found>>
  BY DEF EndTriage, EndStructural, EndSemantic, SaveBegin, SaveEnd, GlobalPhase, files, local
<1>2. Listed' = Listed /\ \A f \in File : Fault(r, f)' <=> Fault(r, f)
  BY <1>1 DEF Listed, Fault, StructuralFault
<1>3. \/ pc[r] = "triage" /\ pc'[r] = "structural" /\ todo[r] = {} /\ todo'[r] = fresh[r]
      \/ /\ pc[r] = "structural" /\ pc'[r] \in {"semantic", "update"} /\ todo[r] = {}
         /\ todo'[r] = fresh[r]
      \/ pc[r] = "semantic" /\ pc'[r] = "update" /\ todo'[r] = fresh[r]
      \/ pc[r] = "update" /\ pc'[r] = "save" /\ todo'[r] = todo[r]
      \/ pc[r] = "save" /\ pc'[r] = "global" /\ todo'[r] = todo[r]
      \/ pc[r] = "global" /\ pc'[r] = "done" /\ todo'[r] = todo[r]
  BY DEF EndTriage, EndStructural, EndSemantic, SaveBegin, SaveEnd, GlobalPhase, local,
         TypeOK, Shapes
<1>4. EntriesRight(r)'
  BY <1>1, <1>3 DEF RunRight, EntriesRight, Right, StructuralFault
<1>5. Listed \subseteq File
  BY DEF Listed
<1>6. Sorted(r)'
  <2>1. CASE pc[r] = "triage"
    BY <1>1, <1>2, <1>3, <1>5, <2>1 DEF RunRight, Triaged, Sorted
  <2>2. CASE pc[r] # "triage"
    BY <1>1, <1>2, <1>3, <1>5, <2>2 DEF RunRight, Sorted
  <2> QED
    BY <2>1, <2>2
<1> QED
  BY <1>3, <1>4, <1>6 DEF RunRight, Blank, Triaged

LEMMA StructuralFileRight ==
    ASSUME TypeOK, NEW r \in Run, RunRight(r), NEW f \in File, StructuralFile(r, f)
    PROVE  RunRight(r)'
<1>1. /\ UNCHANGED <<disk, pc, opt, fresh, base, served>> /\ pc[r] = "structural"
      /\ f \in todo[r] /\ todo'[r] = todo[r] \ {f}
      /\ found'[r] = IF Fault(r, f) THEN found[r] \union {<<f, "structural">>} ELSE found[r]
  BY DEF StructuralFile, files, TypeOK, Shapes, Fault
<1>2. Listed' = Listed /\ (\A g \in File : Fault(r, g)' <=> Fault(r, g)) /\ Listed \subseteq File
  BY <1>1 DEF Listed, Fault, StructuralFault
<1>3. EntriesRight(r)'
  BY <1>1 DEF RunRight, EntriesRight, Right, StructuralFault
<1>4. \A g \in Listed : <<g, "structural">> \in found'[r] <=>
        <<g, "structural">> \in found[r] \/ (g = f /\ Fault(r, f))
  BY <1>1
<1>5. Sorted(r)'
  BY <1>1, <1>2, <1>4 DEF RunRight, Sorted
<1> QED
  BY <1>1, <1>3, <1>5 DEF RunRight, Blank, Triaged

\* Semantic findings and stats say nothing of structural ones.
LEMMA OtherFileRight ==
    ASSUME TypeOK, NEW r \in Run, RunRight(r), NEW f \in File,
           SemanticFile(r, f) \/ RestatFile(r, f)
    PROVE  RunRight(r)'
<1>1. /\ UNCHANGED <<disk, pc, opt, fresh, base, served>> /\ pc[r] \in {"semantic", "update"}
      /\ todo'[r] \subseteq todo[r]
      /\ found'[r] = found[r] \/ found'[r] = found[r] \union {<<f, "semantic">>}
  BY DEF SemanticFile, RestatFile, files, TypeOK, Shapes
<1>2. Listed' = Listed /\ (\A g \in File : Fault(r, g)' <=> Fault(r, g)) /\ Listed \subseteq File
  BY <1>1 DEF Listed, Fault, StructuralFault
<1>3. EntriesRight(r)'
  BY <1>1 DEF RunRight, EntriesRight, Right, StructuralFault
<1>4. \A g \in Listed : <<g, "structural">> \in found'[r] <=> <<g, "structural">> \in found[r]
  BY <1>1
<1>5. Sorted(r)'
  BY <1>1, <1>2, <1>4 DEF RunRight, Sorted
<1> QED
  BY <1>1, <1>3, <1>5 DEF RunRight, Blank, Triaged

LEMMA RehashFileRight ==
    ASSUME TypeOK, NEW r \in Run, RunRight(r), NEW f \in File, RehashFile(r, f)
    PROVE  RunRight(r)'
<1>1. /\ UNCHANGED <<disk, pc, opt, fresh, served, found>> /\ pc[r] = "update"
      /\ f \in todo[r] /\ todo'[r] = todo[r] \ {f}
      /\ base'[r] = [base[r] EXCEPT ![f] = NewEntry(r, f)]
  BY DEF RehashFile, files, TypeOK, Shapes
<1>2. Listed' = Listed /\ (\A g \in File : Fault(r, g)' <=> Fault(r, g)) /\ Listed \subseteq File
  BY <1>1 DEF Listed, Fault, StructuralFault
<1>3. f \in fresh[r] /\ f \in Listed
  BY <1>1 DEF RunRight, Sorted
<1>4. <<f, "structural">> \in found[r] <=> Fault(r, f)
  BY <1>1, <1>3 DEF RunRight, Sorted
<1>5. Right(NewEntry(r, f), f, opt[r].entropy)
  BY <1>4 DEF Right, NewEntry, Fault
<1>6. \A g \in File : base'[r][g] = IF g = f THEN NewEntry(r, f) ELSE base[r][g]
  BY <1>1 DEF TypeOK, Shapes, Entries
<1>7. \A g \in File : Right(base'[r][g], g, opt[r].entropy)
  BY <1>1, <1>5, <1>6 DEF RunRight, EntriesRight
<1>8. EntriesRight(r)'
  BY <1>1, <1>7 DEF EntriesRight, Right, StructuralFault
<1>9. Sorted(r)'
  BY <1>1, <1>2 DEF RunRight, Sorted
<1> QED
  BY <1>1, <1>8, <1>9 DEF RunRight, Blank, Triaged

\* The steps that end a run, and the timer, which only speaks to the caller.
LEMMA EndRight ==
    ASSUME TypeOK, NEW r \in Run, RunRight(r),
           Return(r) \/ Kill(r) \/ Timeout(r) \/ \E f \in File : HashFails(r, f)
    PROVE  RunRight(r)'
<1>1. UNCHANGED disk
  BY DEF Return, Kill, Timeout, HashFails, files
<1>2. CASE Return(r) \/ Kill(r)
  <2>1. /\ pc'[r] = "idle" /\ base'[r] = NoEntries /\ served'[r] = {} /\ found'[r] = {}
        /\ fresh'[r] = {}
    BY <1>2 DEF Return, Kill, Forget, TypeOK, Shapes
  <2> QED
    BY <2>1 DEF RunRight, EntriesRight, Blank, Triaged, Sorted, NoEntries
<1>3. CASE Timeout(r)
  BY <1>1, <1>3, OthersRight DEF Timeout, local
<1>4. CASE \E f \in File : HashFails(r, f)
  <2>1. UNCHANGED <<opt, base>> /\ pc[r] # "idle" /\ pc'[r] = "failed"
    BY <1>4 DEF HashFails, local, TypeOK, Shapes
  <2> QED
    BY <2>1 DEF RunRight, EntriesRight, Blank, Triaged, Sorted, Right, StructuralFault
<1> QED
  BY <1>2, <1>3, <1>4

LEMMA StepRight ==
    ASSUME TypeOK, StampInv, QuietInv, NEW r \in Run,
           Start(r) \/ Validate(r) \/ Timeout(r) \/ Kill(r)
    PROVE  \A q \in Run : RunRight(q)'
<1>1. RunRight(r) /\ CacheRight
  BY DEF QuietInv
<1>2. RunRight(r)'
  BY <1>1, StartRight, LoadCacheRight, StatFileRight, HashFileRight, PhaseRight,
     StructuralFileRight, OtherFileRight, RehashFileRight, EndRight DEF Validate
<1>3. UNCHANGED disk
  BY ValidateLeavesFiles DEF Start, Timeout, Kill, files
<1>4. ASSUME NEW q \in Run, q # r PROVE RunRight(q)'
  BY <1>3, <1>4, OwnVariables, OthersRight DEF QuietInv
<1> QED
  BY <1>2, <1>4

LEMMA StepCacheRight ==
    ASSUME TypeOK, QuietInv, NEW r \in Run,
           Start(r) \/ Validate(r) \/ Timeout(r) \/ Kill(r)
    PROVE  CacheRight'
<1>1. \/ cache' = cache \/ cache' = Unreadable
      \/ pc[r] = "save" /\ cache' = [mode |-> opt[r].entropy, files |-> base[r]]
  BY DEF Start, Timeout, Kill, Validate, LoadCache, EndTriage, EndStructural, EndSemantic,
         SaveBegin, SaveEnd, GlobalPhase, Return, StatFile, HashFile, HashFails,
         StructuralFile, SemanticFile, RestatFile, RehashFile
<1>2. pc[r] = "save" => \A f \in File : Right(base[r][f], f, opt[r].entropy)
  BY DEF QuietInv, RunRight, EntriesRight
<1> QED
  BY <1>1, <1>2 DEF QuietInv, CacheRight, Right, StructuralFault

LEMMA EditQuietInv ==
    ASSUME ~Interleave, QuietInv, NEW f \in File, NEW t \in Text \union {None}, Edit(f, t)
    PROVE  QuietInv'
<1>1. UNCHANGED <<cache, pc, opt, todo, fresh, base, served, found>>
      /\ \A r \in Run : pc[r] = "idle"
  BY DEF Edit, UserMayAct, local
<1>2. CacheRight'
  BY <1>1 DEF QuietInv, CacheRight, Right, StructuralFault
<1>3. \A r \in Run : RunRight(r)'
  BY <1>1 DEF QuietInv, RunRight, EntriesRight, Blank, Triaged, Sorted
<1> QED
  BY <1>2, <1>3 DEF QuietInv

LEMMA NextQuietInv ==
    ASSUME ~Interleave
    PROVE  TypeOK /\ StampInv /\ QuietInv /\ [Next]_vars => QuietInv'
<1> SUFFICES ASSUME TypeOK, StampInv, QuietInv, [Next]_vars PROVE QuietInv'
  OBVIOUS
<1>1. ASSUME NEW r \in Run, Start(r) \/ Validate(r) \/ Timeout(r) \/ Kill(r) PROVE QuietInv'
  BY <1>1, StepRight, StepCacheRight DEF QuietInv
<1>2. CASE UNCHANGED vars
  <2>1. UNCHANGED <<disk, cache, pc, opt, todo, fresh, base, served, found>>
    BY <1>2 DEF vars, files, local
  <2>2. CacheRight'
    BY <2>1 DEF QuietInv, CacheRight, Right, StructuralFault
  <2> QED
    BY <2>1, <2>2, OthersRight DEF QuietInv
<1>3. ASSUME NEW m \in Member, NEW s \in Standing, EditProject(m, s) PROVE QuietInv'
  <2>1. UNCHANGED <<disk, cache, pc, opt, todo, fresh, base, served, found>>
    BY <1>3 DEF EditProject, local
  <2>2. CacheRight'
    BY <2>1 DEF QuietInv, CacheRight, Right, StructuralFault
  <2> QED
    BY <2>1, <2>2, OthersRight DEF QuietInv
<1> QED
  BY <1>1, <1>2, <1>3, EditQuietInv DEF Next

\* With files that change only between validations, every run reports exactly
\* the structural findings of the files in its own scan mode, whatever other
\* runs, of either mode, do to the cache and wherever they are killed.
THEOREM StructuralSafe ==
    ASSUME ~Interleave
    PROVE  Spec => []StructuralTruth
<1>1. Init => TypeOK /\ StampInv /\ QuietInv
  BY InitTypeOK, InitStampInv, InitQuietInv
<1>2. (TypeOK /\ StampInv /\ QuietInv) /\ [Next]_vars => (TypeOK /\ StampInv /\ QuietInv)'
  BY NextTypeOK, NextStampInv, NextQuietInv
<1>3. TypeOK /\ StampInv /\ QuietInv => StructuralTruth
  BY QuietInvImplies
<1> QED
  BY <1>1, <1>2, <1>3, PTL DEF Spec

-----------------------------------------------------------------------------
(* SemanticTruth, in the same setting.  A finding in an entry is about the text *)
(* whose hash the entry bears, or about the files which that text names; what a *)
(* run finds itself is exactly what is there, if it looks.                      *)

\* A text that may have a semantic finding.
Suspect(text) == text \in Vague \/ DependsOnOthers(text)

Suspicious(entry, f) ==
    entry # None /\ <<f, "semantic">> \in entry.errors => Suspect(entry.hash)

CacheSuspicious == cache # Unreadable => \A f \in File : Suspicious(cache.files[f], f)

ServedSuspects(r) ==
    pc[r] \notin {"idle", "failed"} => \A f \in File :
        <<f, "semantic">> \in served[r] => f \notin todo[r] \union fresh[r] /\ Suspect(disk[f])

\* No structural finding is new.
Clean(r) == \A f \in File : <<f, "structural">> \notin found[r]

\* The semantic level has looked at f.
Looked(r, f) ==
    \/ pc[r] = "semantic" /\ f \notin todo[r]
    \/ /\ pc[r] \in {"update", "save", "global", "done"}
       /\ SemanticEnabled(opt[r].level) /\ Clean(r)

FoundFaults(r) ==
    /\ pc[r] = "semantic" => SemanticEnabled(opt[r].level) /\ Clean(r)
    /\ pc[r] \in {"structural", "semantic", "update", "save", "global", "done"} =>
           \A f \in File : <<f, "semantic">> \in found[r] <=>
                               f \in fresh[r] /\ SemanticFault(disk[f]) /\ Looked(r, f)

Semantic(r) ==
    /\ pc[r] # "idle" => \A f \in File : Suspicious(base[r][f], f)
    /\ ServedSuspects(r)
    /\ FoundFaults(r)

SemanticInv == CacheSuspicious /\ \A r \in Run : Semantic(r)

LEMMA SemanticInvImplies == TypeOK /\ QuietInv /\ SemanticInv => SemanticTruth
<1> SUFFICES ASSUME TypeOK, QuietInv, SemanticInv, NEW r \in Run, pc[r] = "done"
             PROVE  /\ \A f \in Listed : <<f, "semantic">> \in Report(r) =>
                          SemanticFault(disk[f]) \/ (f \notin fresh[r] /\ DependsOnOthers(disk[f]))
                    /\ /\ SemanticEnabled(opt[r].level)
                       /\ \A f \in File : <<f, "structural">> \notin Report(r)
                       => \A f \in Listed \cap fresh[r] :
                              SemanticFault(disk[f]) => <<f, "semantic">> \in Report(r)
  BY DEF SemanticTruth
<1>1. Listed \subseteq File /\ \A f \in Listed : disk[f] # None
  BY DEF Listed
<1>2. \A f \in Listed : <<f, "semantic">> \in served[r] =>
          f \notin fresh[r] /\ Suspect(disk[f])
  BY <1>1 DEF SemanticInv, Semantic, ServedSuspects
<1>3. \A f \in Listed : Suspect(disk[f]) => SemanticFault(disk[f]) \/ DependsOnOthers(disk[f])
  BY <1>1 DEF Suspect, SemanticFault
<1>4. \A f \in File : <<f, "semantic">> \in found[r] <=>
          (/\ f \in fresh[r] /\ SemanticFault(disk[f])
           /\ SemanticEnabled(opt[r].level) /\ Clean(r))
  BY DEF SemanticInv, Semantic, FoundFaults, Looked
<1>5. (\A f \in File : <<f, "structural">> \notin Report(r)) => Clean(r)
  BY DEF Report, Clean
<1>6. \A f : <<f, "semantic">> \in Report(r) <=>
                <<f, "semantic">> \in served[r] \/ <<f, "semantic">> \in found[r]
  BY DEF Report
<1> QED
  BY <1>1, <1>2, <1>3, <1>4, <1>5, <1>6

LEMMA InitSemanticInv == Init => SemanticInv
BY DEF Init, SemanticInv, CacheSuspicious, Semantic, ServedSuspects, FoundFaults, Suspicious,
       NoEntries

\* It depends on the same variables as the structural part.
LEMMA OthersSemantic ==
    ASSUME NEW q \in Run, Semantic(q), UNCHANGED <<disk, project>>,
           pc'[q] = pc[q], opt'[q] = opt[q], todo'[q] = todo[q], fresh'[q] = fresh[q],
           base'[q] = base[q], served'[q] = served[q], found'[q] = found[q]
    PROVE  Semantic(q)'
<1>1. \A f \in File : SemanticFault(disk[f])' <=> SemanticFault(disk[f])
  BY DEF SemanticFault, ScopeFault
<1>2. \A f \in File : Looked(q, f)' <=> Looked(q, f)
  BY DEF Looked, Clean
<1>3. FoundFaults(q)'
  BY <1>1, <1>2 DEF Semantic, FoundFaults, Clean
<1>4. ServedSuspects(q)'
  BY DEF Semantic, ServedSuspects
<1> QED
  BY <1>3, <1>4 DEF Semantic, Suspicious

LEMMA BeginSemantic ==
    ASSUME TypeOK, CacheSuspicious, NEW r \in Run, RunRight(r), Semantic(r),
           Start(r) \/ LoadCache(r)
    PROVE  Semantic(r)'
<1>1. CASE Start(r)
  <2>1. /\ UNCHANGED <<base, served>> /\ pc[r] = "idle" /\ pc'[r] \in {"load", "failed"}
    BY <1>1 DEF Start, TypeOK, Shapes
  <2>2. base[r] = NoEntries /\ served[r] = {}
    BY <2>1 DEF RunRight, Blank
  <2> QED
    BY <2>1, <2>2 DEF Semantic, ServedSuspects, FoundFaults, Suspicious, NoEntries
<1>2. CASE LoadCache(r)
  <2>1. /\ UNCHANGED served /\ pc[r] = "load" /\ pc'[r] = "triage"
        /\ base'[r] = IF Usable(cache, opt[r].entropy) THEN cache.files ELSE NoEntries
    BY <1>2 DEF LoadCache, TypeOK, Shapes
  <2>2. served[r] = {}
    BY <2>1 DEF RunRight, Blank
  <2>3. \A f \in File : Suspicious(base'[r][f], f)
    BY <2>1 DEF CacheSuspicious, Usable, Suspicious, NoEntries
  <2> QED
    BY <2>1, <2>2, <2>3 DEF Semantic, ServedSuspects, FoundFaults, Suspicious
<1> QED
  BY <1>1, <1>2

\* What is served of an entry with the hash of the present text.
LEMMA ServeSemantic ==
    ASSUME TypeOK, NEW r \in Run, RunRight(r), Semantic(r), pc[r] = "triage",
           NEW f \in todo[r], base[r][f] # None, base[r][f].hash = disk[f],
           UNCHANGED <<disk, pc, fresh>>, Serve(r, f), todo' = [todo EXCEPT ![r] = @ \ {f}]
    PROVE  ServedSuspects(r)'
<1>1. /\ f \in File /\ f \notin fresh[r] /\ todo'[r] = todo[r] \ {f}
      /\ served'[r] = served[r] \union base[r][f].errors
  BY DEF TypeOK, Shapes, RunRight, Triaged, Serve, Listed
<1>2. \A e \in base[r][f].errors : e[1] = f
  BY <1>1 DEF RunRight, EntriesRight, Right
<1>3. \A g : <<g, "semantic">> \in base[r][f].errors => g = f /\ Suspect(disk[f])
  <2>1. \A g : <<g, "semantic">>[1] = g
    OBVIOUS
  <2>2. Suspicious(base[r][f], f)
    BY <1>1 DEF Semantic
  <2> QED
    BY <1>2, <2>1, <2>2 DEF Suspicious
<1> QED
  BY <1>1, <1>3 DEF Semantic, ServedSuspects

LEMMA TriageSemantic ==
    ASSUME TypeOK, StampInv, NEW r \in Run, RunRight(r), Semantic(r), NEW f \in File,
           StatFile(r, f) \/ HashFile(r, f)
    PROVE  Semantic(r)'
<1>1. /\ UNCHANGED <<disk, pc, found>> /\ pc[r] = "triage" /\ f \in todo[r] /\ disk[f] # None
  BY DEF StatFile, HashFile, files, RunRight, Triaged, Listed
<1>2. FoundFaults(r)'
  BY <1>1 DEF FoundFaults
<1>3. \A g \in File : Suspicious(base[r][g], g)
  BY <1>1 DEF Semantic
<1>4. \A g \in File : Suspicious(base'[r][g], g)
  <2>1. CASE UNCHANGED base
    BY <1>3, <2>1
  <2>2. CASE HashFile(r, f) /\ base' = [base EXCEPT ![r][f].stamp = seen[r][f]]
    <3>1. /\ base[r][f] \in Entry /\ base \in [Run -> Entries]
      BY <2>2, ConstantsAssumption DEF HashFile, TypeOK, Shapes, StatsCompared, Entries
    <3>2. \A g \in File : base'[r][g] = base[r][g] \/
            /\ base[r][g] # None /\ base'[r][g].hash = base[r][g].hash
            /\ base'[r][g].errors = base[r][g].errors
      BY <2>2, <3>1, ConstantsAssumption DEF Entries, Entry
    <3> QED
      BY <1>3, <3>2 DEF Suspicious
  <2> QED
    BY <2>1, <2>2 DEF StatFile, HashFile
<1>5. ServedSuspects(r)'
  <2>1. ASSUME base[r][f] # None, base[r][f].hash = disk[f], Serve(r, f),
               todo' = [todo EXCEPT ![r] = @ \ {f}], UNCHANGED fresh
        PROVE  ServedSuspects(r)'
    BY <1>1, <2>1, ServeSemantic
  <2>2. CASE UNCHANGED served /\ (UNCHANGED <<todo, fresh>> \/
                /\ todo' = [todo EXCEPT ![r] = @ \ {f}]
                /\ fresh' = [fresh EXCEPT ![r] = @ \union {f}])
    BY <1>1, <2>2 DEF Semantic, ServedSuspects, TypeOK, Shapes
  <2>3. CASE StatFile(r, f)
    <3>1. base[r][f] # None /\ base[r][f].stamp = stamp[f] => base[r][f].hash = disk[f]
      BY <1>1 DEF StampInv, Current, HashMatches
    <3> QED
      BY <2>1, <2>2, <2>3, <3>1 DEF StatFile
  <2>4. CASE HashFile(r, f)
    <3>1. base[r][f] # None
      BY <2>4 DEF HashFile, TypeOK, StatsCompared
    <3> QED
      BY <2>1, <2>2, <2>4, <3>1 DEF HashFile
  <2> QED
    BY <2>3, <2>4
<1> QED
  BY <1>1, <1>2, <1>4, <1>5 DEF Semantic, Suspicious

\* Between the loops: the level runs only if nothing structural was found, and
\* structural findings are all there is before it.
LEMMA PhaseSemantic ==
    ASSUME TypeOK, NEW r \in Run, RunRight(r), Semantic(r),
           EndTriage(r) \/ EndStructural(r) \/ EndSemantic(r) \/ SaveBegin(r)
             \/ SaveEnd(r) \/ GlobalPhase(r)
    PROVE  Semantic(r)'
<1>1. UNCHANGED <<disk, project, opt, fresh, base, served, found>>
  BY DEF EndTriage, EndStructural, EndSemantic, SaveBegin, SaveEnd, GlobalPhase, files, local
<1>2. \/ pc[r] = "triage" /\ pc'[r] = "structural" /\ todo'[r] = fresh[r]
      \/ /\ pc[r] = "structural" /\ todo'[r] = fresh[r]
         /\ pc'[r] = IF SemanticEnabled(opt[r].level) /\ found[r] = {}
                        THEN "semantic" ELSE "update"
      \/ pc[r] = "semantic" /\ pc'[r] = "update" /\ todo[r] = {} /\ todo'[r] = fresh[r]
      \/ pc[r] = "update" /\ pc'[r] = "save" /\ todo'[r] = todo[r]
      \/ pc[r] = "save" /\ pc'[r] = "global" /\ todo'[r] = todo[r]
      \/ pc[r] = "global" /\ pc'[r] = "done" /\ todo'[r] = todo[r]
  BY DEF EndTriage, EndStructural, EndSemantic, SaveBegin, SaveEnd, GlobalPhase, local,
         TypeOK, Shapes
<1>3. \A f \in File : SemanticFault(disk[f])' <=> SemanticFault(disk[f])
  BY <1>1 DEF SemanticFault, ScopeFault
<1>4. ServedSuspects(r)'
  BY <1>1, <1>2 DEF Semantic, ServedSuspects
<1>5. FoundFaults(r)'
  <2>1. CASE pc[r] = "triage"
    <3>1. found[r] = {} /\ pc'[r] = "structural"
      BY <1>2, <2>1 DEF RunRight, Triaged
    <3> QED
      BY <1>1, <3>1 DEF FoundFaults, Looked
  <2>2. CASE pc[r] = "structural"
    <3>1. \A f \in File : <<f, "semantic">> \notin found[r]
      BY <2>2 DEF Semantic, FoundFaults, Looked
    <3>2. found[r] \subseteq Finding
      BY DEF TypeOK, Shapes
    <3>3. Clean(r) <=> found[r] = {}
      BY <3>1, <3>2 DEF Clean, Finding
    <3>4. Clean(r)' <=> Clean(r)
      BY <1>1 DEF Clean
    <3>5. \A f \in File : ~Looked(r, f)' \/ f \notin fresh[r]
      BY <1>1, <1>2, <2>2, <3>3, <3>4 DEF Looked
    <3> QED
      BY <1>1, <1>2, <2>2, <3>1, <3>3, <3>4, <3>5 DEF FoundFaults
  <2>3. CASE pc[r] = "semantic"
    <3>1. SemanticEnabled(opt[r].level) /\ Clean(r)
      BY <2>3 DEF Semantic, FoundFaults
    <3>2. \A f \in File : <<f, "semantic">> \in found[r] <=> f \in fresh[r] /\ SemanticFault(disk[f])
      BY <1>2, <2>3 DEF Semantic, FoundFaults, Looked
    <3>3. pc'[r] = "update" /\ \A f \in File : Looked(r, f)'
      BY <1>1, <1>2, <2>3, <3>1 DEF Looked, Clean
    <3> QED
      BY <1>1, <1>3, <3>2, <3>3 DEF FoundFaults
  <2>4. CASE pc[r] \in {"update", "save", "global"}
    <3>1. pc'[r] \in {"save", "global", "done"}
      BY <1>2, <2>4
    <3>2. \A f \in File : Looked(r, f)' <=> Looked(r, f)
      BY <1>1, <2>4, <3>1 DEF Looked, Clean
    <3> QED
      BY <1>1, <1>3, <2>4, <3>1, <3>2 DEF Semantic, FoundFaults
  <2> QED
    BY <1>2, <2>1, <2>2, <2>3, <2>4
<1> QED
  BY <1>1, <1>2, <1>4, <1>5 DEF Semantic, Suspicious

\* The levels, file by file.
LEMMA LevelSemantic ==
    ASSUME TypeOK, NEW r \in Run, RunRight(r), Semantic(r), NEW f \in File,
           StructuralFile(r, f) \/ SemanticFile(r, f)
    PROVE  Semantic(r)'
<1>1. /\ UNCHANGED <<disk, project, pc, opt, fresh, base, served>> /\ f \in todo[r]
      /\ todo'[r] = todo[r] \ {f} /\ f \in fresh[r]
  BY DEF StructuralFile, SemanticFile, files, TypeOK, Shapes, RunRight, Sorted
<1>2. \A g \in File : SemanticFault(disk[g])' <=> SemanticFault(disk[g])
  BY <1>1 DEF SemanticFault, ScopeFault
<1>3. ServedSuspects(r)'
  BY <1>1 DEF Semantic, ServedSuspects
<1>4. FoundFaults(r)'
  <2>1. CASE StructuralFile(r, f)
    <3>1. /\ pc[r] = "structural"
          /\ found'[r] = found[r] \/ found'[r] = found[r] \union {<<f, "structural">>}
      BY <2>1 DEF StructuralFile, TypeOK, Shapes
    <3>2. \A g \in File : <<g, "semantic">> \in found'[r] <=> <<g, "semantic">> \in found[r]
      BY <3>1
    <3> QED
      BY <1>1, <3>1, <3>2 DEF Semantic, FoundFaults, Looked
  <2>2. CASE SemanticFile(r, f)
    <3>1. /\ pc[r] = "semantic"
          /\ found'[r] = IF SemanticFault(disk[f]) THEN found[r] \union {<<f, "semantic">>}
                                                  ELSE found[r]
      BY <2>2 DEF SemanticFile, TypeOK, Shapes
    <3>2. \A g \in File :
             /\ <<g, "semantic">> \in found'[r] <=>
                    <<g, "semantic">> \in found[r] \/ (g = f /\ SemanticFault(disk[f]))
             /\ <<g, "structural">> \in found'[r] <=> <<g, "structural">> \in found[r]
      BY <3>1
    <3>3. Clean(r)' <=> Clean(r)
      BY <3>2 DEF Clean
    <3>4. \A g \in File : Looked(r, g)' <=> Looked(r, g) \/ g = f
      BY <1>1, <3>1 DEF Looked
    <3> QED
      BY <1>1, <1>2, <3>1, <3>2, <3>3, <3>4 DEF Semantic, FoundFaults, Looked
  <2> QED
    BY <2>1, <2>2
<1> QED
  BY <1>1, <1>3, <1>4 DEF Semantic, Suspicious

\* The update gives an entry the findings of its file, which are faults of the
\* text that is hashed.
LEMMA UpdateSemantic ==
    ASSUME TypeOK, NEW r \in Run, RunRight(r), Semantic(r), NEW f \in File,
           RestatFile(r, f) \/ RehashFile(r, f)
    PROVE  Semantic(r)'
<1>1. /\ UNCHANGED <<disk, project, pc, opt, fresh, served, found>> /\ pc[r] = "update"
      /\ todo'[r] \subseteq todo[r]
  BY DEF RestatFile, RehashFile, files, TypeOK, Shapes
<1>2. \A g \in File : /\ SemanticFault(disk[g])' <=> SemanticFault(disk[g])
                      /\ Looked(r, g)' <=> Looked(r, g)
  BY <1>1 DEF SemanticFault, ScopeFault, Looked, Clean
<1>3. ServedSuspects(r)' /\ FoundFaults(r)'
  BY <1>1, <1>2 DEF Semantic, ServedSuspects, FoundFaults
<1>4. \A g \in File : Suspicious(base'[r][g], g)
  <2>1. CASE RehashFile(r, f)
    <3>1. /\ disk[f] # None
          /\ \A g \in File : base'[r][g] = IF g = f THEN NewEntry(r, f) ELSE base[r][g]
      BY <2>1 DEF RehashFile, TypeOK, Shapes, Entries
    <3>2. <<f, "semantic">> \in found[r] => Suspect(disk[f])
      BY <1>1 DEF Semantic, FoundFaults, SemanticFault, ScopeFault, Suspect, DependsOnOthers
    <3>3. Suspicious(NewEntry(r, f), f)
      BY <3>2 DEF Suspicious, NewEntry
    <3> QED
      BY <1>1, <3>1, <3>3 DEF Semantic
  <2>2. CASE RestatFile(r, f)
    BY <1>1, <2>2 DEF RestatFile, Semantic
  <2> QED
    BY <2>1, <2>2
<1> QED
  BY <1>1, <1>3, <1>4 DEF Semantic, Suspicious

LEMMA EndRunSemantic ==
    ASSUME TypeOK, NEW r \in Run, Semantic(r),
           Return(r) \/ Kill(r) \/ Timeout(r) \/ \E f \in File : HashFails(r, f)
    PROVE  Semantic(r)'
<1>1. CASE Return(r) \/ Kill(r)
  <2>1. pc'[r] = "idle"
    BY <1>1 DEF Return, Kill, Forget, TypeOK, Shapes
  <2> QED
    BY <2>1 DEF Semantic, ServedSuspects, FoundFaults
<1>2. CASE Timeout(r)
  BY <1>2, OthersSemantic DEF Timeout, local, files
<1>3. CASE \E f \in File : HashFails(r, f)
  <2>1. UNCHANGED base /\ pc[r] # "idle" /\ pc'[r] = "failed"
    BY <1>3 DEF HashFails, local, TypeOK, Shapes
  <2> QED
    BY <2>1 DEF Semantic, ServedSuspects, FoundFaults, Suspicious
<1> QED
  BY <1>1, <1>2, <1>3

LEMMA StepSemantic ==
    ASSUME TypeOK, StampInv, QuietInv, SemanticInv, NEW r \in Run,
           Start(r) \/ Validate(r) \/ Timeout(r) \/ Kill(r)
    PROVE  SemanticInv'
<1>1. RunRight(r) /\ Semantic(r) /\ CacheSuspicious
  BY DEF QuietInv, SemanticInv
<1>2. Semantic(r)'
  BY <1>1, BeginSemantic, TriageSemantic, PhaseSemantic, LevelSemantic, UpdateSemantic,
     EndRunSemantic DEF Validate
<1>3. UNCHANGED <<disk, project>>
  BY ValidateLeavesFiles DEF Start, Timeout, Kill, files
<1>4. ASSUME NEW q \in Run, q # r PROVE Semantic(q)'
  BY <1>3, <1>4, OwnVariables, OthersSemantic DEF SemanticInv
<1>5. CacheSuspicious'
  <2>1. \/ cache' = cache \/ cache' = Unreadable
        \/ pc[r] = "save" /\ cache' = [mode |-> opt[r].entropy, files |-> base[r]]
    BY DEF Start, Timeout, Kill, Validate, LoadCache, EndTriage, EndStructural, EndSemantic,
           SaveBegin, SaveEnd, GlobalPhase, Return, StatFile, HashFile, HashFails,
           StructuralFile, SemanticFile, RestatFile, RehashFile
  <2>2. pc[r] = "save" => \A f \in File : Suspicious(base[r][f], f)
    BY <1>1 DEF Semantic
  <2> QED
    BY <1>1, <2>1, <2>2 DEF CacheSuspicious, Suspicious
<1> QED
  BY <1>2, <1>4, <1>5 DEF SemanticInv

LEMMA NextSemanticInv ==
    ASSUME ~Interleave
    PROVE  TypeOK /\ StampInv /\ QuietInv /\ SemanticInv /\ [Next]_vars => SemanticInv'
<1> SUFFICES ASSUME TypeOK, StampInv, QuietInv, SemanticInv, [Next]_vars PROVE SemanticInv'
  OBVIOUS
<1>1. ASSUME NEW f \in File, NEW t \in Text \union {None}, Edit(f, t) PROVE SemanticInv'
  <2>1. UNCHANGED <<cache, pc, base>> /\ \A r \in Run : pc[r] = "idle"
    BY <1>1 DEF Edit, UserMayAct, local
  <2> QED
    BY <2>1 DEF SemanticInv, CacheSuspicious, Suspicious, Semantic, ServedSuspects, FoundFaults
<1>2. CASE UNCHANGED vars
  <2>1. UNCHANGED <<disk, project, cache, pc, opt, todo, fresh, base, served, found>>
    BY <1>2 DEF vars, files, local
  <2> QED
    BY <2>1, OthersSemantic DEF SemanticInv, CacheSuspicious, Suspicious
<1>3. ASSUME NEW m \in Member, NEW s \in Standing, EditProject(m, s) PROVE SemanticInv'
  <2>1. UNCHANGED <<cache, pc, base>> /\ \A r \in Run : pc[r] = "idle"
    BY <1>3 DEF EditProject, UserMayAct, local
  <2> QED
    BY <2>1 DEF SemanticInv, CacheSuspicious, Suspicious, Semantic, ServedSuspects, FoundFaults
<1> QED
  BY <1>1, <1>2, <1>3, StepSemantic DEF Next

\* With files that change only between validations, a run reports exactly the
\* semantic findings of what it validates, and serves none that the text or the
\* files that it names or has in its scope did not cause.
THEOREM SemanticSafe ==
    ASSUME ~Interleave
    PROVE  Spec => []SemanticTruth
<1>1. Init => TypeOK /\ StampInv /\ QuietInv /\ SemanticInv
  BY InitTypeOK, InitStampInv, InitQuietInv, InitSemanticInv
<1>2. (TypeOK /\ StampInv /\ QuietInv /\ SemanticInv) /\ [Next]_vars
          => (TypeOK /\ StampInv /\ QuietInv /\ SemanticInv)'
  BY NextTypeOK, NextStampInv, NextQuietInv, NextSemanticInv
<1>3. TypeOK /\ StampInv /\ QuietInv /\ SemanticInv => SemanticTruth
  BY SemanticInvImplies
<1> QED
  BY <1>1, <1>2, <1>3, PTL DEF Spec
=============================================================================
