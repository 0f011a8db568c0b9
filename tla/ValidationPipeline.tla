------------------------- MODULE ValidationPipeline -------------------------
(***************************************************************************)
(* ValidationPipeline.run (validator/index.ts) over the per-file cache      *)
(* .bp/cache.json (validator/cache.ts).  Several validations work in one    *)
(* project at once: a `bp verify`, the language server, the dev server, and *)
(* a validation that timed out and goes on behind its caller's back.  They  *)
(* share the blueprint files, which the user edits, and the cache file,     *)
(* which each loads at its start and overwrites at its end.                 *)
(*                                                                         *)
(* Every stat, every read and the two halves of the cache write are steps.  *)
(* A file's text is one of a few kinds that the checks tell apart.          *)
(***************************************************************************)
EXTENDS Naturals, FiniteSets

CONSTANTS
    Run,         \* validations that may be in flight together
    File,        \* blueprint files
    Text,        \* contents of a blueprint file
    Broken,      \* texts with a structural error
    Secret,      \* texts with a structural error that only the entropy scan finds
    Vague,       \* texts with a semantic finding of their own
    Cites,       \* Cites[t]: the skill files that text t refers to
    Member,      \* files of the project that are no blueprint files
    Scope,       \* Scope[t]: those that the scope of text t matches; None: no scope
    Levels,      \* values of --level that are used
    MaxFiles,    \* MAX_VALIDATION_FILES; the byte limit acts alike
    None,        \* no file, no cache entry, no stat
    Unreadable,  \* a cache file that is missing or does not parse
    Interleave,  \* FALSE: files only change while no validation is in flight
    MaxEdits,    \* bound on the changes to the files, of either sort
    MaxKills     \* bound on the kills

Option == [level : Levels, entropy : BOOLEAN]

Finding == File \X {"structural", "semantic"}

\* A CacheEntry.  stamp stands for mtime: it grows with every change of the
\* file.  hash stands for the text, SHA-256 being taken to be injective.
Entry == [stamp : 0 .. MaxEdits, hash : Text, errors : SUBSET Finding]

Entries == [File -> Entry \union {None}]

NoEntries == [f \in File |-> None]

\* ValidationCache: manifestVersion is the entropy flag, the version of the
\* manifest being the same for all.
Cache == [mode : BOOLEAN, files : Entries]

ASSUME ConstantsAssumption ==
    /\ IsFiniteSet(File)
    /\ Broken \subseteq Text /\ Secret \subseteq Text /\ Vague \subseteq Text
    /\ Cites \in [Text -> SUBSET File]
    /\ Scope \in [Text -> SUBSET Member \union {None}]
    /\ Levels \subseteq {"structural", "semantic", "logical", "enforcement",
                         "drift", "governance", "all"}
    /\ MaxFiles \in Nat
    /\ None \notin Text /\ None \notin Entry /\ None \notin Nat /\ None \notin Option
    /\ Unreadable \notin Cache
    /\ Interleave \in BOOLEAN
    /\ MaxEdits \in Nat /\ MaxKills \in Nat

VARIABLES
    disk,    \* text of every file
    stamp,   \* its modification time
    project, \* the other files: there, gone, or in a directory that cannot be read
    cache,   \* .bp/cache.json
    pc,      \* where each validation stands
    opt,     \* its options
    todo,    \* files its current phase has still to visit
    seen,    \* modification times it has read and not used yet
    fresh,   \* filesToValidate
    base,    \* cacheUpdatedFiles
    served,  \* cachedErrors
    found,   \* newErrors
    failed,  \* ctx.structuralFailed
    ran,     \* the checks that ran after the file-scoped phase
    answer,  \* what its caller has been told
    begun,   \* number of changes before its start
    edits,   \* changes so far
    kills    \* kills so far

files == <<disk, stamp, project, edits>>
local == <<opt, todo, seen, fresh, base, served, found, failed, ran, begun>>
vars == <<files, cache, pc, local, answer, kills>>

-----------------------------------------------------------------------------
\* validateStructural: one file, one mode; a file that is gone is an error.
StructuralFault(text, entropy) ==
    text = None \/ text \in Broken \/ (entropy /\ text \in Secret)

Standing == {"there", "gone", "hidden"}

\* checkScopePatterns: a scope that matches no file is a finding, and so is a
\* scan that fails, as it does at a directory that cannot be read.
ScopeFault(text) ==
    /\ Scope[text] # None
    /\ \/ \A m \in Scope[text] : project[m] # "there"
       \/ \E m \in Scope[text] : project[m] = "hidden"

\* validateSemantic: the text itself, the skill files that it names and the
\* project files in its scope.
SemanticFault(text) ==
    /\ text # None
    /\ text \in Vague \/ (\E g \in Cites[text] : disk[g] = None) \/ ScopeFault(text)

Listed == {f \in File : disk[f] # None}

SemanticEnabled(level) == level \in {"semantic", "all"}

\* The global phase of each level, and the plugins: when it is enabled, and
\* whether it is skipped after a structural failure.
Check == {"skills", "logical", "enforcement", "drift", "governance",
          "backend-rules", "plugins"}

EnabledFor(check, level) ==
    \/ level = "all"
    \/ check = level
    \/ check = "skills" /\ level = "semantic"
    \/ check = "backend-rules" /\ level = "logical"
    \/ check = "plugins" /\ level \in {"structural", "semantic", "logical", "enforcement"}

SkippedOnFailure == {"skills", "logical", "enforcement", "plugins"}

InFlight(r) == pc[r] \notin {"idle", "done", "failed"}

-----------------------------------------------------------------------------
Init ==
    /\ disk \in [File -> Text \union {None}]
    /\ stamp = [f \in File |-> 0]
    /\ project = [m \in Member |-> "there"]
    /\ cache = Unreadable
    /\ pc = [r \in Run |-> "idle"]
    /\ opt = [r \in Run |-> None]
    /\ todo = [r \in Run |-> {}]
    /\ seen = [r \in Run |-> [f \in File |-> None]]
    /\ fresh = [r \in Run |-> {}]
    /\ base = [r \in Run |-> NoEntries]
    /\ served = [r \in Run |-> {}]
    /\ found = [r \in Run |-> {}]
    /\ failed = [r \in Run |-> FALSE]
    /\ ran = [r \in Run |-> {}]
    /\ begun = [r \in Run |-> 0]
    /\ answer = [r \in Run |-> "none"]
    /\ edits = 0
    /\ kills = 0

\* runWithTimeout, collectBlueprintFiles and the two limits.
Start(r) ==
    /\ pc[r] = "idle"
    /\ \E o \in Option : opt' = [opt EXCEPT ![r] = o]
    /\ todo' = [todo EXCEPT ![r] = Listed]
    /\ begun' = [begun EXCEPT ![r] = edits]
    /\ \/ /\ Cardinality(Listed) <= MaxFiles
          /\ pc' = [pc EXCEPT ![r] = "load"]
          /\ answer' = [answer EXCEPT ![r] = "waiting"]
       \/ /\ Cardinality(Listed) > MaxFiles
          /\ pc' = [pc EXCEPT ![r] = "failed"]
          /\ answer' = [answer EXCEPT ![r] = "limit"]
    /\ UNCHANGED <<files, cache, seen, fresh, base, served, found, failed, ran, kills>>

\* Mutant: the scan mode is not part of the cache's identity.
UsableAnyMode(c, entropy) == c # Unreadable

\* loadCacheAsync: what is missing, unreadable or of the other mode is empty.
Usable(c, entropy) == c # Unreadable /\ c.mode = entropy

LoadCache(r) ==
    /\ pc[r] = "load"
    /\ pc' = [pc EXCEPT ![r] = "triage"]
    /\ base' = [base EXCEPT ![r] = IF Usable(cache, opt[r].entropy) THEN cache.files ELSE NoEntries]
    /\ UNCHANGED <<files, cache, opt, todo, seen, fresh, served, found, failed, ran, begun, answer, kills>>

Serve(r, f) == served' = [served EXCEPT ![r] = @ \union base[r][f].errors]

\* Mutant: a file without an entry is hashed like the others.
StatFileUnchecked(r, f) ==
    /\ pc[r] = "triage" /\ f \in todo[r] /\ seen[r][f] = None
    /\ disk[f] # None
    /\ seen' = [seen EXCEPT ![r][f] = stamp[f]]
    /\ UNCHANGED <<files, cache, pc, opt, todo, fresh, base, served, found, failed, ran, begun, answer, kills>>

\* Triage, the stat: a file that is gone or new goes to validation, one with
\* the cached time is served, any other has to be hashed.
StatFile(r, f) ==
    /\ pc[r] = "triage" /\ f \in todo[r] /\ seen[r][f] = None
    /\ \/ /\ disk[f] = None \/ base[r][f] = None
          /\ fresh' = [fresh EXCEPT ![r] = @ \union {f}]
          /\ todo' = [todo EXCEPT ![r] = @ \ {f}]
          /\ UNCHANGED <<seen, served>>
       \/ /\ disk[f] # None /\ base[r][f] # None
          /\ base[r][f].stamp = stamp[f]
          /\ Serve(r, f)
          /\ todo' = [todo EXCEPT ![r] = @ \ {f}]
          /\ UNCHANGED <<seen, fresh>>
       \/ /\ disk[f] # None /\ base[r][f] # None
          /\ base[r][f].stamp # stamp[f]
          /\ seen' = [seen EXCEPT ![r][f] = stamp[f]]
          /\ UNCHANGED <<todo, fresh, served>>
    /\ UNCHANGED <<files, cache, pc, opt, base, found, failed, ran, begun, answer, kills>>

\* Mutant: the entry takes the new time before the hashes are compared.
HashFileRefreshes(r, f) ==
    /\ pc[r] = "triage" /\ f \in todo[r] /\ seen[r][f] # None
    /\ disk[f] # None
    /\ base' = [base EXCEPT ![r][f].stamp = seen[r][f]]
    /\ \/ base[r][f].hash = disk[f] /\ Serve(r, f) /\ UNCHANGED fresh
       \/ /\ base[r][f].hash # disk[f]
          /\ fresh' = [fresh EXCEPT ![r] = @ \union {f}]
          /\ UNCHANGED served
    /\ seen' = [seen EXCEPT ![r][f] = None]
    /\ todo' = [todo EXCEPT ![r] = @ \ {f}]
    /\ UNCHANGED <<files, cache, pc, opt, found, failed, ran, begun, answer, kills>>

\* Triage, the hash: the same text keeps the entry, under the time just read.
HashFile(r, f) ==
    /\ pc[r] = "triage" /\ f \in todo[r] /\ seen[r][f] # None
    /\ disk[f] # None
    /\ \/ /\ base[r][f].hash = disk[f]
          /\ base' = [base EXCEPT ![r][f].stamp = seen[r][f]]
          /\ Serve(r, f)
          /\ UNCHANGED fresh
       \/ /\ base[r][f].hash # disk[f]
          /\ fresh' = [fresh EXCEPT ![r] = @ \union {f}]
          /\ UNCHANGED <<base, served>>
    /\ seen' = [seen EXCEPT ![r][f] = None]
    /\ todo' = [todo EXCEPT ![r] = @ \ {f}]
    /\ UNCHANGED <<files, cache, pc, opt, found, failed, ran, begun, answer, kills>>

\* Mutant: only the triage treats a file that vanished as an error.
HashFailsEarly(r, f) ==
    /\ pc[r] = "triage" /\ f \in todo[r]
    /\ seen[r][f] # None /\ disk[f] = None
    /\ pc' = [pc EXCEPT ![r] = "failed"]
    /\ answer' = [answer EXCEPT ![r] = IF @ = "waiting" THEN "error" ELSE @]
    /\ UNCHANGED <<files, cache, local, kills>>

\* computeContentHash rejects for a file that vanished after its stat, in the
\* triage or in the update: the whole validation rejects.
HashFails(r, f) ==
    /\ pc[r] \in {"triage", "update"} /\ f \in todo[r]
    /\ seen[r][f] # None /\ disk[f] = None
    /\ pc' = [pc EXCEPT ![r] = "failed"]
    /\ answer' = [answer EXCEPT ![r] = IF @ = "waiting" THEN "error" ELSE @]
    /\ UNCHANGED <<files, cache, local, kills>>

EndTriage(r) ==
    /\ pc[r] = "triage" /\ todo[r] = {}
    /\ pc' = [pc EXCEPT ![r] = "structural"]
    /\ todo' = [todo EXCEPT ![r] = fresh[r]]
    /\ UNCHANGED <<files, cache, opt, seen, fresh, base, served, found, failed, ran, begun, answer, kills>>

\* validateStructuralBatch, one file, its access and its reads in one step.
StructuralFile(r, f) ==
    /\ pc[r] = "structural" /\ f \in todo[r]
    /\ todo' = [todo EXCEPT ![r] = @ \ {f}]
    /\ found' = [found EXCEPT ![r] =
                   IF StructuralFault(disk[f], opt[r].entropy)
                   THEN @ \union {<<f, "structural">>} ELSE @]
    /\ UNCHANGED <<files, cache, pc, opt, seen, fresh, base, served, failed, ran, begun, answer, kills>>

\* ctx.structuralFailed comes from the new errors alone; the semantic level
\* runs if the requested level has it and the structural one found nothing.
EndStructural(r) ==
    /\ pc[r] = "structural" /\ todo[r] = {}
    /\ failed' = [failed EXCEPT ![r] = found[r] # {}]
    /\ pc' = [pc EXCEPT ![r] =
                IF SemanticEnabled(opt[r].level) /\ found[r] = {} THEN "semantic" ELSE "update"]
    /\ todo' = [todo EXCEPT ![r] = fresh[r]]
    /\ UNCHANGED <<files, cache, opt, seen, fresh, base, served, found, ran, begun, answer, kills>>

\* validateSemantic, one file.
SemanticFile(r, f) ==
    /\ pc[r] = "semantic" /\ f \in todo[r]
    /\ todo' = [todo EXCEPT ![r] = @ \ {f}]
    /\ found' = [found EXCEPT ![r] =
                   IF SemanticFault(disk[f]) THEN @ \union {<<f, "semantic">>} ELSE @]
    /\ UNCHANGED <<files, cache, pc, opt, seen, fresh, base, served, failed, ran, begun, answer, kills>>

EndSemantic(r) ==
    /\ pc[r] = "semantic" /\ todo[r] = {}
    /\ pc' = [pc EXCEPT ![r] = "update"]
    /\ todo' = [todo EXCEPT ![r] = fresh[r]]
    /\ UNCHANGED <<files, cache, opt, seen, fresh, base, served, found, failed, ran, begun, answer, kills>>

\* The update of the cache: stat, and a file that is gone keeps its entry.
RestatFile(r, f) ==
    /\ pc[r] = "update" /\ f \in todo[r] /\ seen[r][f] = None
    /\ \/ /\ disk[f] = None
          /\ todo' = [todo EXCEPT ![r] = @ \ {f}]
          /\ UNCHANGED seen
       \/ /\ disk[f] # None
          /\ seen' = [seen EXCEPT ![r][f] = stamp[f]]
          /\ UNCHANGED todo
    /\ UNCHANGED <<files, cache, pc, opt, fresh, base, served, found, failed, ran, begun, answer, kills>>

\* Mutant: the findings are not told apart by file.
NewEntryUnfiltered(r, f) ==
    [stamp |-> seen[r][f], hash |-> disk[f], errors |-> found[r]]

\* The new entry: the time read before, the hash read now, this run's findings.
NewEntry(r, f) ==
    [stamp |-> seen[r][f], hash |-> disk[f], errors |-> {e \in found[r] : e[1] = f}]

RehashFile(r, f) ==
    /\ pc[r] = "update" /\ f \in todo[r] /\ seen[r][f] # None
    /\ disk[f] # None
    /\ base' = [base EXCEPT ![r][f] = NewEntry(r, f)]
    /\ seen' = [seen EXCEPT ![r][f] = None]
    /\ todo' = [todo EXCEPT ![r] = @ \ {f}]
    /\ UNCHANGED <<files, cache, pc, opt, fresh, served, found, failed, ran, begun, answer, kills>>

\* saveCacheAsync: writeFile truncates the file, then fills it; its failure is
\* only logged.
SaveBegin(r) ==
    /\ pc[r] = "update" /\ todo[r] = {}
    /\ pc' = [pc EXCEPT ![r] = "save"]
    /\ cache' = Unreadable
    /\ UNCHANGED <<files, local, answer, kills>>

SaveEnd(r) ==
    /\ pc[r] = "save"
    /\ pc' = [pc EXCEPT ![r] = "global"]
    /\ \/ cache' = [mode |-> opt[r].entropy, files |-> base[r]]
       \/ UNCHANGED cache
    /\ UNCHANGED <<files, local, answer, kills>>

\* Phases 2 and 3, and the report; the caller gets it unless the timer won.
GlobalPhase(r) ==
    /\ pc[r] = "global"
    /\ pc' = [pc EXCEPT ![r] = "done"]
    /\ ran' = [ran EXCEPT ![r] =
                 {c \in Check : /\ EnabledFor(c, opt[r].level)
                                /\ ~(c \in SkippedOnFailure /\ failed[r])}]
    /\ answer' = [answer EXCEPT ![r] = IF @ = "waiting" THEN "report" ELSE @]
    /\ UNCHANGED <<files, cache, opt, todo, seen, fresh, base, served, found, failed, begun, kills>>

\* What allErrors holds of the file-scoped levels when the run ends.
Report(r) == served[r] \union found[r]

\* The run's variables go with it.
Forget(r) ==
    /\ pc' = [pc EXCEPT ![r] = "idle"]
    /\ opt' = [opt EXCEPT ![r] = None]
    /\ todo' = [todo EXCEPT ![r] = {}]
    /\ seen' = [seen EXCEPT ![r] = [f \in File |-> None]]
    /\ fresh' = [fresh EXCEPT ![r] = {}]
    /\ base' = [base EXCEPT ![r] = NoEntries]
    /\ served' = [served EXCEPT ![r] = {}]
    /\ found' = [found EXCEPT ![r] = {}]
    /\ failed' = [failed EXCEPT ![r] = FALSE]
    /\ ran' = [ran EXCEPT ![r] = {}]
    /\ begun' = [begun EXCEPT ![r] = 0]
    /\ answer' = [answer EXCEPT ![r] = "none"]

Return(r) ==
    /\ pc[r] \in {"done", "failed"}
    /\ Forget(r)
    /\ UNCHANGED <<files, cache, kills>>

\* The timer of runWithTimeout: the caller is refused, the run goes on.
Timeout(r) ==
    /\ answer[r] = "waiting"
    /\ answer' = [answer EXCEPT ![r] = "timeout"]
    /\ UNCHANGED <<files, cache, pc, local, kills>>

-----------------------------------------------------------------------------
\* The process is killed; a cache file it was writing stays truncated.
Kill(r) ==
    /\ InFlight(r) /\ kills < MaxKills
    /\ kills' = kills + 1
    /\ Forget(r)
    /\ UNCHANGED <<files, cache>>

UserMayAct == edits < MaxEdits /\ (Interleave \/ \A r \in Run : pc[r] = "idle")

\* The user writes, creates, deletes or touches a file.
Edit(f, text) ==
    /\ UserMayAct
    /\ disk' = [disk EXCEPT ![f] = text]
    /\ stamp' = [stamp EXCEPT ![f] = @ + 1]
    /\ edits' = edits + 1
    /\ UNCHANGED <<project, cache, pc, local, answer, kills>>

\* The user creates or deletes another file, or its directory is locked.
EditProject(m, standing) ==
    /\ UserMayAct
    /\ project' = [project EXCEPT ![m] = standing]
    /\ edits' = edits + 1
    /\ UNCHANGED <<disk, stamp, cache, pc, local, answer, kills>>

Validate(r) ==
    \/ LoadCache(r) \/ EndTriage(r) \/ EndStructural(r) \/ EndSemantic(r)
    \/ SaveBegin(r) \/ SaveEnd(r) \/ GlobalPhase(r) \/ Return(r)
    \/ \E f \in File : \/ StatFile(r, f) \/ HashFile(r, f) \/ HashFails(r, f)
                       \/ StructuralFile(r, f) \/ SemanticFile(r, f)
                       \/ RestatFile(r, f) \/ RehashFile(r, f)

Next ==
    \/ \E r \in Run : Start(r) \/ Validate(r) \/ Timeout(r) \/ Kill(r)
    \/ \E f \in File, text \in Text \union {None} : Edit(f, text)
    \/ \E m \in Member, standing \in Standing : EditProject(m, standing)

Spec == Init /\ [][Next]_vars

\* Every stat, read and write of a run ends, and the run goes on.  The timer is
\* unref'd (validator/index.ts:261): nothing is assumed of it.
FairSpec == Spec /\ \A r \in Run : WF_vars(Validate(r))

-----------------------------------------------------------------------------
Phase == {"idle", "load", "triage", "structural", "semantic", "update", "save",
          "global", "done", "failed"}

Shapes ==
    /\ disk \in [File -> Text \union {None}]
    /\ stamp \in [File -> 0 .. MaxEdits]
    /\ project \in [Member -> Standing]
    /\ cache \in Cache \union {Unreadable}
    /\ pc \in [Run -> Phase]
    /\ opt \in [Run -> Option \union {None}]
    /\ todo \in [Run -> SUBSET File]
    /\ seen \in [Run -> [File -> 0 .. MaxEdits \union {None}]]
    /\ fresh \in [Run -> SUBSET File]
    /\ base \in [Run -> Entries]
    /\ served \in [Run -> SUBSET Finding]
    /\ found \in [Run -> SUBSET Finding]
    /\ failed \in [Run -> BOOLEAN]
    /\ ran \in [Run -> SUBSET Check]
    /\ begun \in [Run -> 0 .. MaxEdits]
    /\ answer \in [Run -> {"none", "waiting", "report", "timeout", "limit", "error"}]
    /\ edits \in 0 .. MaxEdits
    /\ kills \in 0 .. MaxKills

StampsCounted == \A f \in File : stamp[f] <= edits

OptionsKnown == \A r \in Run : pc[r] # "idle" => opt[r] \in Option

StatsBlank == \A r \in Run, f \in File : pc[r] \in {"idle", "load"} => seen[r][f] = None

StatsCompared ==
    \A r \in Run, f \in File : pc[r] = "triage" /\ seen[r][f] # None => base[r][f] # None

\* TypeOK: every variable keeps its shape; a run that is not idle knows its
\* options, and a file between its stat and its hash has an old entry to compare.
TypeOK == Shapes /\ StampsCounted /\ OptionsKnown /\ StatsBlank /\ StatsCompared

\* The entries that are in the cache file or in the hands of a run.
HashMatches(entry, f) ==
    entry # None /\ entry.stamp = stamp[f] /\ disk[f] # None => entry.hash = disk[f]

\* StampedHash: an entry that bears a file's present modification time bears
\* the hash of its present text, whatever changes meanwhile.  The code relies
\* on it when it serves an entry on the time alone (validator/index.ts:161),
\* and it rests on the stat before the hash (lines 202 and 206).
StampedHash ==
    \A f \in File :
        /\ cache # Unreadable => HashMatches(cache.files[f], f)
        /\ \A r \in Run : HashMatches(base[r][f], f)

\* StructuralTruth: a run during which no file changed reports exactly the
\* structural findings of the files, in its own scan mode, however many runs
\* of either mode loaded, overwrote or tore the cache (validator/index.ts:134).
StructuralTruth ==
    \A r \in Run : pc[r] = "done" /\ begun[r] = edits =>
        \A f \in Listed :
            <<f, "structural">> \in Report(r) <=> StructuralFault(disk[f], opt[r].entropy)

\* What a semantic finding of the text may rest on besides the text.
DependsOnOthers(text) == Cites[text] # {} \/ Scope[text] # None

\* SemanticTruth: of the files that it does not serve from the cache, such a run
\* reports no semantic finding that is not there, and, if its level includes the
\* semantic one and it reports no structural error, every one that is.  What it
\* serves is there too, unless the text names skills or has a scope, whose files
\* may have come or gone since (validator/index.ts:161-194): the cache knows the
\* text alone.  What is served is as complete as the run that made the entry.
SemanticTruth ==
    \A r \in Run : pc[r] = "done" /\ begun[r] = edits =>
        /\ \A f \in Listed : <<f, "semantic">> \in Report(r) =>
              SemanticFault(disk[f]) \/ (f \notin fresh[r] /\ DependsOnOthers(disk[f]))
        /\ SemanticEnabled(opt[r].level) /\ (\A f \in File : <<f, "structural">> \notin Report(r))
           => \A f \in Listed \cap fresh[r] : SemanticFault(disk[f]) => <<f, "semantic">> \in Report(r)

\* ShortCircuits: a run that reports a structural error runs none of the
\* levels that such an error skips (validator/levels/structural.ts:9).
ShortCircuits ==
    \A r \in Run :
        pc[r] = "done" /\ (\E f \in File : <<f, "structural">> \in Report(r))
        => ran[r] \cap SkippedOnFailure = {}

\* Answered: the caller of a validation is told something, without the help of
\* the timer: whatever comes, goes or changes under its stats and hashes, and
\* whatever other runs do to the cache, the run comes to its end
\* (validator/index.ts:134-248); only a kill spares the answer.
Answered == \A r \in Run : answer[r] = "waiting" ~> answer[r] # "waiting"
=============================================================================
