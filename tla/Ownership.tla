------------------------------ MODULE Ownership ------------------------------
(* Ownership of generated files: what bp init, bp emit, bp adopt and bp    *)
(* sync do to the governance files of a project, to the record of the      *)
(* files bp is responsible for (.bp/manifest.json) and to the fingerprint  *)
(* that drift is measured from (.bp-fingerprint.json).  Commands run in    *)
(* processes of their own, a step per file operation; the author edits     *)
(* files, the project changes and a command is killed between any two      *)
(* steps.                                                                  *)
EXTENDS Drift, Templates

CONSTANTS
    File,           \* the governance files
    Marked,         \* those whose template puts bp-generated markers in
    Skill,          \* those that hold a skill; the others hold a rule
    Ignored,        \* those .blueprintignore names
    Text,           \* pieces of text an author writes
    Evidence,       \* what the governance files and measurements may say
    Proc,           \* the processes commands run in
    Serialized,     \* the form of a file that emit wrote ...
    Authored,       \* ... and of one that a person wrote
    Corrupt,        \* a manifest that does not parse
    MaxCommands, MaxEdits, MaxChanges  \* bounds on commands, edits and changes of the project

ASSUME OwnershipAssumption ==
    /\ MaxCommands \in Nat /\ MaxEdits \in Nat /\ MaxChanges \in Nat
    /\ \A q \in Project : Rendered(q) \subseteq File
    /\ None \notin File /\ None \notin Project
    /\ Serialized \notin Project /\ Authored \notin Project

VARIABLES
    disk,           \* disk[f]: the content of file f
    manifest,       \* manifest[f]: origin and content recorded, or Corrupt
    baseline,       \* the stored fingerprint
    project,        \* what the detector would find now
    run,            \* run[p]: the command process p is in
    commands, edits, changes,
    \* history, for the properties:
    overlap,        \* two commands have run at the same time
    promised,       \* promised[f]: text put into preserve blocks with no write to f under way
    approved,       \* approved[f]: text the author handed to adopt or to emit
    raced,          \* raced[f]: text written between bp's writing f and its reading it back
    settled         \* the stored fingerprint is that of an init which ended, and no init was killed since

vars == <<disk, manifest, baseline, project, run, commands, edits, changes,
          overlap, promised, approved, raced, settled>>

-----------------------------------------------------------------------------
(* A file: who wrote its generated part (the project it was rendered for,  *)
(* emit, or the author), whether it has bp-generated markers, the text     *)
(* outside every block, in preserve blocks, and in preserve blocks inside a *)
(* generated block.                                                        *)

Form == Project \cup {Serialized, Authored}
Content == [form : Form, marks : BOOLEAN, plain : SUBSET Text,
            kept : SUBSET (Text \cup Form), nested : SUBSET Text]
Fresh(form, marks) ==
    [form |-> form, marks |-> marks, plain |-> {}, kept |-> {}, nested |-> {}]
TextOf(c) == c.plain \cup c.kept \cup c.nested

(* merger.ts                                                               *)
hasMarkers(c) == c.marks \/ c.kept # {} \/ c.nested # {}
hasPreserveBlock(c) == c.kept # {} \/ c.nested # {}
\* A scan that stops at a generated block's end finds no preserve block in it.
parseExistingFile(c) == [generatedBlocks |-> c.marks, preserveBlocks |-> c.kept]
\* The new text alone, once there is a generated block to replace.
MergeReplacing(old, new) ==
    IF parseExistingFile(old).generatedBlocks THEN new
    ELSE [new EXCEPT !.kept = @ \cup parseExistingFile(old).preserveBlocks]
mergeContent(old, new) ==
    [new EXCEPT !.kept = @ \cup parseExistingFile(old).preserveBlocks]
wrapPreserve(c) ==
    IF hasPreserveBlock(c) \/ (c.plain = {} /\ c.form = Authored) THEN c
    ELSE [c EXCEPT !.kept = c.plain \cup ({c.form} \ {Authored}), !.plain = {}, !.marks = FALSE,
                   !.form = Authored]

(* writer.ts: the content written over old, or None if it is skipped.      *)
writeFileImpl(f, old, new, force) ==
    IF f \in Ignored \/ old = new THEN None
    ELSE IF old = None THEN new
    ELSE IF hasMarkers(old) THEN mergeContent(old, new)
    ELSE IF force THEN new
    ELSE None

(* manifest.ts                                                             *)
Entry == [origin : {"generated", "adopted"}, hash : Content]
NoRecords == [f \in File |-> None]
ASSUME MarkersAssumption ==
    None \notin Content /\ None \notin Entry /\ Corrupt \notin [File -> Entry \cup {None}]
recordFile(m, f, c, origin) == [m EXCEPT ![f] = [origin |-> origin, hash |-> c]]
classifyFile(m, f, c) ==
    IF m[f] = None THEN "untracked"
    ELSE IF c = None THEN "missing"
    ELSE IF m[f].hash = c THEN "managed" ELSE "modified"

(* serialize.ts: a rule is written from its fields, a skill's body is its  *)
(* procedure and goes back as it was read.                                 *)
serializeRule(c) == Fresh(Serialized, FALSE)
serializeSkill(c) == [c EXCEPT !.form = Serialized]
Emitted(f, c) == IF f \in Skill THEN serializeSkill(c) ELSE serializeRule(c)

-----------------------------------------------------------------------------
(* A command: what it is, where it is, its option (--force, --wrap,        *)
(* --auto-apply), the project it detected, the files it has still to see,  *)
(* the file it read and what was in it, what it is to write, the manifest  *)
(* it has loaded and the files it has to record.                           *)

Idle == [kind |-> "none", pc |-> "idle", option |-> FALSE, seen |-> None, todo |-> {},
         at |-> None, buf |-> None, new |-> [f \in File |-> None], mem |-> NoRecords, written |-> {}]

Running(p) == run[p].pc # "idle"
Holds(p, f) == run[p].pc = "write" /\ run[p].at = f
Free(f) == \A p \in Proc : ~Holds(p, f)

history == <<promised, approved, raced, settled>>
files == <<disk, manifest, baseline>>
author == <<project, edits, changes>>

Init ==
    /\ \E S \in SUBSET File :
          disk = [f \in File |-> IF f \in S THEN Fresh(Authored, FALSE) ELSE None]
    /\ manifest = NoRecords /\ baseline = None
    /\ project \in Project
    /\ run = [p \in Proc |-> Idle]
    /\ commands = 0 /\ edits = 0 /\ changes = 0
    /\ overlap = FALSE /\ settled = FALSE
    /\ promised = [f \in File |-> {}] /\ approved = [f \in File |-> {}]
    /\ raced = [f \in File |-> {}]

CanBegin(p) == ~Running(p) /\ commands < MaxCommands
Begin(p, r) ==
    /\ CanBegin(p)
    /\ commands' = commands + 1
    /\ run' = [run EXCEPT ![p] = r]
    /\ overlap' = (overlap \/ \E q \in Proc : Running(q))
    /\ UNCHANGED <<files, author, history>>

(* bp init [--force]: the project is detected and the templates rendered.  *)
StartInit(p, force) ==
    Begin(p, [Idle EXCEPT !.kind = "init", !.pc = "next", !.option = force,
        !.seen = project, !.todo = Rendered(project),
        !.new = [f \in File |-> IF f \in Rendered(project) THEN Fresh(project, f \in Marked) ELSE None]])

(* bp emit [--force]: the project's own files are parsed and written back, *)
(* or with --input rules and skills that come from elsewhere.              *)
StartEmit(p, force, input) ==
    LET present == IF input THEN File ELSE {f \in File : disk[f] # None}
    IN  Begin(p, [Idle EXCEPT !.kind = "emit", !.pc = "next", !.option = force, !.todo = present,
            !.new = [f \in File |-> IF f \notin present THEN None
                                    ELSE IF input THEN Fresh(Serialized, FALSE)
                                    ELSE Emitted(f, disk[f])]])

(* bp adopt [--wrap]: the files present are listed and the manifest is     *)
(* loaded before any of them is read.                                      *)
StartAdopt(p, wrap) ==
    /\ manifest # Corrupt
    /\ Begin(p, [Idle EXCEPT !.kind = "adopt", !.pc = "next", !.option = wrap, !.mem = manifest,
            !.todo = {f \in File : disk[f] # None /\ manifest[f] = None}])

(* bp sync: detection and the drift analysis, which ends at once when      *)
(* there is nothing to report.  A fix is applied by someone's answer or by *)
(* --auto-apply, which stores the fingerprint even if nothing was fixed.   *)
StartSync(p, e, auto) ==
    LET drift == validateDrift(baseline, project, e)
        fixable == \E finding \in drift : canAutoFix(finding)
    IN  /\ CanBegin(p) /\ drift # {} /\ (auto \/ fixable)
        /\ Begin(p, [Idle EXCEPT !.kind = "sync", !.pc = IF fixable THEN "apply" ELSE "store",
                !.option = auto, !.seen = project])

(* A file is read ...                                                      *)
Read(p, f) ==
    /\ run[p].pc = "next" /\ f \in run[p].todo
    /\ run' = [run EXCEPT ![p] = [run[p] EXCEPT !.pc = "write", !.at = f, !.buf = disk[f], !.todo = @ \ {f}]]
    /\ UNCHANGED <<files, author, commands, overlap, history>>

(* ... and written from what was read.                                     *)
\* A file that was skipped counts as written.
CountsAll(out) == TRUE
Counts(out) == out # None
Outcome(p) == writeFileImpl(run[p].at, run[p].buf, run[p].new[run[p].at], run[p].option)
Write(p) ==
    LET f == run[p].at
        out == Outcome(p)
    IN  /\ run[p].pc = "write" /\ run[p].kind \in {"init", "emit"}
        /\ disk' = IF out = None THEN disk ELSE [disk EXCEPT ![f] = out]
        /\ run' = [run EXCEPT ![p] = [run[p] EXCEPT !.pc = "next", !.at = None, !.buf = None,
                      !.written = IF Counts(out) THEN @ \cup {f} ELSE @]]
        /\ approved' = IF out = None \/ run[p].kind = "init" THEN approved
                       ELSE [approved EXCEPT ![f] = @ \cup TextOf(run[p].new[f])]
        /\ UNCHANGED <<manifest, baseline, author, commands, overlap, promised, raced, settled>>

Wrapped(p) == IF run[p].option THEN wrapPreserve(run[p].buf) ELSE run[p].buf
AdoptFile(p) ==
    LET f == run[p].at
        c == run[p].buf
        alone == \A q \in Proc \ {p} : ~Holds(q, f)
    IN  /\ run[p].pc = "write" /\ run[p].kind = "adopt"
        /\ IF c = None
           THEN /\ run' = [run EXCEPT ![p] = [run[p] EXCEPT !.pc = "next", !.at = None]]
                /\ UNCHANGED <<disk, promised, approved>>
           ELSE /\ disk' = IF Wrapped(p) = c THEN disk ELSE [disk EXCEPT ![f] = Wrapped(p)]
                /\ run' = [run EXCEPT ![p] = [run[p] EXCEPT !.pc = "next", !.at = None, !.buf = None,
                              !.mem = recordFile(@, f, Wrapped(p), "adopted"), !.written = @ \cup {f}]]
                /\ approved' = [approved EXCEPT ![f] = @ \cup TextOf(c)]
                /\ promised' = IF Wrapped(p) = c \/ ~alone THEN promised
                               ELSE [promised EXCEPT ![f] = @ \cup Wrapped(p).kept]
        /\ UNCHANGED <<manifest, baseline, author, commands, overlap, raced, settled>>

(* Init stores the fingerprint once every template has been written; the   *)
(* files it wrote are then read back and recorded.                         *)
\* Detected again instead of kept from the start.
FingerprintNow(p) == project
Fingerprint(p) == run[p].seen
StoreFingerprint(p) ==
    /\ run[p].pc = "next" /\ run[p].todo = {} /\ run[p].kind = "init"
    /\ baseline' = Fingerprint(p) /\ settled' = TRUE
    /\ run' = [run EXCEPT ![p] = IF run[p].written = {} THEN Idle ELSE [run[p] EXCEPT !.pc = "load"]]
    /\ UNCHANGED <<disk, manifest, author, commands, overlap, promised, approved, raced>>

(* A manifest that does not parse ends the command.                        *)
\* Whatever the file parses to is taken for a manifest.
ParsesAlways == TRUE
Parses == manifest # Corrupt
LoadManifest(p) ==
    /\ \/ run[p].pc = "load"
       \/ run[p].pc = "next" /\ run[p].todo = {} /\ run[p].kind = "emit" /\ run[p].written # {}
    /\ run' = [run EXCEPT ![p] = IF Parses THEN [run[p] EXCEPT !.pc = "record", !.mem = manifest]
                                 ELSE Idle]
    /\ UNCHANGED <<files, author, commands, overlap, history>>

Record(p, f) ==
    /\ run[p].pc = "record" /\ f \in run[p].written
    /\ run' = [run EXCEPT ![p] = [run[p] EXCEPT !.written = @ \ {f},
            !.mem = IF disk[f] = None THEN @ ELSE recordFile(@, f, disk[f], "generated")]]
    /\ UNCHANGED <<files, author, commands, overlap, history>>

\* Only what this command recorded.
SavedOwn(p) == [f \in File |-> IF manifest # Corrupt /\ run[p].mem[f] = manifest[f] THEN None
                               ELSE run[p].mem[f]]
Saved(p) == run[p].mem
SaveManifest(p) ==
    /\ \/ run[p].pc = "record" /\ run[p].written = {}
       \/ run[p].pc = "next" /\ run[p].todo = {} /\ run[p].kind = "adopt" /\ run[p].written # {}
    /\ manifest' = Saved(p)
    /\ run' = [run EXCEPT ![p] = Idle]
    /\ UNCHANGED <<disk, baseline, author, commands, overlap, history>>

(* An emit or an adopt that has nothing to record.                         *)
Finish(p) ==
    /\ run[p].pc = "next" /\ run[p].todo = {} /\ run[p].kind \in {"emit", "adopt"}
    /\ run[p].written = {}
    /\ run' = [run EXCEPT ![p] = Idle]
    /\ UNCHANGED <<files, author, commands, overlap, history>>

(* However many findings there are, sync writes the fingerprint it         *)
(* detected when it started, and writes it again when it is done.          *)
ApplyDriftFix(p) ==
    /\ run[p].pc = "apply"
    /\ baseline' = run[p].seen /\ settled' = FALSE
    /\ run' = [run EXCEPT ![p].pc = "store"]
    /\ UNCHANGED <<disk, manifest, author, commands, overlap, promised, approved, raced>>
StoreSynced(p) ==
    /\ run[p].pc = "store"
    /\ baseline' = run[p].seen /\ settled' = FALSE
    /\ run' = [run EXCEPT ![p] = Idle]
    /\ UNCHANGED <<disk, manifest, author, commands, overlap, promised, approved, raced>>

(* The process is killed; while it writes the manifest, that is cut short. *)
Kill(p) ==
    /\ Running(p)
    /\ run' = [run EXCEPT ![p] = Idle]
    /\ \/ manifest' = manifest
       \/ run[p].pc = "record" /\ run[p].written = {} /\ manifest' = Corrupt
    /\ settled' = (settled /\ run[p].kind # "init")
    /\ UNCHANGED <<disk, baseline, author, commands, overlap, promised, approved, raced>>

(* The author adds text to a file, or starts one.                          *)
AddText(f, t, where) ==
    LET c == IF disk[f] = None THEN Fresh(Authored, FALSE) ELSE disk[f]
    IN  /\ edits < MaxEdits /\ t \notin TextOf(c)
        /\ where = "nested" => c.marks
        /\ edits' = edits + 1
        /\ disk' = [disk EXCEPT ![f] = [c EXCEPT ![where] = @ \cup {t}]]
        /\ promised' = IF where = "kept" /\ Free(f) THEN [promised EXCEPT ![f] = @ \cup {t}] ELSE promised
        /\ raced' = IF \E p \in Proc : f \in run[p].written /\ run[p].kind # "adopt"
                    THEN [raced EXCEPT ![f] = @ \cup {t}] ELSE raced
        /\ UNCHANGED <<manifest, baseline, project, changes, run, commands, overlap, approved, settled>>

Delete(f) ==
    /\ edits < MaxEdits /\ disk[f] # None
    /\ edits' = edits + 1
    /\ disk' = [disk EXCEPT ![f] = None]
    /\ promised' = [promised EXCEPT ![f] = {}]
    /\ UNCHANGED <<manifest, baseline, project, changes, run, commands, overlap, approved, raced, settled>>

(* The author throws a manifest away that does not parse.                  *)
Repair ==
    /\ manifest = Corrupt
    /\ manifest' = NoRecords
    /\ UNCHANGED <<disk, baseline, author, run, commands, overlap, history>>

Change(q) ==
    /\ changes < MaxChanges /\ q # project
    /\ changes' = changes + 1
    /\ project' = q
    /\ UNCHANGED <<files, run, commands, edits, overlap, history>>

Next ==
    \/ \E p \in Proc, b \in BOOLEAN : StartInit(p, b) \/ StartAdopt(p, b)
    \/ \E p \in Proc, b, c \in BOOLEAN : StartEmit(p, b, c)
    \/ \E p \in Proc, e \in Evidence, b \in BOOLEAN : StartSync(p, e, b)
    \/ \E p \in Proc, f \in File : Read(p, f) \/ Record(p, f)
    \/ \E p \in Proc : \/ Write(p) \/ AdoptFile(p) \/ StoreFingerprint(p) \/ LoadManifest(p)
                       \/ SaveManifest(p) \/ Finish(p) \/ ApplyDriftFix(p) \/ StoreSynced(p) \/ Kill(p)
    \/ \E f \in File, t \in Text, where \in {"plain", "kept", "nested"} : AddText(f, t, where)
    \/ \E f \in File : Delete(f)
    \/ Repair
    \/ \E q \in Project : Change(q)

Spec == Init /\ [][Next]_vars

-----------------------------------------------------------------------------
(* Every file, record and command is of the kind its variable is for.      *)
Manifest == [File -> Entry \cup {None}]
Command ==
    [kind : {"none", "init", "emit", "adopt", "sync"},
     pc : {"idle", "next", "write", "load", "record", "apply", "store"},
     option : BOOLEAN, seen : Project \cup {None}, todo : SUBSET File, at : File \cup {None},
     buf : Content \cup {None}, new : [File -> Content \cup {None}], mem : Manifest,
     written : SUBSET File]
TypeOK ==
    /\ disk \in [File -> Content \cup {None}]
    /\ manifest \in Manifest \cup {Corrupt}
    /\ baseline \in Project \cup {None} /\ project \in Project
    /\ run \in [Proc -> Command]
    /\ commands \in 0..MaxCommands /\ edits \in 0..MaxEdits /\ changes \in 0..MaxChanges
    /\ overlap \in BOOLEAN /\ settled \in BOOLEAN
    /\ promised \in [File -> SUBSET (Text \cup Form)]
    /\ approved \in [File -> SUBSET (Text \cup Form)]
    /\ raced \in [File -> SUBSET Text]

(* Text in a preserve block outlives every command, with --force and in    *)
(* any interleaving, if no write to its file was under way when it came    *)
(* into the block (merger.ts, writer.ts, adopt --wrap).                    *)
PreserveKept == \A f \in File : disk[f] # None => promised[f] \subseteq disk[f].kept

(* A file whose status is managed holds no text of the author's outside    *)
(* its preserve blocks but text handed to adopt or to emit, or written     *)
(* while init or emit was between writing the file and reading it back:    *)
(* an edit is never taken for bp's own (manifest.ts, classifyFile).        *)
ManagedIsOurs ==
    manifest # Corrupt =>
        \A f \in File : classifyFile(manifest, f, disk[f]) = "managed" =>
            disk[f].plain \cup disk[f].nested \subseteq approved[f] \cup raced[f]

(* Commands that never overlapped lose no record: only a manifest that was *)
(* cut short and thrown away, or two commands at a time, untrack a file.   *)
RecordsKept ==
    [][(~overlap' /\ manifest # Corrupt /\ manifest' # Corrupt) =>
        \A f \in File : manifest[f] # None => manifest'[f] # None]_vars

(* After an init that ended, a file with markers that it rendered and that *)
(* does not fit the project there is now is reported as drift, until sync  *)
(* takes the new project for granted: nothing that the last init wrote     *)
(* goes stale unseen (templater/index.ts, drift.ts).                       *)
Stale(f) ==
    /\ disk[f] # None /\ disk[f].marks /\ disk[f].form \in Project
    /\ \E field \in Compared : Facts[disk[f].form][field] # Facts[project][field]
DriftSeen ==
    (settled /\ ~overlap /\ \A p \in Proc : ~Running(p)) =>
        \A f \in Rendered(baseline) \ Ignored :
            Stale(f) => \A e \in Evidence : validateDrift(baseline, project, e) # {}
=============================================================================
