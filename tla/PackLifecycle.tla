---------------------------- MODULE PackLifecycle ----------------------------
(***************************************************************************)
(* The life of a rule or skill pack in a project: `bp rule pack:install`,  *)
(* `pack:install --force` and `pack:remove` (packs/materialize.ts over      *)
(* templater/writer.ts and templater/merger.ts), run by processes that      *)
(* share the project directory and the lockfile .bp/packs.lock.json with    *)
(* each other and with the user's editor, and that may be killed anywhere.  *)
(*                                                                         *)
(* Every read and every write of a shared file is a step of its own.  A     *)
(* path stands for the generated file of one pack item; two packs may share *)
(* a path, because the file name pack-<packId>-<itemId>.md does not say     *)
(* where the pack id ends.                                                  *)
(***************************************************************************)
EXTENDS Naturals

CONSTANTS
    Proc,        \* bp processes working in the project
    Pack,        \* pack ids
    Version,     \* pack versions
    Path,        \* generated files
    Targets,     \* Targets[<<k, v>>]: the files that version v of pack k renders
    Ignored,     \* paths matched by .blueprintignore
    None,        \* no file, no owning pack, no lock entry, no recorded hash
    Corrupt,     \* a lockfile that does not parse
    Interleave,  \* FALSE: commands and edits only happen one at a time
    MaxEdits,    \* bound on the user's actions
    MaxCrashes   \* bound on the kills

\* The text of a file's governed part: what some version renders, or else.
Edited == "edited"

\* Where the user's bp:preserve block stands: nowhere, after the generated
\* block, or between its begin and end markers.
Keep == {"none", "tail", "inside"}

Content == [owner : Pack \union {None}, text : Version \union {Edited}, keep : Keep]

\* governedContentHash, taken to be injective.  The regular expression cuts the
\* preserve blocks out and trim() only cleans the two ends, so a block inside
\* the generated part leaves its line break behind and changes the hash.
Hash(c) == [owner |-> c.owner, text |-> c.text, gap |-> c.keep = "inside"]

Hashes == [owner : Pack \union {None}, text : Version \union {Edited}, gap : BOOLEAN]

\* A lock entry: the version, and the hash of each file it tracks.
Entry == [version : Version, files : [Path -> Hashes \union {None}]]

Lock == [Pack -> Entry \union {None}]

Job == [pack : Pack, version : Version, force : BOOLEAN]

ASSUME ConstantsAssumption ==
    /\ Pack # {} /\ Version # {} /\ Path # {}
    /\ Targets \in [Pack \X Version -> SUBSET Path]
    /\ Ignored \subseteq Path
    /\ Edited \notin Version
    /\ None \notin Pack /\ None \notin Content /\ None \notin Hashes
    /\ None \notin Entry
    /\ Corrupt \notin Lock
    /\ Interleave \in BOOLEAN
    /\ MaxEdits \in Nat /\ MaxCrashes \in Nat

VARIABLES
    disk,     \* content of every path
    lock,     \* the lockfile: an entry or None for every pack, or Corrupt
    pc,       \* where each process stands
    job,      \* the command it runs
    todo,     \* the files its current loop has still to visit
    cur,      \* the file it is writing
    view,     \* what it last read of each file
    draft,    \* the content it is about to write
    snap,     \* the lockfile as it read it
    edits,    \* user actions so far
    crashes   \* kills so far

vars == <<disk, lock, pc, job, todo, cur, view, draft, snap, edits, crashes>>

-----------------------------------------------------------------------------
\* renderRuleFile, renderSkillFile: the pack id and version are in the
\* frontmatter, so two versions never render the same bytes.
Rendered(k, v) == [owner |-> k, text |-> v, keep |-> "none"]

\* isOwnedByPack: the frontmatter of a file that exists names pack k.
IsOwnedByPack(c, k) == c # None /\ c.owner = k

\* hasMarkers: generated files and files with a preserve block carry markers.
HasMarkers(c) == c.owner # None \/ c.keep # "none"

\* Mutant of MergeContent: the preserve blocks are not carried over.
MergeContentDropsBlocks(old, new) == new

\* mergeContent: the new content, with the preserve blocks that the parser found
\* outside the generated blocks appended.  A block inside a generated block is
\* swallowed by the scan for that block's end marker.
MergeContent(old, new) ==
    [new EXCEPT !.keep = IF old.keep = "tail" THEN "tail" ELSE "none"]

\* What a kill leaves of a file that fs.writeFile has truncated.
Torn == [owner |-> None, text |-> Edited, keep |-> "none"]

\* The files a lock entry records.
Tracked(entry) == {f \in Path : entry.files[f] # None}

\* A tracked file that still exists and no longer has its recorded hash.
Modified(entry, f, c) == c # None /\ Hash(c) # entry.files[f]

BlankJob  == CHOOSE j \in Job : TRUE
BlankPath == CHOOSE f \in Path : TRUE
BlankView == [f \in Path |-> None]
EmptyLock == [k \in Pack |-> None]

Idle(p) == pc[p] = "idle"

\* A command or an edit may start: always, or only in a quiet project.
MayStart == Interleave \/ \A q \in Proc : Idle(q)

Init ==
    /\ disk = [f \in Path |-> None]
    /\ lock = EmptyLock
    /\ pc = [p \in Proc |-> "idle"]
    /\ job = [p \in Proc |-> BlankJob]
    /\ todo = [p \in Proc |-> {}]
    /\ cur = [p \in Proc |-> BlankPath]
    /\ view = [p \in Proc |-> BlankView]
    /\ draft = [p \in Proc |-> None]
    /\ snap = [p \in Proc |-> EmptyLock]
    /\ edits = 0
    /\ crashes = 0

\* A process ends, by returning, by a thrown error or by a kill.
Finish(p) ==
    /\ pc' = [pc EXCEPT ![p] = "idle"]
    /\ job' = [job EXCEPT ![p] = BlankJob]
    /\ todo' = [todo EXCEPT ![p] = {}]
    /\ cur' = [cur EXCEPT ![p] = BlankPath]
    /\ view' = [view EXCEPT ![p] = BlankView]
    /\ draft' = [draft EXCEPT ![p] = None]
    /\ snap' = [snap EXCEPT ![p] = EmptyLock]

-----------------------------------------------------------------------------
(* pack:install *)

Release(p) == Targets[<<job[p].pack, job[p].version>>]

InstallStart(p, k, v, force) ==
    /\ Idle(p)
    /\ MayStart
    /\ pc' = [pc EXCEPT ![p] = "check"]
    /\ job' = [job EXCEPT ![p] = [pack |-> k, version |-> v, force |-> force]]
    /\ todo' = [todo EXCEPT ![p] = Targets[<<k, v>>]]
    /\ UNCHANGED <<disk, lock, cur, view, draft, snap, edits, crashes>>

\* Mutant of KeepsExisting: --force overwrites whatever is there.
KeepsExistingUnlessForced(p, f) == disk[f] # None /\ ~job[p].force

\* An existing file is kept: always without --force (skipped), and with it when
\* it is not this pack's own (conflicts).
KeepsExisting(p, f) ==
    disk[f] # None /\ (~job[p].force \/ ~IsOwnedByPack(disk[f], job[p].pack))

\* Mutant of KeepExisting: the loop does not move past a kept file.
KeepExistingStuck(p, f) ==
    /\ pc[p] = "check"
    /\ f \in todo[p]
    /\ KeepsExisting(p, f)
    /\ UNCHANGED vars

KeepExisting(p, f) ==
    /\ pc[p] = "check"
    /\ f \in todo[p]
    /\ KeepsExisting(p, f)
    /\ todo' = [todo EXCEPT ![p] = @ \ {f}]
    /\ UNCHANGED <<disk, lock, pc, job, cur, view, draft, snap, edits, crashes>>

\* The item is rendered and handed to the templater's writeFile.
CallWriter(p, f) ==
    /\ pc[p] = "check"
    /\ f \in todo[p]
    /\ ~KeepsExisting(p, f)
    /\ pc' = [pc EXCEPT ![p] = "read"]
    /\ cur' = [cur EXCEPT ![p] = f]
    /\ view' = [view EXCEPT ![p][f] = disk[f]]
    /\ UNCHANGED <<disk, lock, job, todo, draft, snap, edits, crashes>>

\* The bytes the writer decides to write, or None for the action "skipped": the
\* path is ignored, the content is already there, or the file was absent when
\* the caller looked (so neither force nor "overwrite"), has appeared since
\* and carries no markers.
WriterDecision(p) ==
    LET f == cur[p]
        new == Rendered(job[p].pack, job[p].version)
    IN  CASE f \in Ignored -> None
          [] f \notin Ignored /\ disk[f] = None -> new
          [] f \notin Ignored /\ disk[f] # None /\ disk[f] = new -> None
          [] f \notin Ignored /\ disk[f] # None /\ disk[f] # new ->
                IF HasMarkers(disk[f]) THEN MergeContent(disk[f], new)
                ELSE IF view[p][f] # None THEN new ELSE None

WriterRead(p) ==
    /\ pc[p] = "read"
    /\ draft' = [draft EXCEPT ![p] = WriterDecision(p)]
    /\ pc' = [pc EXCEPT ![p] = "write"]
    /\ UNCHANGED <<disk, lock, job, todo, cur, view, snap, edits, crashes>>

WriterWrite(p) ==
    /\ pc[p] = "write"
    /\ disk' = IF draft[p] = None THEN disk ELSE [disk EXCEPT ![cur[p]] = draft[p]]
    /\ pc' = [pc EXCEPT ![p] = "check"]
    /\ todo' = [todo EXCEPT ![p] = @ \ {cur[p]}]
    /\ cur' = [cur EXCEPT ![p] = BlankPath]
    /\ view' = [view EXCEPT ![p] = BlankView]
    /\ draft' = [draft EXCEPT ![p] = None]
    /\ UNCHANGED <<lock, job, snap, edits, crashes>>

\* All items visited: start recording what is on disk.
RecordStart(p) ==
    /\ pc[p] = "check"
    /\ todo[p] = {}
    /\ pc' = [pc EXCEPT ![p] = "record"]
    /\ todo' = [todo EXCEPT ![p] = Release(p)]
    /\ UNCHANGED <<disk, lock, job, cur, view, draft, snap, edits, crashes>>

RecordFile(p, f) ==
    /\ pc[p] = "record"
    /\ f \in todo[p]
    /\ view' = [view EXCEPT ![p][f] = disk[f]]
    /\ todo' = [todo EXCEPT ![p] = @ \ {f}]
    /\ UNCHANGED <<disk, lock, pc, job, cur, draft, snap, edits, crashes>>

\* Inside savePackLock.
Saving(p) == pc[p] = "save" \/ (pc[p] = "unlink" /\ todo[p] = {})

\* loadPackLock: a lockfile that does not parse ends the command here, with its
\* files already written.  Another process in the middle of savePackLock shows
\* this one a truncated file.
LockUnreadable(p) ==
    \/ lock = Corrupt
    \/ \E q \in Proc \ {p} : Saving(q)

\* Mutant of InstallLoadLock: a corrupt lockfile is taken as it is.
InstallLoadLockUnparsed(p) ==
    /\ pc[p] = "record"
    /\ todo[p] = {}
    /\ pc' = [pc EXCEPT ![p] = "save"]
    /\ snap' = [snap EXCEPT ![p] = lock]
    /\ UNCHANGED <<disk, lock, job, todo, cur, view, draft, edits, crashes>>

InstallLoadLock(p) ==
    /\ pc[p] = "record"
    /\ todo[p] = {}
    /\ lock # Corrupt
    /\ pc' = [pc EXCEPT ![p] = "save"]
    /\ snap' = [snap EXCEPT ![p] = lock]
    /\ UNCHANGED <<disk, lock, job, todo, cur, view, draft, edits, crashes>>

InstallLockFails(p) ==
    /\ pc[p] = "record"
    /\ todo[p] = {}
    /\ LockUnreadable(p)
    /\ Finish(p)
    /\ UNCHANGED <<disk, lock, edits, crashes>>

\* Mutant of NewEntry: every file of the release is recorded, owned or not.
NewEntryUnowned(p) ==
    [version |-> job[p].version,
     files |-> [f \in Path |->
        IF f \in Release(p) /\ view[p][f] # None THEN Hash(view[p][f]) ELSE None]]

\* Mutant of NewEntry: the hash of what was rendered, not of what is on disk.
NewEntryRendered(p) ==
    [version |-> job[p].version,
     files |-> [f \in Path |->
        IF f \in Release(p) /\ IsOwnedByPack(view[p][f], job[p].pack)
        THEN Hash(Rendered(job[p].pack, job[p].version)) ELSE None]]

\* Files on disk that belong to the pack, written or kept, with their hashes.
NewEntry(p) ==
    [version |-> job[p].version,
     files |-> [f \in Path |->
        IF f \in Release(p) /\ IsOwnedByPack(view[p][f], job[p].pack)
        THEN Hash(view[p][f]) ELSE None]]

\* Mutant of InstallSave: the other packs' entries are not carried over.
InstallSaveAlone(p) ==
    /\ pc[p] = "save"
    /\ lock' = [EmptyLock EXCEPT ![job[p].pack] = NewEntry(p)]
    /\ Finish(p)
    /\ UNCHANGED <<disk, edits, crashes>>

InstallSave(p) ==
    /\ pc[p] = "save"
    /\ lock' = [snap[p] EXCEPT ![job[p].pack] = NewEntry(p)]
    /\ Finish(p)
    /\ UNCHANGED <<disk, edits, crashes>>

-----------------------------------------------------------------------------
(* pack:remove *)

\* A corrupt lockfile or a pack that is not in it ends the command at once.
RemoveStart(p, k, force) ==
    /\ Idle(p)
    /\ MayStart
    /\ lock # Corrupt
    /\ lock[k] # None
    /\ pc' = [pc EXCEPT ![p] = "judge"]
    /\ job' = [job EXCEPT ![p] =
                 [pack |-> k, version |-> lock[k].version, force |-> force]]
    /\ snap' = [snap EXCEPT ![p] = lock]
    /\ todo' = [todo EXCEPT ![p] = Tracked(lock[k])]
    /\ UNCHANGED <<disk, lock, cur, view, draft, edits, crashes>>

\* The tracked files are read in parallel.
JudgeFile(p, f) ==
    /\ pc[p] = "judge"
    /\ f \in todo[p]
    /\ view' = [view EXCEPT ![p][f] = disk[f]]
    /\ todo' = [todo EXCEPT ![p] = @ \ {f}]
    /\ UNCHANGED <<disk, lock, pc, job, cur, draft, snap, edits, crashes>>

SnapEntry(p) == snap[p][job[p].pack]

\* Mutant of SomeModified: every file has to be an edited one.
AllModified(p) ==
    \A f \in Tracked(SnapEntry(p)) : Modified(SnapEntry(p), f, view[p][f])

\* Mutant of SomeModified: never, as if the check were left out.
NothingModified(p) == FALSE

SomeModified(p) ==
    \E f \in Tracked(SnapEntry(p)) : Modified(SnapEntry(p), f, view[p][f])

\* PACK_FILE_MODIFIED: nothing has been deleted yet.
RemoveRefuse(p) ==
    /\ pc[p] = "judge"
    /\ todo[p] = {}
    /\ SomeModified(p) /\ ~job[p].force
    /\ Finish(p)
    /\ UNCHANGED <<disk, lock, edits, crashes>>

RemoveProceed(p) ==
    /\ pc[p] = "judge"
    /\ todo[p] = {}
    /\ ~SomeModified(p) \/ job[p].force
    /\ pc' = [pc EXCEPT ![p] = "unlink"]
    /\ todo' = [todo EXCEPT ![p] =
                  {f \in Tracked(SnapEntry(p)) : view[p][f] # None}]
    /\ UNCHANGED <<disk, lock, job, cur, view, draft, snap, edits, crashes>>

UnlinkFile(p, f) ==
    /\ pc[p] = "unlink"
    /\ f \in todo[p]
    /\ disk[f] # None
    /\ disk' = [disk EXCEPT ![f] = None]
    /\ todo' = [todo EXCEPT ![p] = @ \ {f}]
    /\ UNCHANGED <<lock, pc, job, cur, view, draft, snap, edits, crashes>>

\* The file was there when it was judged and is gone: unlink rejects, and the
\* command ends without saving the lockfile.
UnlinkFails(p, f) ==
    /\ pc[p] = "unlink"
    /\ f \in todo[p]
    /\ disk[f] = None
    /\ Finish(p)
    /\ UNCHANGED <<disk, lock, edits, crashes>>

\* The lockfile written back is the one read before the first file was judged.
RemoveSave(p) ==
    /\ pc[p] = "unlink"
    /\ todo[p] = {}
    /\ lock' = [snap[p] EXCEPT ![job[p].pack] = None]
    /\ Finish(p)
    /\ UNCHANGED <<disk, edits, crashes>>

-----------------------------------------------------------------------------
(* The user and the machine *)

UserActs ==
    /\ MayStart
    /\ edits < MaxEdits
    /\ edits' = edits + 1
    /\ UNCHANGED <<pc, job, todo, cur, view, draft, snap, crashes>>

\* Change the governed part of a file.
EditText(f) ==
    /\ UserActs
    /\ disk[f] # None
    /\ disk[f].text # Edited
    /\ disk' = [disk EXCEPT ![f].text = Edited]
    /\ UNCHANGED lock

\* Type a preserve block; only a generated file has a generated block to type
\* it into.
AddPreserve(f, place) ==
    /\ UserActs
    /\ disk[f] # None
    /\ disk[f].keep = "none"
    /\ place = "tail" \/ disk[f].owner # None
    /\ disk' = [disk EXCEPT ![f].keep = place]
    /\ UNCHANGED lock

\* Put a hand-written file, with no pack frontmatter, at the path.
HandWrite(f) ==
    /\ UserActs
    /\ disk[f] # Torn
    /\ disk' = [disk EXCEPT ![f] = Torn]
    /\ UNCHANGED lock

DeleteFile(f) ==
    /\ UserActs
    /\ disk[f] # None
    /\ disk' = [disk EXCEPT ![f] = None]
    /\ UNCHANGED lock

\* The resolution PACK_LOCK_INVALID names: delete the lockfile.
DeleteLock ==
    /\ UserActs
    /\ lock # EmptyLock
    /\ lock' = EmptyLock
    /\ UNCHANGED disk

\* A kill: a file or the lockfile may be left truncated when its write is under
\* way.
Crash(p) ==
    /\ ~Idle(p)
    /\ crashes < MaxCrashes
    /\ crashes' = crashes + 1
    /\ \/ UNCHANGED <<disk, lock>>
       \/ /\ pc[p] = "write" /\ draft[p] # None
          /\ disk' = [disk EXCEPT ![cur[p]] = Torn]
          /\ UNCHANGED lock
       \/ /\ Saving(p)
          /\ lock' = Corrupt
          /\ UNCHANGED disk
    /\ Finish(p)
    /\ UNCHANGED edits

-----------------------------------------------------------------------------
Install(p) ==
    \/ \E f \in Path : KeepExisting(p, f) \/ CallWriter(p, f) \/ RecordFile(p, f)
    \/ WriterRead(p) \/ WriterWrite(p)
    \/ RecordStart(p) \/ InstallLoadLock(p) \/ InstallLockFails(p) \/ InstallSave(p)

Remove(p) ==
    \/ \E f \in Path : JudgeFile(p, f) \/ UnlinkFile(p, f) \/ UnlinkFails(p, f)
    \/ RemoveRefuse(p) \/ RemoveProceed(p) \/ RemoveSave(p)

Start(p) ==
    \E k \in Pack, force \in BOOLEAN :
        \/ \E v \in Version : InstallStart(p, k, v, force)
        \/ RemoveStart(p, k, force)

User ==
    \/ \E f \in Path :
        \/ EditText(f) \/ HandWrite(f) \/ DeleteFile(f)
        \/ \E place \in {"tail", "inside"} : AddPreserve(f, place)
    \/ DeleteLock

Next ==
    \/ \E p \in Proc : Start(p) \/ Install(p) \/ Remove(p) \/ Crash(p)
    \/ User

Spec == Init /\ [][Next]_vars

\* A started command runs until it returns or throws.
FairSpec == Spec /\ \A p \in Proc : WF_vars(Install(p) \/ Remove(p))
-----------------------------------------------------------------------------
(* Properties *)

\* A step of a command, as opposed to a user action or a kill.
CommandStep == edits' = edits /\ crashes' = crashes

Steps == {"idle", "check", "read", "write", "record", "save", "judge", "unlink"}

\* Every variable keeps its shape; a command past loadPackLock holds the
\* lockfile it loaded, and removePack holds an entry for its pack.
TypeOK ==
    /\ disk \in [Path -> Content \union {None}]
    /\ lock \in Lock \union {Corrupt}
    /\ pc \in [Proc -> Steps]
    /\ job \in [Proc -> Job]
    /\ todo \in [Proc -> SUBSET Path]
    /\ cur \in [Proc -> Path]
    /\ view \in [Proc -> [Path -> Content \union {None}]]
    /\ draft \in [Proc -> Content \union {None}]
    /\ snap \in [Proc -> Lock]
    /\ edits \in 0 .. MaxEdits
    /\ crashes \in 0 .. MaxCrashes

\* An entry of pack k names only files that its version renders, with hashes
\* taken of content whose frontmatter named k: whatever other processes, the
\* user and kills do, installPackToProject never enters a foreign or
\* hand-written file into the lockfile.
EntryTracksOwn(entry, k) ==
    \A f \in Tracked(entry) :
        f \in Targets[<<k, entry.version>>] /\ entry.files[f].owner = k

LockTracksOwn ==
    lock # Corrupt => \A k \in Pack : lock[k] # None => EntryTracksOwn(lock[k], k)

\* Without --force, removePack goes on to delete only files that carried its
\* pack's id and the recorded hash when it judged them.
RemoveJudgesOwn ==
    \A p \in Proc : pc[p] = "unlink" /\ ~job[p].force =>
        \A f \in todo[p] : /\ IsOwnedByPack(view[p][f], job[p].pack)
                           /\ ~Modified(SnapEntry(p), f, view[p][f])

\* LockSound: what the lockfile tracks was the pack's own, and so is what a
\* remove without --force goes on to delete, under any interleaving of commands
\* and edits (materialize.ts:281-343 and 377-413).
LockSound == LockTracksOwn /\ RemoveJudgesOwn

\* In a quiet project no command changes or deletes an existing file that is
\* not its own pack's, except a forced remove of a path its entry tracks: what
\* --force "never touches others" promises, between the check that
\* installPackToProject makes and the write that the templater makes later.
TouchesOnlyItsOwn ==
    CommandStep =>
        \A f \in Path : disk[f] # None /\ disk'[f] # disk[f] =>
            \E p \in Proc :
                \/ ~Idle(p) /\ IsOwnedByPack(disk[f], job[p].pack)
                \/ pc[p] = "unlink" /\ job[p].force /\ f \in Tracked(SnapEntry(p))

ForeignUntouched == [][TouchesOnlyItsOwn]_vars

\* In a quiet project a preserve block after the generated block outlives every
\* install and upgrade, through the check, the writer's re-read and the merge;
\* only removePack, deleting the file, takes it away.
TailPreserveSurvives ==
    [][CommandStep =>
        \A f \in Path : disk[f] # None /\ disk[f].keep = "tail" =>
            \/ disk'[f] = None /\ \E p \in Proc : pc[p] = "unlink"
            \/ disk'[f] # None /\ disk'[f].keep = "tail"]_vars

\* In a quiet project a remove without --force is all or nothing: once it has
\* started deleting, no file of the entry is an edited one.
NoPartialRefusal ==
    \A p \in Proc : pc[p] = "unlink" /\ ~job[p].force =>
        \A f \in Tracked(SnapEntry(p)) : ~Modified(SnapEntry(p), f, disk[f])

\* auditPackIntegrity: what `bp verify` says of an installed pack; one missing
\* file outweighs any number of modified ones.
Integrity(k) ==
    LET entry == lock[k]
    IN  IF \E f \in Tracked(entry) : disk[f] = None THEN "missing"
        ELSE IF \E f \in Tracked(entry) : Modified(entry, f, disk[f]) THEN "modified"
        ELSE "ok"

\* In a quiet project the entry an install commits describes the disk exactly:
\* every file of the release that carries the pack's id, with its present hash,
\* and no other, so that `bp verify` finds the pack intact; and after --force
\* each of those files is the new version's.
CommitDescribesDisk ==
    [][\A p \in Proc, k \in Pack :
        pc[p] = "save" /\ job[p].pack = k /\ pc'[p] = "idle" /\ CommandStep =>
            /\ Integrity(k)' = "ok"
            /\ Tracked(lock'[k]) = {f \in Release(p) : IsOwnedByPack(disk[f], k)}
            /\ job[p].force => \A f \in Tracked(lock'[k]) \ Ignored :
                                  Hash(disk[f]) = Hash(Rendered(k, job[p].version))]_vars

\* In a quiet project a lock entry changes only by a command on that pack, by a
\* torn write of the whole file or by the user: the others are carried over.
OtherEntriesKept ==
    [][CommandStep /\ lock # Corrupt =>
        \A k \in Pack : lock'[k] # lock[k] =>
            \E p \in Proc : ~Idle(p) /\ job[p].pack = k]_vars

\* EntriesFaithful: in a quiet project the lockfile follows the commands: an
\* install leaves its own entry as the disk is and every other as it was, and
\* the entries stay sound over kills and between packs that share a path
\* (materialize.ts:305-344).
EntriesFaithful == []LockSound /\ CommitDescribesDisk /\ OtherEntriesKept

\* A command that has started returns or throws, whatever the others do to the
\* files it is working on.
CommandsEnd == \A p \in Proc : ~Idle(p) ~> Idle(p)

-----------------------------------------------------------------------------
(* What the documentation says and the code does not do *)

\* docs/rule-packs.md: "Any other edit is flagged as PACK_FILE_MODIFIED".
Flagged(k, f) ==
    /\ lock # Corrupt
    /\ lock[k] # None
    /\ f \in Tracked(lock[k])
    /\ Modified(lock[k], f, disk[f])

EditStaysFlagged ==
    [][CommandStep =>
        \A k \in Pack, f \in Path :
            Flagged(k, f) /\ IsOwnedByPack(disk[f], k) /\ disk'[f] = disk[f] =>
            \/ Flagged(k, f)'
            \/ \E p \in Proc : job[p].force \/ pc[p] = "unlink"]_vars

\* docs/rule-packs.md: additions inside a preserve block "survive re-installs".
EveryPreserveSurvives ==
    [][CommandStep =>
        \A f \in Path : disk[f] # None /\ disk[f].keep # "none" =>
            disk'[f] = None \/ disk'[f].keep # "none"]_vars

\* cli/commands/rule.ts: "Remove a pack's generated rule files and lockfile entry".
RemoveLeavesNoFile ==
    [][\A p \in Proc : Saving(p) /\ pc[p] = "unlink" /\ pc'[p] = "idle" /\ CommandStep =>
        \A f \in Path : ~IsOwnedByPack(disk'[f], job[p].pack)]_vars

\* docs/nfrs.md: "File writes use temp-file-then-rename where supported to prevent
\* partial writes", so that no kill leaves a lockfile that does not parse.
LockAlwaysParses == lock # Corrupt
=============================================================================
