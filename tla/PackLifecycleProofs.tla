------------------------- MODULE PackLifecycleProofs -------------------------
(***************************************************************************)
(* Proofs about PackLifecycle, for any set of processes, packs, versions   *)
(* and paths, any assignment of files to releases and any number of user    *)
(* actions and kills.                                                       *)
(***************************************************************************)
EXTENDS PackLifecycle, TLAPS

\* The blank values of an idle process have the right types.
LEMMA BlankTypes ==
    /\ BlankJob \in Job
    /\ BlankPath \in Path
    /\ BlankView \in [Path -> Content \union {None}]
    /\ EmptyLock \in Lock
<1>1. \E j : j \in Job
  <2>1. PICK k \in Pack, v \in Version : TRUE
    BY ConstantsAssumption
  <2>2. [pack |-> k, version |-> v, force |-> FALSE] \in Job
    BY <2>1 DEF Job
  <2> QED
    BY <2>2
<1>2. BlankJob \in Job
  BY <1>1 DEF BlankJob
<1>3. BlankPath \in Path
  BY ConstantsAssumption DEF BlankPath
<1> QED
  BY <1>2, <1>3 DEF BlankView, EmptyLock, Lock

\* What a pack renders, and what the merge of it with a file's preserve blocks
\* gives, is file content.
LEMMA ContentTypes ==
    /\ \A k \in Pack, v \in Version : Rendered(k, v) \in Content
    /\ \A old \in Content, new \in Content : MergeContent(old, new) \in Content
    /\ \A c \in Content : Hash(c) \in Hashes
    /\ Torn \in Content
BY DEF Rendered, Content, MergeContent, Hash, Hashes, Torn, Keep

\* Ending a process keeps the types of the variables it resets.
LEMMA FinishTypes ==
    ASSUME TypeOK, NEW p \in Proc, Finish(p)
    PROVE  /\ pc' \in [Proc -> Steps]
           /\ job' \in [Proc -> Job]
           /\ todo' \in [Proc -> SUBSET Path]
           /\ cur' \in [Proc -> Path]
           /\ view' \in [Proc -> [Path -> Content \union {None}]]
           /\ draft' \in [Proc -> Content \union {None}]
           /\ snap' \in [Proc -> Lock]
BY BlankTypes DEF TypeOK, Finish, Steps

\* Setting one file in what a process has read keeps the type.
LEMMA ViewType ==
    ASSUME TypeOK, NEW p \in Proc, NEW f \in Path
    PROVE  [view EXCEPT ![p][f] = disk[f]] \in [Proc -> [Path -> Content \union {None}]]
BY DEF TypeOK

LEMMA DecisionType ==
    ASSUME TypeOK, NEW p \in Proc
    PROVE  WriterDecision(p) \in Content \union {None}
<1> DEFINE new == Rendered(job[p].pack, job[p].version)
<1>1. new \in Content
  BY ContentTypes DEF TypeOK, Job
<1>2. disk[cur[p]] \in Content \union {None}
  BY DEF TypeOK
<1>3. disk[cur[p]] # None => MergeContent(disk[cur[p]], new) \in Content
  BY <1>1, <1>2, ContentTypes
<1> HIDE DEF new
<1>4. WriterDecision(p) \in {None, new} \/
        (disk[cur[p]] # None /\ WriterDecision(p) = MergeContent(disk[cur[p]], new))
  BY DEF WriterDecision, new
<1> QED
  BY <1>1, <1>3, <1>4

LEMMA NewEntryType ==
    ASSUME TypeOK, NEW p \in Proc
    PROVE  NewEntry(p) \in Entry
BY ContentTypes DEF TypeOK, NewEntry, Entry, IsOwnedByPack, Job

LEMMA InitTypeOK == Init => TypeOK
BY BlankTypes, ConstantsAssumption DEF Init, TypeOK, Steps

LEMMA StartTypeOK == ASSUME TypeOK, NEW p \in Proc, Start(p) PROVE TypeOK'
<1>1. ASSUME NEW k \in Pack, NEW v \in Version, NEW force \in BOOLEAN,
             InstallStart(p, k, v, force)
      PROVE  TypeOK'
  BY <1>1, ConstantsAssumption DEF InstallStart, TypeOK, Steps, Job
<1>2. ASSUME NEW k \in Pack, NEW force \in BOOLEAN, RemoveStart(p, k, force)
      PROVE  TypeOK'
  <2>1. lock \in Lock /\ lock[k] \in Entry
    BY <1>2 DEF RemoveStart, TypeOK, Lock
  <2>2. lock[k].version \in Version /\ Tracked(lock[k]) \subseteq Path
    BY <2>1 DEF Entry, Tracked
  <2> QED
    BY <1>2, <2>1, <2>2 DEF RemoveStart, TypeOK, Steps, Job
<1> QED
  BY <1>1, <1>2 DEF Start

LEMMA InstallTypeOK == ASSUME TypeOK, NEW p \in Proc, Install(p) PROVE TypeOK'
<1>1. ASSUME NEW f \in Path, KeepExisting(p, f) PROVE TypeOK'
  BY <1>1 DEF KeepExisting, TypeOK
<1>2. ASSUME NEW f \in Path, CallWriter(p, f) PROVE TypeOK'
  BY <1>2, ViewType DEF CallWriter, TypeOK, Steps
<1>3. ASSUME NEW f \in Path, RecordFile(p, f) PROVE TypeOK'
  BY <1>3, ViewType DEF RecordFile, TypeOK
<1>4. CASE WriterRead(p)
  BY <1>4, DecisionType DEF WriterRead, TypeOK, Steps
<1>5. CASE WriterWrite(p)
  BY <1>5, BlankTypes DEF WriterWrite, TypeOK, Steps
<1>6. CASE RecordStart(p)
  <2>1. Release(p) \subseteq Path
    BY ConstantsAssumption DEF Release, TypeOK, Job
  <2> QED
    BY <1>6, <2>1 DEF RecordStart, TypeOK, Steps
<1>7. CASE InstallLoadLock(p)
  BY <1>7 DEF InstallLoadLock, TypeOK, Steps
<1>8. CASE InstallLockFails(p)
  BY <1>8, FinishTypes DEF InstallLockFails, TypeOK
<1>9. CASE InstallSave(p)
  <2>1. lock' \in Lock
    BY <1>9, NewEntryType DEF InstallSave, TypeOK, Lock, Job
  <2> QED
    BY <1>9, <2>1, FinishTypes DEF InstallSave, TypeOK
<1> QED
  BY <1>1, <1>2, <1>3, <1>4, <1>5, <1>6, <1>7, <1>8, <1>9 DEF Install

LEMMA RemoveTypeOK == ASSUME TypeOK, NEW p \in Proc, Remove(p) PROVE TypeOK'
<1>1. ASSUME NEW f \in Path, JudgeFile(p, f) PROVE TypeOK'
  BY <1>1, ViewType DEF JudgeFile, TypeOK
<1>2. ASSUME NEW f \in Path, UnlinkFile(p, f) PROVE TypeOK'
  BY <1>2 DEF UnlinkFile, TypeOK
<1>3. ASSUME NEW f \in Path, UnlinkFails(p, f) PROVE TypeOK'
  BY <1>3, FinishTypes DEF UnlinkFails, TypeOK
<1>4. CASE RemoveRefuse(p)
  BY <1>4, FinishTypes DEF RemoveRefuse, TypeOK
<1>5. CASE RemoveProceed(p)
  BY <1>5 DEF RemoveProceed, TypeOK, Steps, Tracked
<1>6. CASE RemoveSave(p)
  <2>1. lock' \in Lock
    BY <1>6 DEF RemoveSave, TypeOK, Lock, Job
  <2> QED
    BY <1>6, <2>1, FinishTypes DEF RemoveSave, TypeOK
<1> QED
  BY <1>1, <1>2, <1>3, <1>4, <1>5, <1>6 DEF Remove

LEMMA CrashTypeOK == ASSUME TypeOK, NEW p \in Proc, Crash(p) PROVE TypeOK'
<1>1. crashes' \in 0 .. MaxCrashes
  BY ConstantsAssumption DEF Crash, TypeOK
<1>2. disk' \in [Path -> Content \union {None}] /\ lock' \in Lock \union {Corrupt}
  BY ContentTypes DEF Crash, TypeOK
<1> QED
  BY <1>1, <1>2, FinishTypes DEF Crash, TypeOK

LEMMA UserTypeOK == ASSUME TypeOK, User PROVE TypeOK'
<1>1. edits' \in 0 .. MaxEdits
  BY ConstantsAssumption
  DEF User, EditText, HandWrite, DeleteFile, AddPreserve, DeleteLock, UserActs, TypeOK
<1>2. UNCHANGED <<pc, job, todo, cur, view, draft, snap, crashes>>
  BY DEF User, EditText, HandWrite, DeleteFile, AddPreserve, DeleteLock, UserActs
<1>3. disk' \in [Path -> Content \union {None}] /\ lock' \in Lock \union {Corrupt}
  <2>1. ASSUME NEW f \in Path, EditText(f) PROVE disk' \in [Path -> Content \union {None}]
    <3>1. disk[f] \in Content
      BY <2>1 DEF EditText, TypeOK
    <3>2. [disk[f] EXCEPT !.text = Edited] \in Content
      BY <3>1 DEF Content
    <3> QED
      BY <2>1, <3>2 DEF EditText, TypeOK
  <2>2. ASSUME NEW f \in Path, NEW place \in {"tail", "inside"}, AddPreserve(f, place)
        PROVE  disk' \in [Path -> Content \union {None}]
    <3>1. [disk[f] EXCEPT !.keep = place] \in Content
      BY <2>2 DEF AddPreserve, TypeOK, Content, Keep
    <3> QED
      BY <2>2, <3>1 DEF AddPreserve, TypeOK
  <2>3. ASSUME NEW f \in Path, HandWrite(f) \/ DeleteFile(f)
        PROVE  disk' \in [Path -> Content \union {None}]
    BY <2>3, ContentTypes DEF HandWrite, DeleteFile, TypeOK
  <2>4. ASSUME DeleteLock PROVE lock' \in Lock /\ UNCHANGED disk
    BY <2>4, BlankTypes DEF DeleteLock
  <2>5. ASSUME ~DeleteLock PROVE UNCHANGED lock
    BY <2>5 DEF User, EditText, HandWrite, DeleteFile, AddPreserve
  <2> QED
    BY <2>1, <2>2, <2>3, <2>4, <2>5 DEF User, TypeOK
<1> QED
  BY <1>1, <1>2, <1>3 DEF TypeOK

LEMMA NextTypeOK == TypeOK /\ [Next]_vars => TypeOK'
<1>1. TypeOK /\ UNCHANGED vars => TypeOK'
  BY DEF TypeOK, vars
<1> QED
  BY <1>1, StartTypeOK, InstallTypeOK, RemoveTypeOK, CrashTypeOK, UserTypeOK DEF Next

\* Type correctness: every variable keeps its shape; in particular a command
\* never works on a lockfile that did not parse.
THEOREM TypeCorrect == Spec => []TypeOK
BY InitTypeOK, NextTypeOK, PTL DEF Spec

-----------------------------------------------------------------------------
(***************************************************************************)
(* What the lockfile tracks, under any interleaving.  LockTracksOwn is not *)
(* inductive: a command writes back the lockfile it loaded earlier, so the  *)
(* loaded copies must satisfy it too; and the entry a remove works on must  *)
(* exist, with the files still to delete among those it judged unmodified.  *)
(***************************************************************************)
TracksOwn(l) == \A k \in Pack : l[k] # None => EntryTracksOwn(l[k], k)

Removing(p) == pc[p] \in {"judge", "unlink"}

RemoveWork(p) ==
    /\ Removing(p) => SnapEntry(p) # None
    /\ pc[p] = "judge" => todo[p] \subseteq Tracked(SnapEntry(p))
    /\ pc[p] = "unlink" =>
         /\ todo[p] \subseteq {f \in Tracked(SnapEntry(p)) : view[p][f] # None}
         /\ ~job[p].force => ~SomeModified(p)

OwnInv ==
    /\ TypeOK
    /\ lock # Corrupt => TracksOwn(lock)
    /\ \A p \in Proc : TracksOwn(snap[p])
    /\ \A p \in Proc : RemoveWork(p)

LEMMA EmptyTracksOwn == TracksOwn(EmptyLock)
BY DEF TracksOwn, EmptyLock

\* The entry an install writes tracks only the pack's own files.
LEMMA NewEntryTracksOwn ==
    ASSUME TypeOK, NEW p \in Proc
    PROVE  EntryTracksOwn(NewEntry(p), job[p].pack)
BY ConstantsAssumption, ContentTypes
DEF EntryTracksOwn, Tracked, NewEntry, IsOwnedByPack, Hash, Release

\* Replacing one entry of a lockfile by None or by one that tracks its own files
\* keeps the property.
LEMMA ReplaceEntry ==
    ASSUME NEW l \in Lock, TracksOwn(l), NEW k \in Pack, NEW e,
           e # None => EntryTracksOwn(e, k)
    PROVE  TracksOwn([l EXCEPT ![k] = e])
BY DEF TracksOwn, Lock

\* A process that another one's step leaves alone keeps what it works on.
LEMMA RemoveWorkFrame ==
    ASSUME NEW p \in Proc, RemoveWork(p),
           pc'[p] = pc[p], job'[p] = job[p], todo'[p] = todo[p],
           view'[p] = view[p], snap'[p] = snap[p]
    PROVE  RemoveWork(p)'
BY DEF RemoveWork, Removing, SnapEntry, SomeModified, Tracked

\* A process outside the remove steps has no remove work.
LEMMA NoRemoveWork ==
    ASSUME NEW p \in Proc, ~Removing(p)' PROVE RemoveWork(p)'
BY DEF RemoveWork, Removing

\* A finished process holds nothing.
LEMMA FinishOwn ==
    ASSUME OwnInv, NEW p \in Proc, Finish(p)
    PROVE  /\ \A q \in Proc : TracksOwn(snap'[q])
           /\ \A q \in Proc : RemoveWork(q)'
<1>1. ASSUME NEW q \in Proc PROVE TracksOwn(snap'[q])
  <2>1. snap'[q] = snap[q] \/ snap'[q] = EmptyLock
    BY DEF Finish, OwnInv, TypeOK
  <2> QED
    BY <2>1, EmptyTracksOwn DEF OwnInv
<1>2. ASSUME NEW q \in Proc PROVE RemoveWork(q)'
  <2>1. CASE q = p
    BY <2>1, NoRemoveWork DEF Finish, OwnInv, TypeOK, Removing
  <2>2. CASE q # p
    BY <2>2, RemoveWorkFrame DEF Finish, OwnInv, TypeOK
  <2> QED
    BY <2>1, <2>2
<1> QED
  BY <1>1, <1>2

LEMMA InitOwn == Init => OwnInv
BY InitTypeOK, EmptyTracksOwn DEF Init, OwnInv, RemoveWork, Removing

\* A step of p that leaves the lockfile and every loaded copy alone only has to
\* account for p's own remove work.
LEMMA LocalStepOwn ==
    ASSUME OwnInv, TypeOK', NEW p \in Proc, UNCHANGED <<lock, snap>>,
           \A q \in Proc \ {p} :
              /\ pc'[q] = pc[q] /\ job'[q] = job[q] /\ todo'[q] = todo[q]
              /\ view'[q] = view[q],
           RemoveWork(p)'
    PROVE  OwnInv'
<1>1. ASSUME NEW q \in Proc PROVE RemoveWork(q)'
  BY RemoveWorkFrame DEF OwnInv
<1>2. lock' # Corrupt => TracksOwn(lock')
  BY DEF OwnInv
<1>3. \A q \in Proc : TracksOwn(snap'[q])
  BY DEF OwnInv
<1> QED
  BY <1>1, <1>2, <1>3 DEF OwnInv, TracksOwn

LEMMA StartOwn == ASSUME OwnInv, TypeOK', NEW p \in Proc, Start(p) PROVE OwnInv'
<1>1. ASSUME NEW k \in Pack, NEW v \in Version, NEW force \in BOOLEAN,
             InstallStart(p, k, v, force)
      PROVE  OwnInv'
  <2>1. ~Removing(p)'
    BY <1>1 DEF InstallStart, Removing, OwnInv, TypeOK
  <2>2. RemoveWork(p)'
    BY <2>1, NoRemoveWork
  <2> QED
    BY <1>1, <2>2, LocalStepOwn DEF InstallStart, OwnInv, TypeOK
<1>2. ASSUME NEW k \in Pack, NEW force \in BOOLEAN, RemoveStart(p, k, force)
      PROVE  OwnInv'
  <2>1. /\ pc'[p] = "judge" /\ job'[p].pack = k /\ snap'[p] = lock
        /\ todo'[p] = Tracked(lock[k])
    BY <1>2 DEF RemoveStart, OwnInv, TypeOK
  <2>2. RemoveWork(p)'
    BY <1>2, <2>1 DEF RemoveStart, RemoveWork, Removing, SnapEntry
  <2>3. ASSUME NEW q \in Proc \ {p} PROVE RemoveWork(q)'
    BY <1>2, RemoveWorkFrame DEF RemoveStart, OwnInv, TypeOK
  <2>4. ASSUME NEW q \in Proc PROVE TracksOwn(snap'[q])
    BY <1>2 DEF RemoveStart, OwnInv, TypeOK
  <2>5. lock' = lock
    BY <1>2 DEF RemoveStart
  <2> QED
    BY <2>2, <2>3, <2>4, <2>5 DEF OwnInv, TracksOwn
<1> QED
  BY <1>1, <1>2 DEF Start

LEMMA InstallOwn == ASSUME OwnInv, TypeOK', NEW p \in Proc, Install(p) PROVE OwnInv'
<1> USE DEF OwnInv, TypeOK
<1>1. ASSUME NEW f \in Path, KeepExisting(p, f) PROVE OwnInv'
  <2>1. RemoveWork(p)'
    BY <1>1, NoRemoveWork DEF KeepExisting, Removing
  <2> QED
    BY <1>1, <2>1, LocalStepOwn DEF KeepExisting
<1>2. ASSUME NEW f \in Path, CallWriter(p, f) PROVE OwnInv'
  <2>1. RemoveWork(p)'
    BY <1>2, NoRemoveWork DEF CallWriter, Removing
  <2> QED
    BY <1>2, <2>1, LocalStepOwn DEF CallWriter
<1>3. ASSUME NEW f \in Path, RecordFile(p, f) PROVE OwnInv'
  <2>1. RemoveWork(p)'
    BY <1>3, NoRemoveWork DEF RecordFile, Removing
  <2> QED
    BY <1>3, <2>1, LocalStepOwn DEF RecordFile
<1>4. CASE WriterRead(p)
  <2>1. RemoveWork(p)'
    BY <1>4, NoRemoveWork DEF WriterRead, Removing
  <2> QED
    BY <1>4, <2>1, LocalStepOwn DEF WriterRead
<1>5. CASE WriterWrite(p)
  <2>1. RemoveWork(p)'
    BY <1>5, NoRemoveWork DEF WriterWrite, Removing
  <2> QED
    BY <1>5, <2>1, LocalStepOwn DEF WriterWrite
<1>6. CASE RecordStart(p)
  <2>1. RemoveWork(p)'
    BY <1>6, NoRemoveWork DEF RecordStart, Removing
  <2> QED
    BY <1>6, <2>1, LocalStepOwn DEF RecordStart
<1>7. CASE InstallLoadLock(p)
  <2>1. ASSUME NEW q \in Proc PROVE RemoveWork(q)'
    <3>1. CASE q = p
      BY <1>7, <3>1, NoRemoveWork DEF InstallLoadLock, Removing
    <3>2. CASE q # p
      BY <1>7, <3>2, RemoveWorkFrame DEF InstallLoadLock
    <3> QED
      BY <3>1, <3>2
  <2>2. ASSUME NEW q \in Proc PROVE TracksOwn(snap'[q])
    BY <1>7 DEF InstallLoadLock
  <2>3. lock' = lock
    BY <1>7 DEF InstallLoadLock
  <2> QED
    BY <2>1, <2>2, <2>3 DEF TracksOwn
<1>8. CASE InstallLockFails(p)
  BY <1>8, FinishOwn DEF InstallLockFails, TracksOwn
<1>9. CASE InstallSave(p)
  <2>1. TracksOwn([snap[p] EXCEPT ![job[p].pack] = NewEntry(p)])
    BY NewEntryTracksOwn, ReplaceEntry DEF Job
  <2> QED
    BY <1>9, <2>1, FinishOwn DEF InstallSave, TracksOwn
<1> QED
  BY <1>1, <1>2, <1>3, <1>4, <1>5, <1>6, <1>7, <1>8, <1>9 DEF Install

LEMMA RemoveOwn == ASSUME OwnInv, TypeOK', NEW p \in Proc, Remove(p) PROVE OwnInv'
<1> USE DEF OwnInv, TypeOK
<1>1. ASSUME NEW f \in Path, JudgeFile(p, f) PROVE OwnInv'
  <2>1. RemoveWork(p)'
    BY <1>1 DEF JudgeFile, RemoveWork, Removing, SnapEntry, Tracked
  <2> QED
    BY <1>1, <2>1, LocalStepOwn DEF JudgeFile
<1>2. ASSUME NEW f \in Path, UnlinkFile(p, f) PROVE OwnInv'
  <2>1. RemoveWork(p)'
    BY <1>2 DEF UnlinkFile, RemoveWork, Removing, SnapEntry, SomeModified, Tracked
  <2> QED
    BY <1>2, <2>1, LocalStepOwn DEF UnlinkFile
<1>3. ASSUME NEW f \in Path, UnlinkFails(p, f) PROVE OwnInv'
  BY <1>3, FinishOwn DEF UnlinkFails, TracksOwn
<1>4. CASE RemoveRefuse(p)
  BY <1>4, FinishOwn DEF RemoveRefuse, TracksOwn
<1>5. CASE RemoveProceed(p)
  <2>1. RemoveWork(p)'
    BY <1>5 DEF RemoveProceed, RemoveWork, Removing, SnapEntry, SomeModified, Tracked
  <2> QED
    BY <1>5, <2>1, LocalStepOwn DEF RemoveProceed
<1>6. CASE RemoveSave(p)
  <2>1. TracksOwn([snap[p] EXCEPT ![job[p].pack] = None])
    BY ReplaceEntry DEF Job
  <2> QED
    BY <1>6, <2>1, FinishOwn DEF RemoveSave, TracksOwn
<1> QED
  BY <1>1, <1>2, <1>3, <1>4, <1>5, <1>6 DEF Remove

LEMMA CrashOwn == ASSUME OwnInv, TypeOK', NEW p \in Proc, Crash(p) PROVE OwnInv'
<1>1. Finish(p) /\ (lock' = lock \/ lock' = Corrupt)
  BY DEF Crash
<1> QED
  BY <1>1, FinishOwn DEF OwnInv, TracksOwn

LEMMA UserOwn == ASSUME OwnInv, TypeOK', User PROVE OwnInv'
<1>1. UNCHANGED <<pc, job, todo, view, snap>>
  BY DEF User, EditText, HandWrite, DeleteFile, AddPreserve, DeleteLock, UserActs
<1>2. lock' = lock \/ lock' = EmptyLock
  BY DEF User, EditText, HandWrite, DeleteFile, AddPreserve, DeleteLock
<1>3. \A q \in Proc : RemoveWork(q)'
  BY <1>1, RemoveWorkFrame DEF OwnInv
<1> QED
  BY <1>1, <1>2, <1>3, EmptyTracksOwn DEF OwnInv, TracksOwn

LEMMA NextOwn == OwnInv /\ [Next]_vars => OwnInv'
<1> SUFFICES ASSUME OwnInv, [Next]_vars PROVE OwnInv'
  OBVIOUS
<1>1. TypeOK'
  BY NextTypeOK DEF OwnInv
<1>2. CASE UNCHANGED vars
  <2>1. \A q \in Proc : RemoveWork(q)'
    BY <1>2, RemoveWorkFrame DEF OwnInv, vars
  <2> QED
    BY <1>1, <1>2, <2>1 DEF OwnInv, vars, TracksOwn
<1> QED
  BY <1>1, <1>2, StartOwn, InstallOwn, RemoveOwn, CrashOwn, UserOwn DEF Next

LEMMA OwnInvariant == Spec => []OwnInv
BY InitOwn, NextOwn, PTL DEF Spec

\* Whatever processes, the user and kills do, a lock entry tracks only files of
\* its own pack: a foreign or hand-written file never enters the lockfile.
THEOREM LockSafe == Spec => []LockTracksOwn
<1>1. OwnInv => LockTracksOwn
  BY DEF OwnInv, LockTracksOwn, TracksOwn
<1> QED
  BY <1>1, OwnInvariant, PTL

LEMMA OwnJudged == OwnInv => RemoveJudgesOwn
<1> SUFFICES ASSUME OwnInv, NEW p \in Proc, pc[p] = "unlink", ~job[p].force,
                    NEW f \in todo[p]
             PROVE  /\ IsOwnedByPack(view[p][f], job[p].pack)
                    /\ ~Modified(SnapEntry(p), f, view[p][f])
  BY DEF RemoveJudgesOwn
<1>1. f \in Tracked(SnapEntry(p)) /\ view[p][f] # None
  BY DEF OwnInv, RemoveWork
<1>2. ~Modified(SnapEntry(p), f, view[p][f])
  BY <1>1 DEF OwnInv, RemoveWork, SomeModified
<1>3. EntryTracksOwn(SnapEntry(p), job[p].pack)
  <2>1. job[p].pack \in Pack
    BY DEF OwnInv, TypeOK, Job
  <2>2. SnapEntry(p) # None
    BY DEF OwnInv, RemoveWork, Removing
  <2> QED
    BY <2>1, <2>2 DEF OwnInv, TracksOwn, SnapEntry
<1>4. SnapEntry(p).files[f].owner = job[p].pack
  BY <1>1, <1>3 DEF EntryTracksOwn
<1> QED
  BY <1>1, <1>2, <1>4 DEF Modified, Hash, IsOwnedByPack

\* A remove without --force goes on to delete only files that were its pack's own
\* and unedited when it read them.
THEOREM RemoveSafe == Spec => []RemoveJudgesOwn
BY OwnJudged, OwnInvariant, PTL

-----------------------------------------------------------------------------
(***************************************************************************)
(* A quiet project: commands and edits one at a time.  What a command has   *)
(* read of the disk is then still true when it acts on it, although the     *)
(* code never checks again: that is the strengthening the two properties    *)
(* below need.                                                              *)
(***************************************************************************)
\* What the only active process knows of the disk.
Knows(p) ==
    /\ pc[p] \in {"read", "write"} =>
         disk[cur[p]] = None \/ IsOwnedByPack(disk[cur[p]], job[p].pack)
    /\ pc[p] = "judge" =>
         \A f \in Tracked(SnapEntry(p)) \ todo[p] : view[p][f] = disk[f]
    /\ pc[p] = "unlink" =>
         \A f \in Tracked(SnapEntry(p)) : disk[f] # None => view[p][f] = disk[f]

QuietInv ==
    /\ OwnInv
    /\ \A p, q \in Proc : ~Idle(p) /\ ~Idle(q) => p = q
    /\ \A p \in Proc : Knows(p)

LEMMA IdleKnows == ASSUME NEW p \in Proc, Idle(p)' PROVE Knows(p)'
BY DEF Knows, Idle

\* A step of the active process p leaves the others idle.
LEMMA QuietStep ==
    ASSUME QuietInv, OwnInv', NEW p \in Proc, ~Idle(p),
           \A q \in Proc \ {p} : pc'[q] = pc[q],
           Knows(p)'
    PROVE  QuietInv'
<1>1. ASSUME NEW q \in Proc \ {p} PROVE Idle(q) /\ Idle(q)'
  BY DEF QuietInv, Idle
<1>2. \A q \in Proc : Knows(q)'
  BY <1>1, IdleKnows
<1> QED
  BY <1>1, <1>2 DEF QuietInv

LEMMA QuietFinish ==
    ASSUME QuietInv, OwnInv', NEW p \in Proc, ~Idle(p), Finish(p)
    PROVE  QuietInv'
<1>1. Idle(p)' /\ \A q \in Proc \ {p} : pc'[q] = pc[q]
  BY DEF Finish, Idle, QuietInv, OwnInv, TypeOK
<1> QED
  BY <1>1, IdleKnows, QuietStep

LEMMA QuietStart ==
    ASSUME ~Interleave, QuietInv, OwnInv', NEW p \in Proc, Start(p)
    PROVE  QuietInv'
<1> USE DEF QuietInv, OwnInv, TypeOK
<1>1. \A q \in Proc : Idle(q)
  BY DEF Start, InstallStart, RemoveStart, MayStart
<1>2. \A q \in Proc \ {p} : Idle(q)'
  BY <1>1 DEF Start, InstallStart, RemoveStart, Idle
<1>3. Knows(p)'
  <2>1. ASSUME NEW k \in Pack, NEW v \in Version, NEW force \in BOOLEAN,
               InstallStart(p, k, v, force)
        PROVE  Knows(p)'
    BY <2>1 DEF InstallStart, Knows
  <2>2. ASSUME NEW k \in Pack, NEW force \in BOOLEAN, RemoveStart(p, k, force)
        PROVE  Knows(p)'
    <3>1. pc'[p] = "judge" /\ snap'[p] = lock /\ job'[p].pack = k /\ todo'[p] = Tracked(lock[k])
      BY <2>2 DEF RemoveStart
    <3> QED
      BY <3>1 DEF Knows, SnapEntry, Tracked
  <2> QED
    BY <2>1, <2>2 DEF Start
<1> QED
  BY <1>2, <1>3, IdleKnows

LEMMA QuietInstall ==
    ASSUME QuietInv, OwnInv', NEW p \in Proc, Install(p)
    PROVE  QuietInv'
<1> USE DEF QuietInv, OwnInv, TypeOK
<1>0. ~Idle(p)
  BY DEF Install, KeepExisting, CallWriter, RecordFile, WriterRead, WriterWrite,
         RecordStart, InstallLoadLock, InstallLockFails, InstallSave, Idle
<1>1. ASSUME NEW f \in Path, KeepExisting(p, f) PROVE QuietInv'
  BY <1>0, <1>1, QuietStep DEF KeepExisting, Knows
<1>2. ASSUME NEW f \in Path, CallWriter(p, f) PROVE QuietInv'
  <2>1. Knows(p)'
    BY <1>2 DEF CallWriter, Knows, KeepsExisting, IsOwnedByPack
  <2> QED
    BY <1>0, <1>2, <2>1, QuietStep DEF CallWriter
<1>3. ASSUME NEW f \in Path, RecordFile(p, f) PROVE QuietInv'
  BY <1>0, <1>3, QuietStep DEF RecordFile, Knows
<1>4. CASE WriterRead(p)
  <2>1. Knows(p)'
    BY <1>4 DEF WriterRead, Knows, IsOwnedByPack
  <2> QED
    BY <1>0, <1>4, <2>1, QuietStep DEF WriterRead
<1>5. CASE WriterWrite(p)
  BY <1>0, <1>5, QuietStep DEF WriterWrite, Knows
<1>6. CASE RecordStart(p)
  BY <1>0, <1>6, QuietStep DEF RecordStart, Knows
<1>7. CASE InstallLoadLock(p)
  BY <1>0, <1>7, QuietStep DEF InstallLoadLock, Knows
<1>8. CASE InstallLockFails(p)
  BY <1>0, <1>8, QuietFinish DEF InstallLockFails
<1>9. CASE InstallSave(p)
  BY <1>0, <1>9, QuietFinish DEF InstallSave
<1> QED
  BY <1>1, <1>2, <1>3, <1>4, <1>5, <1>6, <1>7, <1>8, <1>9 DEF Install

LEMMA QuietRemove ==
    ASSUME QuietInv, OwnInv', NEW p \in Proc, Remove(p)
    PROVE  QuietInv'
<1> USE DEF QuietInv, OwnInv, TypeOK
<1>0. ~Idle(p)
  BY DEF Remove, JudgeFile, UnlinkFile, UnlinkFails, RemoveRefuse, RemoveProceed,
         RemoveSave, Idle
<1>1. ASSUME NEW f \in Path, JudgeFile(p, f) PROVE QuietInv'
  <2>1. Knows(p)'
    BY <1>1 DEF JudgeFile, Knows, SnapEntry, Tracked
  <2> QED
    BY <1>0, <1>1, <2>1, QuietStep DEF JudgeFile
<1>2. ASSUME NEW f \in Path, UnlinkFile(p, f) PROVE QuietInv'
  <2>1. Knows(p)'
    BY <1>2 DEF UnlinkFile, Knows, SnapEntry, Tracked
  <2> QED
    BY <1>0, <1>2, <2>1, QuietStep DEF UnlinkFile
<1>3. ASSUME NEW f \in Path, UnlinkFails(p, f) PROVE QuietInv'
  BY <1>0, <1>3, QuietFinish DEF UnlinkFails
<1>4. CASE RemoveRefuse(p)
  BY <1>0, <1>4, QuietFinish DEF RemoveRefuse
<1>5. CASE RemoveProceed(p)
  <2>1. Knows(p)'
    BY <1>5 DEF RemoveProceed, Knows, SnapEntry, Tracked
  <2> QED
    BY <1>0, <1>5, <2>1, QuietStep DEF RemoveProceed
<1>6. CASE RemoveSave(p)
  BY <1>0, <1>6, QuietFinish DEF RemoveSave
<1> QED
  BY <1>1, <1>2, <1>3, <1>4, <1>5, <1>6 DEF Remove

LEMMA QuietNext == ~Interleave /\ QuietInv /\ [Next]_vars => QuietInv'
<1> SUFFICES ASSUME ~Interleave, QuietInv, [Next]_vars PROVE QuietInv'
  OBVIOUS
<1>1. OwnInv'
  BY NextOwn DEF QuietInv
<1>2. CASE UNCHANGED vars
  BY <1>1, <1>2 DEF QuietInv, vars, Knows, SnapEntry, Tracked, Idle
<1>3. CASE User
  <2>1. \A q \in Proc : Idle(q) /\ Idle(q)'
    BY <1>3 DEF User, EditText, HandWrite, DeleteFile, AddPreserve, DeleteLock, UserActs,
                MayStart, Idle
  <2> QED
    BY <1>1, <2>1, IdleKnows DEF QuietInv
<1>4. ASSUME NEW p \in Proc, Crash(p) PROVE QuietInv'
  BY <1>1, <1>4, QuietFinish DEF Crash
<1> QED
  BY <1>1, <1>2, <1>3, <1>4, QuietStart, QuietInstall, QuietRemove DEF Next

LEMMA QuietInvariant == ASSUME ~Interleave PROVE Spec => []QuietInv
<1>1. Init => QuietInv
  BY InitOwn, InitTypeOK DEF Init, QuietInv, Idle, Knows
<1>2. QuietInv /\ [Next]_vars => QuietInv'
  BY QuietNext
<1> QED
  BY <1>1, <1>2, PTL DEF Spec

\* In a quiet project a remove without --force deletes all of the pack's files or
\* none: once it deletes, no file of the entry is an edited one.
THEOREM RemoveAllOrNothing == ASSUME ~Interleave PROVE Spec => []NoPartialRefusal
<1>1. QuietInv => NoPartialRefusal
  BY DEF QuietInv, Knows, OwnInv, RemoveWork, SomeModified, NoPartialRefusal, Modified
<1> QED
  BY <1>1, QuietInvariant, PTL

\* In a quiet project no command changes or deletes an existing file that is not
\* its own pack's, except a forced remove of a path its entry tracks.
THEOREM ForeignSafe == ASSUME ~Interleave PROVE Spec => ForeignUntouched
<1>1. QuietInv /\ [Next]_vars => [TouchesOnlyItsOwn]_vars
  <2> SUFFICES ASSUME QuietInv, Next, CommandStep, NEW f \in Path,
                      disk[f] # None, disk'[f] # disk[f]
               PROVE  \E p \in Proc :
                         \/ ~Idle(p) /\ IsOwnedByPack(disk[f], job[p].pack)
                         \/ pc[p] = "unlink" /\ job[p].force /\ f \in Tracked(SnapEntry(p))
    BY DEF TouchesOnlyItsOwn
  <2> USE DEF QuietInv, OwnInv, TypeOK
  <2>1. ~User
    BY DEF CommandStep, User, EditText, HandWrite, DeleteFile, AddPreserve, DeleteLock,
           UserActs
  <2>2. ASSUME NEW p \in Proc PROVE ~Crash(p)
    BY DEF CommandStep, Crash
  <2>3. PICK p \in Proc : Start(p) \/ Install(p) \/ Remove(p)
    BY <2>1, <2>2 DEF Next
  <2>4. WriterWrite(p) \/ \E g \in Path : UnlinkFile(p, g)
    BY <2>3 DEF Start, InstallStart, RemoveStart,
         Install, KeepExisting, CallWriter, RecordFile, WriterRead,
         RecordStart, InstallLoadLock, InstallLockFails, InstallSave,
         Remove, JudgeFile, UnlinkFails, RemoveRefuse, RemoveProceed, RemoveSave
  <2>5. CASE WriterWrite(p)
    <3>1. f = cur[p] /\ pc[p] = "write"
      BY <2>5 DEF WriterWrite
    <3> QED
      BY <3>1 DEF Knows, Idle
  <2>6. ASSUME NEW g \in Path, UnlinkFile(p, g)
        PROVE  \/ ~Idle(p) /\ IsOwnedByPack(disk[f], job[p].pack)
               \/ pc[p] = "unlink" /\ job[p].force /\ f \in Tracked(SnapEntry(p))
    <3>1. f = g /\ pc[p] = "unlink" /\ f \in todo[p]
      BY <2>6 DEF UnlinkFile
    <3>2. f \in Tracked(SnapEntry(p)) /\ view[p][f] = disk[f]
      BY <3>1 DEF RemoveWork, Knows
    <3>3. ~job[p].force => IsOwnedByPack(view[p][f], job[p].pack)
      BY <3>1, OwnJudged DEF RemoveJudgesOwn
    <3> QED
      BY <3>1, <3>2, <3>3 DEF Idle, Job
  <2> QED
    BY <2>4, <2>5, <2>6
<1>2. Spec => [][TouchesOnlyItsOwn]_vars
  BY <1>1, QuietInvariant, PTL DEF Spec
<1> QED
  BY <1>2 DEF ForeignUntouched

-----------------------------------------------------------------------------
(***************************************************************************)
(* What a command commits in a quiet project.  An install goes through its  *)
(* files three times, and what it did to a file earlier must still be so    *)
(* when it records it; and the lockfile it writes back whole must still be  *)
(* the one it read.                                                         *)
(***************************************************************************)
\* A file of the pack is the one that the process's version renders, preserve
\* blocks after it apart.
Current(p, f) ==
    IsOwnedByPack(disk[f], job[p].pack) =>
        Hash(disk[f]) = Hash(Rendered(job[p].pack, job[p].version))

\* What p is about to write is its version's, and keeps the preserve block that
\* stands behind the file; if it writes nothing, nothing is needed.
DraftRight(p) ==
    /\ draft[p] = None => cur[p] \in Ignored \/ Current(p, cur[p])
    /\ draft[p] # None =>
         /\ Hash(draft[p]) = Hash(Rendered(job[p].pack, job[p].version))
         /\ (disk[cur[p]] # None /\ disk[cur[p]].keep = "tail") => draft[p].keep = "tail"

Follows(p) ==
    /\ (pc[p] \in {"check", "read", "write"} /\ job[p].force) =>
         \A f \in Release(p) \ (todo[p] \union Ignored) : Current(p, f)
    /\ (pc[p] \in {"record", "save"} /\ job[p].force) =>
         \A f \in Release(p) \ Ignored : Current(p, f)
    /\ pc[p] = "write" => DraftRight(p)
    /\ pc[p] = "record" => \A f \in Release(p) \ todo[p] : view[p][f] = disk[f]
    /\ pc[p] = "save" => \A f \in Release(p) : view[p][f] = disk[f]
    /\ pc[p] \in {"save", "judge", "unlink"} => snap[p] = lock

CommitInv == QuietInv /\ \A p \in Proc : Follows(p)

LEMMA IdleFollows == ASSUME NEW p \in Proc, Idle(p)' PROVE Follows(p)'
BY DEF Follows, Idle

\* Only the process at work has something to account for.
LEMMA CommitStep ==
    ASSUME CommitInv, QuietInv', NEW p \in Proc, ~Idle(p),
           \A q \in Proc \ {p} : pc'[q] = pc[q],
           Follows(p)'
    PROVE  CommitInv'
<1>1. ASSUME NEW q \in Proc \ {p} PROVE Idle(q)'
  BY DEF CommitInv, QuietInv, Idle
<1> QED
  BY <1>1, IdleFollows DEF CommitInv

LEMMA CommitFinish ==
    ASSUME CommitInv, QuietInv', NEW p \in Proc, ~Idle(p), Finish(p)
    PROVE  CommitInv'
<1>1. Idle(p)' /\ \A q \in Proc \ {p} : pc'[q] = pc[q]
  BY DEF Finish, Idle, CommitInv, QuietInv, OwnInv, TypeOK
<1> QED
  BY <1>1, IdleFollows, CommitStep

LEMMA CommitStart ==
    ASSUME ~Interleave, CommitInv, QuietInv', NEW p \in Proc, Start(p)
    PROVE  CommitInv'
<1> USE DEF CommitInv, QuietInv, OwnInv, TypeOK
<1>1. \A q \in Proc \ {p} : Idle(q)'
  BY DEF Start, InstallStart, RemoveStart, MayStart, Idle
<1>2. ASSUME NEW k \in Pack, NEW v \in Version, NEW force \in BOOLEAN,
             InstallStart(p, k, v, force)
      PROVE  Follows(p)'
  <2>1. pc'[p] = "check" /\ todo'[p] = Release(p)'
    BY <1>2 DEF InstallStart, Release
  <2> QED
    BY <2>1 DEF Follows
<1>3. ASSUME NEW k \in Pack, NEW force \in BOOLEAN, RemoveStart(p, k, force)
      PROVE  Follows(p)'
  <2>1. pc'[p] = "judge" /\ snap'[p] = lock /\ lock' = lock
    BY <1>3 DEF RemoveStart
  <2> QED
    BY <2>1 DEF Follows
<1> QED
  BY <1>1, <1>2, <1>3, IdleFollows DEF Start

\* What the writer decides is right for the file as it reads it.
LEMMA DecisionRight ==
    ASSUME TypeOK, NEW p \in Proc
    PROVE  /\ WriterDecision(p) = None => cur[p] \in Ignored \/ Current(p, cur[p])
           /\ WriterDecision(p) # None =>
                /\ Hash(WriterDecision(p)) = Hash(Rendered(job[p].pack, job[p].version))
                /\ (disk[cur[p]] # None /\ disk[cur[p]].keep = "tail") =>
                       WriterDecision(p).keep = "tail"
<1>1. PICK f \in Path, old \in Content \union {None}, k \in Pack, v \in Version :
         f = cur[p] /\ old = disk[cur[p]] /\ k = job[p].pack /\ v = job[p].version
  BY DEF TypeOK, Job
<1>2. PICK new : new = Rendered(k, v)
  OBVIOUS
<1>3. new \in Content /\ new # None /\ new.owner = k /\ new.keep = "none" /\ new.text = v
  BY <1>2, ContentTypes, ConstantsAssumption DEF Rendered
<1>4. ASSUME old # None
      PROVE  /\ MergeContent(old, new) # None
             /\ Hash(MergeContent(old, new)) = Hash(new)
             /\ old.keep = "tail" => MergeContent(old, new).keep = "tail"
  <2>1. MergeContent(old, new) \in Content
    BY <1>3, <1>4, ContentTypes
  <2>2. PICK keep \in {"tail", "none"} :
           keep = (IF old.keep = "tail" THEN "tail" ELSE "none")
    OBVIOUS
  <2>3. MergeContent(old, new) = [owner |-> k, text |-> v, keep |-> keep]
    BY <1>2, <2>2 DEF MergeContent, Rendered
  <2>4. Hash(MergeContent(old, new)) = Hash(new)
    BY <1>3, <2>3 DEF Hash
  <2> QED
    BY <2>1, <2>2, <2>3, <2>4, ConstantsAssumption
<1>5. CASE f \in Ignored
  BY <1>1, <1>5 DEF WriterDecision
<1>6. CASE f \notin Ignored /\ old = None
  BY <1>1, <1>2, <1>3, <1>6 DEF WriterDecision
<1>7. CASE f \notin Ignored /\ old # None /\ old = new
  BY <1>1, <1>2, <1>3, <1>7 DEF WriterDecision, Current
<1>8. CASE f \notin Ignored /\ old # None /\ old # new
  <2>1. WriterDecision(p) = IF HasMarkers(old) THEN MergeContent(old, new)
                            ELSE IF view[p][f] # None THEN new ELSE None
    BY <1>1, <1>2, <1>8 DEF WriterDecision
  <2>2. CASE HasMarkers(old)
    BY <1>1, <1>2, <1>4, <1>8, <2>1, <2>2
  <2>3. CASE ~HasMarkers(old)
    <3>1. old.owner = None /\ old.keep = "none"
      BY <2>3 DEF HasMarkers
    <3>2. ~IsOwnedByPack(old, k)
      BY <3>1, ConstantsAssumption DEF IsOwnedByPack
    <3> QED
      BY <1>1, <1>2, <1>3, <2>1, <2>3, <3>1, <3>2 DEF Current
  <2> QED
    BY <2>2, <2>3
<1> QED
  BY <1>5, <1>6, <1>7, <1>8

LEMMA CommitInstall ==
    ASSUME CommitInv, QuietInv', NEW p \in Proc, Install(p)
    PROVE  CommitInv'
<1> USE DEF CommitInv, QuietInv, OwnInv, TypeOK
<1>0. ~Idle(p)
  BY DEF Install, KeepExisting, CallWriter, RecordFile, WriterRead, WriterWrite,
         RecordStart, InstallLoadLock, InstallLockFails, InstallSave, Idle
<1>1. ASSUME NEW f \in Path, KeepExisting(p, f) PROVE CommitInv'
  <2>1. job[p].force => Current(p, f)
    BY <1>1 DEF KeepExisting, KeepsExisting, Current
  <2>2. Follows(p)'
    BY <1>1, <2>1 DEF KeepExisting, Follows, Current, Release
  <2> QED
    BY <1>0, <1>1, <2>2, CommitStep DEF KeepExisting
<1>2. ASSUME NEW f \in Path, CallWriter(p, f) PROVE CommitInv'
  <2>1. Follows(p)'
    BY <1>2 DEF CallWriter, Follows, Current, Release
  <2> QED
    BY <1>0, <1>2, <2>1, CommitStep DEF CallWriter
<1>3. ASSUME NEW f \in Path, RecordFile(p, f) PROVE CommitInv'
  <2>1. /\ pc[p] = "record" /\ UNCHANGED <<disk, lock, pc, job, snap>>
        /\ view'[p] = [view[p] EXCEPT ![f] = disk[f]]
        /\ todo'[p] = todo[p] \ {f}
    BY <1>3 DEF RecordFile
  <2>2. \A g \in Release(p) \ todo'[p] : view'[p][g] = disk[g]
    <3>1. Release(p) \subseteq Path
      BY ConstantsAssumption DEF Release, Job
    <3> QED
      BY <2>1, <3>1 DEF Follows
  <2>3. Follows(p)'
    BY <2>1, <2>2 DEF Follows, Current, Release
  <2> QED
    BY <1>0, <1>3, <2>3, CommitStep DEF RecordFile
<1>4. CASE WriterRead(p)
  <2>1. DraftRight(p)'
    <3>1. draft'[p] = WriterDecision(p) /\ UNCHANGED <<disk, cur, job>>
      BY <1>4 DEF WriterRead
    <3> QED
      BY <3>1, DecisionRight DEF DraftRight, Current
  <2>2. Follows(p)'
    BY <1>4, <2>1 DEF WriterRead, Follows, Current, Release
  <2> QED
    BY <1>0, <1>4, <2>2, CommitStep DEF WriterRead
<1>5. CASE WriterWrite(p)
  <2>1. /\ pc[p] = "write" /\ pc'[p] = "check" /\ UNCHANGED <<job, snap, lock>>
        /\ todo'[p] = todo[p] \ {cur[p]}
        /\ \A q \in Proc \ {p} : pc'[q] = pc[q]
        /\ disk' = IF draft[p] = None THEN disk ELSE [disk EXCEPT ![cur[p]] = draft[p]]
    BY <1>5 DEF WriterWrite
  <2>2. DraftRight(p)
    BY <2>1 DEF Follows
  <2>0. PICK here \in Path : here = cur[p]
    OBVIOUS
  <2>3. here \in Ignored \/ Current(p, here)'
    <3>1. CASE draft[p] = None
      BY <2>0, <2>1, <2>2, <3>1 DEF DraftRight, Current
    <3>2. CASE draft[p] # None
      <4>1. disk'[here] = draft[p]
        BY <2>0, <2>1, <3>2
      <4> QED
        BY <2>0, <2>1, <2>2, <3>2, <4>1 DEF DraftRight, Current
    <3> QED
      BY <3>1, <3>2
  <2>4. \A f \in Path \ {cur[p]} : disk'[f] = disk[f]
    BY <2>1
  <2>5. Release(p)' = Release(p) /\ Release(p) \subseteq Path
    BY <2>1, ConstantsAssumption DEF Release, Job
  <2>6. Follows(p)'
    <3>1. ASSUME job[p].force, NEW f \in Release(p) \ (todo'[p] \union Ignored)
          PROVE  Current(p, f)'
      <4>1. CASE f = cur[p]
        BY <2>0, <2>3, <3>1, <4>1
      <4>2. CASE f # cur[p]
        <5>1. f \in Path /\ f \notin todo[p]
          BY <2>1, <2>5, <3>1, <4>2
        <5>2. Current(p, f)
          BY <2>1, <3>1, <5>1 DEF Follows
        <5> QED
          BY <2>1, <2>4, <4>2, <5>1, <5>2 DEF Current
      <4> QED
        BY <4>1, <4>2
    <3> QED
      BY <2>1, <2>5, <3>1 DEF Follows
  <2> QED
    BY <1>0, <2>1, <2>6, CommitStep
<1>6. CASE RecordStart(p)
  <2>1. Follows(p)'
    BY <1>6 DEF RecordStart, Follows, Current, Release
  <2> QED
    BY <1>0, <1>6, <2>1, CommitStep DEF RecordStart
<1>7. CASE InstallLoadLock(p)
  <2>1. Follows(p)'
    BY <1>7 DEF InstallLoadLock, Follows, Current, Release
  <2> QED
    BY <1>0, <1>7, <2>1, CommitStep DEF InstallLoadLock
<1>8. CASE InstallLockFails(p)
  BY <1>0, <1>8, CommitFinish DEF InstallLockFails
<1>9. CASE InstallSave(p)
  BY <1>0, <1>9, CommitFinish DEF InstallSave
<1> QED
  BY <1>1, <1>2, <1>3, <1>4, <1>5, <1>6, <1>7, <1>8, <1>9 DEF Install

LEMMA CommitRemove ==
    ASSUME CommitInv, QuietInv', NEW p \in Proc, Remove(p)
    PROVE  CommitInv'
<1> USE DEF CommitInv, QuietInv, OwnInv, TypeOK
<1>0. ~Idle(p)
  BY DEF Remove, JudgeFile, UnlinkFile, UnlinkFails, RemoveRefuse, RemoveProceed,
         RemoveSave, Idle
<1>1. ASSUME NEW f \in Path, JudgeFile(p, f) \/ UnlinkFile(p, f) PROVE CommitInv'
  <2>1. Follows(p)'
    BY <1>1 DEF JudgeFile, UnlinkFile, Follows
  <2> QED
    BY <1>0, <1>1, <2>1, CommitStep DEF JudgeFile, UnlinkFile
<1>2. ASSUME NEW f \in Path, UnlinkFails(p, f) PROVE CommitInv'
  BY <1>0, <1>2, CommitFinish DEF UnlinkFails
<1>3. CASE RemoveProceed(p)
  <2>1. Follows(p)'
    BY <1>3 DEF RemoveProceed, Follows
  <2> QED
    BY <1>0, <1>3, <2>1, CommitStep DEF RemoveProceed
<1>4. CASE RemoveRefuse(p) \/ RemoveSave(p)
  BY <1>0, <1>4, CommitFinish DEF RemoveRefuse, RemoveSave
<1> QED
  BY <1>1, <1>2, <1>3, <1>4 DEF Remove

LEMMA CommitNext == ~Interleave /\ CommitInv /\ [Next]_vars => CommitInv'
<1> SUFFICES ASSUME ~Interleave, CommitInv, [Next]_vars PROVE CommitInv'
  OBVIOUS
<1>1. QuietInv'
  BY QuietNext DEF CommitInv
<1>2. CASE UNCHANGED vars
  BY <1>1, <1>2 DEF CommitInv, vars, Follows, DraftRight, Current, Release
<1>3. CASE User
  <2>1. \A q \in Proc : Idle(q)'
    BY <1>3 DEF User, EditText, HandWrite, DeleteFile, AddPreserve, DeleteLock, UserActs,
                MayStart, Idle, CommitInv, QuietInv
  <2> QED
    BY <1>1, <2>1, IdleFollows DEF CommitInv
<1>4. ASSUME NEW p \in Proc, Crash(p) PROVE CommitInv'
  BY <1>1, <1>4, CommitFinish DEF Crash
<1> QED
  BY <1>1, <1>2, <1>3, <1>4, CommitStart, CommitInstall, CommitRemove DEF Next

LEMMA CommitInvariant == ASSUME ~Interleave PROVE Spec => []CommitInv
<1>1. Init => CommitInv
  <2>1. Init => \A p \in Proc : Follows(p)
    BY DEF Init, Follows
  <2> QED
    BY <2>1, InitOwn, InitTypeOK DEF Init, QuietInv, Idle, Knows, CommitInv
<1>2. CommitInv /\ [Next]_vars => CommitInv'
  BY CommitNext
<1> QED
  BY <1>1, <1>2, PTL DEF Spec

\* A step that is neither the user's nor a kill is a command's.
LEMMA CommandsOnly ==
    ASSUME Next, CommandStep, TypeOK
    PROVE  \E p \in Proc : Start(p) \/ Install(p) \/ Remove(p)
<1>1. ~User
  BY DEF CommandStep, User, EditText, HandWrite, DeleteFile, AddPreserve, DeleteLock,
         UserActs, TypeOK
<1>2. \A p \in Proc : ~Crash(p)
  BY DEF CommandStep, Crash, TypeOK
<1> QED
  BY <1>1, <1>2 DEF Next

\* The files change only where the writer writes and a remove unlinks.
LEMMA DiskSteps ==
    ASSUME NEW p \in Proc, Start(p) \/ Install(p) \/ Remove(p), disk' # disk
    PROVE  WriterWrite(p) \/ \E f \in Path : UnlinkFile(p, f)
BY DEF Start, InstallStart, RemoveStart,
       Install, KeepExisting, CallWriter, RecordFile, WriterRead,
       RecordStart, InstallLoadLock, InstallLockFails, InstallSave,
       Remove, JudgeFile, UnlinkFails, RemoveRefuse, RemoveProceed, RemoveSave

LEMMA LockSteps ==
    ASSUME NEW p \in Proc, Start(p) \/ Install(p) \/ Remove(p), lock' # lock
    PROVE  InstallSave(p) \/ RemoveSave(p)
BY DEF Start, InstallStart, RemoveStart,
       Install, KeepExisting, CallWriter, RecordFile, WriterRead, WriterWrite,
       RecordStart, InstallLoadLock, InstallLockFails,
       Remove, JudgeFile, UnlinkFile, UnlinkFails, RemoveRefuse, RemoveProceed

\* In a quiet project a preserve block that stands behind a generated block
\* outlives every install and upgrade; only a remove takes its file away.
THEOREM TailSurvives == ASSUME ~Interleave PROVE Spec => TailPreserveSurvives
<1> DEFINE Kept == \A f \in Path : disk[f] # None /\ disk[f].keep = "tail" =>
                       \/ disk'[f] = None /\ \E p \in Proc : pc[p] = "unlink"
                       \/ disk'[f] # None /\ disk'[f].keep = "tail"
<1>1. CommitInv /\ [Next]_vars => [CommandStep => Kept]_vars
  <2> SUFFICES ASSUME CommitInv, Next, CommandStep, NEW f \in Path,
                      disk[f] # None, disk[f].keep = "tail", disk'[f] # disk[f]
               PROVE  \/ disk'[f] = None /\ \E p \in Proc : pc[p] = "unlink"
                      \/ disk'[f] # None /\ disk'[f].keep = "tail"
    OBVIOUS
  <2> USE DEF CommitInv, QuietInv, OwnInv, TypeOK
  <2>1. PICK p \in Proc : Start(p) \/ Install(p) \/ Remove(p)
    BY CommandsOnly
  <2>2. CASE WriterWrite(p)
    <3>1. f = cur[p] /\ pc[p] = "write" /\ draft[p] # None /\ disk'[f] = draft[p]
      BY <2>2 DEF WriterWrite
    <3>2. DraftRight(p)
      BY <3>1 DEF Follows
    <3> QED
      BY <3>1, <3>2 DEF DraftRight
  <2>3. ASSUME NEW g \in Path, UnlinkFile(p, g)
        PROVE  disk'[f] = None /\ pc[p] = "unlink"
    BY <2>3 DEF UnlinkFile
  <2> QED
    BY <2>1, <2>2, <2>3, DiskSteps
<1>2. Spec => [][CommandStep => Kept]_vars
  BY <1>1, CommitInvariant, PTL DEF Spec
<1> QED
  BY <1>2 DEF TailPreserveSurvives

\* In a quiet project the entry that an install commits describes the disk.
THEOREM CommitsDescribeDisk == ASSUME ~Interleave PROVE Spec => CommitDescribesDisk
<1> DEFINE Told(p, k) ==
             /\ Integrity(k)' = "ok"
             /\ Tracked(lock'[k]) = {f \in Release(p) : IsOwnedByPack(disk[f], k)}
             /\ job[p].force => \A f \in Tracked(lock'[k]) \ Ignored :
                                   Hash(disk[f]) = Hash(Rendered(k, job[p].version))
           Commit(p, k) == pc[p] = "save" /\ job[p].pack = k /\ pc'[p] = "idle" /\ CommandStep
<1>1. ASSUME CommitInv, Next, NEW p \in Proc, NEW k \in Pack, Commit(p, k)
      PROVE  Told(p, k)
  <2> USE DEF CommitInv, QuietInv, OwnInv, TypeOK
  <2>1. PICK q \in Proc : Start(q) \/ Install(q) \/ Remove(q)
    BY <1>1, CommandsOnly
  <2>2. InstallSave(p)
    <3>1. q = p
      BY <1>1, <2>1 DEF Start, InstallStart, RemoveStart, Finish,
         Install, KeepExisting, CallWriter, RecordFile, WriterRead, WriterWrite,
         RecordStart, InstallLoadLock, InstallLockFails, InstallSave,
         Remove, JudgeFile, UnlinkFile, UnlinkFails, RemoveRefuse, RemoveProceed, RemoveSave
    <3> QED
      BY <1>1, <2>1, <3>1 DEF Start, InstallStart, RemoveStart, Idle,
         Install, KeepExisting, CallWriter, RecordFile, WriterRead, WriterWrite,
         RecordStart, InstallLoadLock, InstallLockFails,
         Remove, JudgeFile, UnlinkFile, UnlinkFails, RemoveRefuse, RemoveProceed, RemoveSave
  <2>3. PICK e : e = NewEntry(p)
    OBVIOUS
  <2>4. lock'[k] = e /\ disk' = disk
    BY <1>1, <2>2, <2>3 DEF InstallSave, Lock
  <2>5. Release(p) \subseteq Path
    BY <1>1, ConstantsAssumption DEF Release, Job
  <2>6. \A f \in Release(p) : view[p][f] = disk[f]
    BY <1>1 DEF Follows
  <2>7. \A f \in Path : e.files[f] = IF f \in Release(p) /\ IsOwnedByPack(disk[f], k)
                                     THEN Hash(disk[f]) ELSE None
    BY <1>1, <2>3, <2>6 DEF NewEntry
  <2>8. \A f \in Path : IsOwnedByPack(disk[f], k) => disk[f] # None /\ Hash(disk[f]) # None
    BY <1>1, ContentTypes, ConstantsAssumption DEF IsOwnedByPack
  <2>9. Tracked(e) = {f \in Release(p) : IsOwnedByPack(disk[f], k)}
    BY <2>5, <2>7, <2>8 DEF Tracked
  <2>10. Integrity(k)' = "ok"
    <3>1. \A f \in Tracked(e) : disk[f] # None /\ ~Modified(e, f, disk[f])
      BY <2>5, <2>7, <2>8, <2>9 DEF Modified
    <3> QED
      BY <2>4, <3>1 DEF Integrity
  <2>11. ASSUME job[p].force, NEW f \in Tracked(e) \ Ignored
         PROVE  Hash(disk[f]) = Hash(Rendered(k, job[p].version))
    BY <1>1, <2>9, <2>11 DEF Follows, Current
  <2> QED
    BY <2>4, <2>9, <2>10, <2>11
<1>2. ASSUME CommitInv, [Next]_vars
      PROVE  [\A p \in Proc, k \in Pack : Commit(p, k) => Told(p, k)]_vars
  BY <1>1, <1>2
<1>3. Spec => [][\A p \in Proc, k \in Pack : Commit(p, k) => Told(p, k)]_vars
  BY <1>2, CommitInvariant, PTL DEF Spec
<1> QED
  BY <1>3 DEF CommitDescribesDisk

\* In a quiet project a command changes no entry but its own pack's, although it
\* writes back the whole lockfile that it read earlier.
THEOREM OthersKept == ASSUME ~Interleave PROVE Spec => OtherEntriesKept
<1> DEFINE Kept == \A k \in Pack : lock'[k] # lock[k] =>
                       \E p \in Proc : ~Idle(p) /\ job[p].pack = k
<1>1. CommitInv /\ [Next]_vars => [CommandStep /\ lock # Corrupt => Kept]_vars
  <2> SUFFICES ASSUME CommitInv, Next, CommandStep, lock # Corrupt, NEW k \in Pack, lock'[k] # lock[k]
               PROVE  \E p \in Proc : ~Idle(p) /\ job[p].pack = k
    OBVIOUS
  <2> USE DEF CommitInv, QuietInv, OwnInv, TypeOK
  <2>1. PICK p \in Proc : Start(p) \/ Install(p) \/ Remove(p)
    BY CommandsOnly
  <2>2. InstallSave(p) \/ RemoveSave(p)
    BY <2>1, LockSteps
  <2>3. pc[p] \in {"save", "unlink"} /\ snap[p] = lock
    BY <2>2 DEF InstallSave, RemoveSave, Follows
  <2>4. k = job[p].pack
    BY <2>2, <2>3 DEF InstallSave, RemoveSave, Lock
  <2> QED
    BY <2>3, <2>4 DEF Idle
<1>2. Spec => [][CommandStep /\ lock # Corrupt => Kept]_vars
  BY <1>1, CommitInvariant, PTL DEF Spec
<1> QED
  BY <1>2 DEF OtherEntriesKept

\* Whatever runs beside an install or a remove: the lockfile tracks, and a remove
\* goes on to delete, only what was the pack's own when it was examined.
THEOREM LockSoundAlways == Spec => []LockSound
BY LockSafe, RemoveSafe, PTL DEF LockSound

\* In a quiet project the lockfile follows the commands: an install leaves its
\* own entry as the disk is and every other as it was, and all entries are sound.
THEOREM EntriesFollow == ASSUME ~Interleave PROVE Spec => EntriesFaithful
BY LockSoundAlways, CommitsDescribeDisk, OthersKept DEF EntriesFaithful
=============================================================================
