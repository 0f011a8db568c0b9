--------------------------- MODULE OwnershipProofs ---------------------------
(***************************************************************************)
(* What Ownership keeps for any files, projects, texts and processes, and   *)
(* any bounds on commands, edits and changes.                               *)
(***************************************************************************)
EXTENDS Ownership, TLAPS

\* What a command in each of its places has with it.
Fits(r) ==
    /\ r.pc = "idle" => r.kind = "none"
    /\ r.pc \in {"next", "write"} => r.kind \in {"init", "emit", "adopt"}
    /\ r.pc \in {"load", "record"} => r.kind \in {"init", "emit"}
    /\ r.pc = "write" => r.at \in File
    /\ r.kind \in {"init", "emit"} => \A f \in r.todo : r.new[f] # None
    /\ (r.kind \in {"init", "emit"} /\ r.pc = "write") => r.new[r.at] # None
    /\ r.kind \in {"init", "sync"} => r.seen \in Project
    /\ r.pc \in {"apply", "store"} => r.kind = "sync"
    /\ r.kind = "init" =>
           \A f \in File : r.new[f] # None => r.new[f] = Fresh(r.seen, f \in Marked)
    /\ r.kind = "emit" => \A f \in File : r.new[f] # None => r.new[f].form = Serialized
Good(r) == r \in Command /\ Fits(r)
Shape == \A p \in Proc : Good(run[p])

-----------------------------------------------------------------------------
(* The functions of merger.ts, writer.ts and serialize.ts.                 *)

LEMMA FreshIsContent == ASSUME NEW form \in Form, NEW marks \in BOOLEAN
                        PROVE  Fresh(form, marks) \in Content
BY DEF Fresh, Content

LEMMA MergeContent ==
    ASSUME NEW old \in Content, NEW new \in Content
    PROVE  /\ mergeContent(old, new) \in Content
           /\ old.kept \subseteq mergeContent(old, new).kept
           /\ mergeContent(old, new).form = new.form /\ mergeContent(old, new).marks = new.marks
           /\ mergeContent(old, new).plain = new.plain /\ mergeContent(old, new).nested = new.nested
BY DEF Content, mergeContent, parseExistingFile

\* What is written over a file keeps its preserve blocks and brings no text of
\* its own; a file with markers is skipped only if nothing would change.
LEMMA Written ==
    ASSUME NEW f \in File, NEW old \in Content \cup {None}, NEW new \in Content, NEW force \in BOOLEAN
    PROVE  LET out == writeFileImpl(f, old, new, force)
           IN  /\ out \in Content \cup {None}
               /\ out # None => /\ out.form = new.form /\ out.marks = new.marks
                                /\ out.plain = new.plain /\ out.nested = new.nested
                                /\ old # None => old.kept \subseteq out.kept
               /\ (out = None /\ f \notin Ignored) => old # None /\ (old = new \/ ~old.marks)
<1> DEFINE out == writeFileImpl(f, old, new, force)
<1>0. None \notin Content
  BY MarkersAssumption
<1>1. CASE f \in Ignored \/ old = new
  <2>1. out = None
    BY <1>1 DEF writeFileImpl
  <2> QED
    BY <1>0, <1>1, <2>1
<1>2. CASE ~(f \in Ignored \/ old = new) /\ old = None
  <2>1. out = new
    BY <1>2 DEF writeFileImpl
  <2> QED
    BY <1>0, <1>2, <2>1
<1>3. CASE ~(f \in Ignored \/ old = new) /\ old # None /\ hasMarkers(old)
  <2>1. out = mergeContent(old, new) /\ old \in Content
    BY <1>3 DEF writeFileImpl
  <2> QED
    BY <1>0, <1>3, <2>1, MergeContent
<1>4. CASE ~(f \in Ignored \/ old = new) /\ old # None /\ ~hasMarkers(old)
  <2>1. out = IF force THEN new ELSE None
    BY <1>4 DEF writeFileImpl
  <2>2. old.kept = {} /\ ~old.marks
    BY <1>4 DEF hasMarkers, Content
  <2> QED
    BY <1>0, <1>4, <2>1, <2>2
<1> QED
  BY <1>1, <1>2, <1>3, <1>4

LEMMA WrapPreserve ==
    ASSUME NEW c \in Content
    PROVE  /\ wrapPreserve(c) \in Content
           /\ c.kept \subseteq wrapPreserve(c).kept
           /\ wrapPreserve(c).plain \cup wrapPreserve(c).nested \subseteq TextOf(c)
           /\ wrapPreserve(c) # c => wrapPreserve(c).form = Authored
<1>1. CASE hasPreserveBlock(c) \/ (c.plain = {} /\ c.form = Authored)
  BY <1>1 DEF wrapPreserve, TextOf
<1>2. CASE ~(hasPreserveBlock(c) \/ (c.plain = {} /\ c.form = Authored))
  <2>1. wrapPreserve(c) = [c EXCEPT !.kept = c.plain \cup ({c.form} \ {Authored}), !.plain = {},
                                    !.marks = FALSE, !.form = Authored]
    BY <1>2 DEF wrapPreserve
  <2>2. c.kept = {}
    BY <1>2 DEF hasPreserveBlock
  <2>3. [c EXCEPT !.kept = c.plain \cup ({c.form} \ {Authored}), !.plain = {},
                  !.marks = FALSE, !.form = Authored] \in Content
    BY DEF Content, Form
  <2>4. /\ wrapPreserve(c).plain = {} /\ wrapPreserve(c).nested = c.nested
        /\ wrapPreserve(c).form = Authored
    BY <2>1 DEF Content
  <2> QED
    BY <2>1, <2>2, <2>3, <2>4 DEF TextOf
<1> QED
  BY <1>1, <1>2

LEMMA EmittedIsContent ==
    ASSUME NEW f \in File, NEW c \in Content
    PROVE  Emitted(f, c) \in Content /\ Emitted(f, c).form = Serialized
BY DEF Emitted, serializeRule, serializeSkill, Fresh, Content, Form

-----------------------------------------------------------------------------
(* Types.                                                                  *)

LEMMA IdleIsCommand == Idle \in Command /\ NoRecords \in Manifest
BY DEF Idle, Command, NoRecords, Manifest

LEMMA RecordFile ==
    ASSUME NEW m \in Manifest, NEW f \in File, NEW c \in Content, NEW origin \in {"generated", "adopted"}
    PROVE  /\ recordFile(m, f, c, origin) \in Manifest
           /\ recordFile(m, f, c, origin)[f].hash = c
           /\ \A g \in File : m[g] # None => recordFile(m, f, c, origin)[g] # None
           /\ \A g \in File : g # f => recordFile(m, f, c, origin)[g] = m[g]
<1>1. [origin |-> origin, hash |-> c] \in Entry
  BY DEF Entry
<1> QED
  BY <1>1, MarkersAssumption DEF recordFile, Manifest

LEMMA IdleGood == Good(Idle)
BY IdleIsCommand DEF Good, Fits, Idle

\* How the steps of a command change it.
LEMMA GoodRead ==
    ASSUME NEW r, Good(r), r.pc = "next", NEW f \in r.todo, NEW b \in Content \cup {None}
    PROVE  Good([r EXCEPT !.pc = "write", !.at = f, !.buf = b, !.todo = @ \ {f}])
<1>1. r \in Command /\ f \in File
  BY DEF Good, Command
<1>2. [r EXCEPT !.pc = "write", !.at = f, !.buf = b, !.todo = @ \ {f}] \in Command
  BY <1>1 DEF Command
<1>3. Fits([r EXCEPT !.pc = "write", !.at = f, !.buf = b, !.todo = @ \ {f}])
  BY <1>1 DEF Good, Fits, Command
<1> QED
  BY <1>2, <1>3 DEF Good

LEMMA GoodWritten ==
    ASSUME NEW r, Good(r), r.pc = "write", NEW W \in SUBSET File, NEW m \in Manifest
    PROVE  /\ Good([r EXCEPT !.pc = "next", !.at = None, !.buf = None, !.written = W])
           /\ Good([r EXCEPT !.pc = "next", !.at = None])
           /\ Good([r EXCEPT !.pc = "next", !.at = None, !.buf = None, !.mem = m, !.written = W])
<1>1. r \in Command
  BY DEF Good
<1>2. Good([r EXCEPT !.pc = "next", !.at = None, !.buf = None, !.written = W])
  <2>1. [r EXCEPT !.pc = "next", !.at = None, !.buf = None, !.written = W] \in Command
    BY <1>1 DEF Command
  <2>2. Fits([r EXCEPT !.pc = "next", !.at = None, !.buf = None, !.written = W])
    BY <1>1 DEF Good, Fits, Command
  <2> QED
    BY <2>1, <2>2 DEF Good
<1>3. Good([r EXCEPT !.pc = "next", !.at = None])
  <2>1. [r EXCEPT !.pc = "next", !.at = None] \in Command
    BY <1>1 DEF Command
  <2>2. Fits([r EXCEPT !.pc = "next", !.at = None])
    BY <1>1 DEF Good, Fits, Command
  <2> QED
    BY <2>1, <2>2 DEF Good
<1>4. Good([r EXCEPT !.pc = "next", !.at = None, !.buf = None, !.mem = m, !.written = W])
  <2>1. [r EXCEPT !.pc = "next", !.at = None, !.buf = None, !.mem = m, !.written = W] \in Command
    BY <1>1 DEF Command
  <2>2. Fits([r EXCEPT !.pc = "next", !.at = None, !.buf = None, !.mem = m, !.written = W])
    BY <1>1 DEF Good, Fits, Command
  <2> QED
    BY <2>1, <2>2 DEF Good
<1> QED
  BY <1>2, <1>3, <1>4

LEMMA GoodLater ==
    ASSUME NEW r, Good(r), NEW W \in SUBSET File, NEW m \in Manifest
    PROVE  /\ r.kind = "init" => Good([r EXCEPT !.pc = "load"])
           /\ r.kind = "sync" => Good([r EXCEPT !.pc = "store"])
           /\ r.kind \in {"init", "emit"} => Good([r EXCEPT !.pc = "record", !.mem = m])
           /\ Good([r EXCEPT !.written = W, !.mem = m])
<1>1. r \in Command
  BY DEF Good
<1>2. /\ [r EXCEPT !.pc = "load"] \in Command /\ [r EXCEPT !.pc = "store"] \in Command
      /\ [r EXCEPT !.pc = "record", !.mem = m] \in Command
      /\ [r EXCEPT !.written = W, !.mem = m] \in Command
  BY <1>1 DEF Command
<1>3. /\ r.kind = "init" => Fits([r EXCEPT !.pc = "load"])
      /\ r.kind = "sync" => Fits([r EXCEPT !.pc = "store"])
      /\ r.kind \in {"init", "emit"} => Fits([r EXCEPT !.pc = "record", !.mem = m])
      /\ Fits([r EXCEPT !.written = W, !.mem = m])
  BY <1>1 DEF Good, Fits, Command
<1> QED
  BY <1>2, <1>3 DEF Good

-----------------------------------------------------------------------------
(* What each step makes of a command and of the files.                     *)

LEMMA SetsRun ==
    ASSUME Shape, TypeOK, NEW p \in Proc, NEW r, run' = [run EXCEPT ![p] = r], Good(r)
    PROVE  run' \in [Proc -> Command] /\ Shape' /\ run'[p] = r /\ \A q \in Proc \ {p} : run'[q] = run[q]
BY DEF TypeOK, Shape, Good

LEMMA ReadSound ==
    ASSUME TypeOK, Shape, NEW p \in Proc, NEW f \in File, Read(p, f)
    PROVE  TypeOK' /\ Shape'
<1>1. PICK r : r = run[p] /\ Good(r)
  BY DEF Shape
<1>2. PICK b \in Content \cup {None} : b = disk[f]
  BY DEF TypeOK
<1>3. run' = [run EXCEPT ![p] = [r EXCEPT !.pc = "write", !.at = f, !.buf = b, !.todo = @ \ {f}]]
  BY <1>1, <1>2 DEF Read
<1>4. Good([r EXCEPT !.pc = "write", !.at = f, !.buf = b, !.todo = @ \ {f}])
  BY <1>1, GoodRead DEF Read
<1>5. run' \in [Proc -> Command] /\ Shape'
  BY <1>3, <1>4, SetsRun
<1>6. UNCHANGED <<disk, manifest, baseline, project, commands, edits, changes, overlap,
                  promised, approved, raced, settled>>
  BY DEF Read, files, author, history
<1> QED
  BY <1>5, <1>6 DEF TypeOK

LEMMA BeginSound ==
    ASSUME TypeOK, Shape, NEW p \in Proc, NEW r, Good(r), Begin(p, r)
    PROVE  TypeOK' /\ Shape'
<1>1. run' \in [Proc -> Command] /\ Shape'
  BY SetsRun DEF Begin
<1>2. commands' \in 0..MaxCommands
  BY OwnershipAssumption DEF TypeOK, Begin, CanBegin
<1>3. /\ UNCHANGED <<disk, manifest, baseline, project, edits, changes, promised, approved, raced, settled>>
      /\ overlap' \in BOOLEAN
  BY DEF Begin, files, author, history, TypeOK
<1> QED
  BY <1>1, <1>2, <1>3 DEF TypeOK

LEMMA StartInitSound ==
    ASSUME TypeOK, Shape, NEW p \in Proc, NEW force \in BOOLEAN, StartInit(p, force)
    PROVE  TypeOK' /\ Shape'
<1>1. PICK q \in Project : q = project
  BY DEF TypeOK
<1>2. PICK R \in SUBSET File : R = Rendered(q)
  BY OwnershipAssumption
<1> DEFINE new == [f \in File |-> IF f \in R THEN Fresh(q, f \in Marked) ELSE None]
           r == [Idle EXCEPT !.kind = "init", !.pc = "next", !.option = force, !.seen = q, !.todo = R,
                             !.new = new]
<1>3. new \in [File -> Content \cup {None}] /\ \A f \in R : new[f] # None
  <2>1. ASSUME NEW f \in File PROVE Fresh(q, f \in Marked) \in Content
    <3>1. (f \in Marked) \in BOOLEAN /\ q \in Form
      BY DEF Form
    <3> QED
      BY <3>1, FreshIsContent, Zenon
  <2> QED
    BY <2>1, MarkersAssumption
<1>4. Good(r)
  <2>1. r \in Command
    BY <1>3, IdleIsCommand DEF Command
  <2>2. /\ r.kind = "init" /\ r.pc = "next" /\ r.seen = q /\ r.todo = R /\ r.new = new
    BY DEF Idle
  <2> QED
    BY <1>3, <2>1, <2>2 DEF Good, Fits
<1>5. Begin(p, r)
  BY <1>1, <1>2 DEF StartInit
<1> HIDE DEF r
<1> QED
  BY <1>4, <1>5, BeginSound

LEMMA StartEmitSound ==
    ASSUME TypeOK, Shape, NEW p \in Proc, NEW force \in BOOLEAN, NEW input \in BOOLEAN,
           StartEmit(p, force, input)
    PROVE  TypeOK' /\ Shape'
<1> DEFINE present == IF input THEN File ELSE {f \in File : disk[f] # None}
           newly == [f \in File |-> IF f \notin present THEN None
                                    ELSE IF input THEN Fresh(Serialized, FALSE)
                                    ELSE Emitted(f, disk[f])]
<1>1. newly \in [File -> Content \cup {None}] /\ \A f \in present : newly[f] # None
  <2> SUFFICES ASSUME NEW f \in File
               PROVE  newly[f] \in Content \cup {None} /\ (f \in present => newly[f] # None)
    OBVIOUS
  <2>1. CASE f \notin present
    BY <2>1
  <2>2. CASE f \in present /\ input
    BY <2>2, FreshIsContent, MarkersAssumption DEF Form
  <2>3. CASE f \in present /\ ~input
    <3>1. disk[f] \in Content
      BY <2>3 DEF TypeOK
    <3> QED
      BY <2>3, <3>1, EmittedIsContent, MarkersAssumption
  <2> QED
    BY <2>1, <2>2, <2>3
<1>2. PICK P \in SUBSET File : P = present
  OBVIOUS
<1>3. PICK new \in [File -> Content \cup {None}] : new = newly
  BY <1>1
<1> DEFINE r == [Idle EXCEPT !.kind = "emit", !.pc = "next", !.option = force, !.todo = P, !.new = new]
<1>4. Begin(p, r)
  BY <1>2, <1>3 DEF StartEmit
<1>5. \A f \in P : new[f] # None
  BY <1>1, <1>2, <1>3
<1>7. ASSUME NEW f \in File, newly[f] # None PROVE newly[f].form = Serialized
  <2>1. CASE input
    BY <1>7, <2>1 DEF Fresh
  <2>2. CASE ~input
    <3>1. f \in present /\ disk[f] \in Content
      BY <1>7, <2>2 DEF TypeOK
    <3> QED
      BY <2>2, <3>1, EmittedIsContent
  <2> QED
    BY <2>1, <2>2
<1> HIDE DEF present, newly
<1>6. Good(r)
  <2>1. r \in Command
    BY IdleIsCommand DEF Command
  <2>2. r.kind = "emit" /\ r.pc = "next" /\ r.todo = P /\ r.new = new
    BY DEF Idle
  <2> QED
    BY <1>3, <1>5, <1>7, <2>1, <2>2 DEF Good, Fits
<1> HIDE DEF r
<1> QED
  BY <1>4, <1>6, BeginSound

LEMMA StartAdoptSound ==
    ASSUME TypeOK, Shape, NEW p \in Proc, NEW wrap \in BOOLEAN, StartAdopt(p, wrap)
    PROVE  TypeOK' /\ Shape'
<1>1. PICK m \in Manifest : m = manifest
  BY DEF TypeOK, StartAdopt
<1>2. PICK P \in SUBSET File : P = {f \in File : disk[f] # None /\ manifest[f] = None}
  OBVIOUS
<1> DEFINE r == [Idle EXCEPT !.kind = "adopt", !.pc = "next", !.option = wrap, !.mem = m, !.todo = P]
<1>3. Begin(p, r)
  BY <1>1, <1>2 DEF StartAdopt
<1>4. Good(r)
  <2>1. r \in Command
    BY IdleIsCommand DEF Command
  <2>2. r.kind = "adopt" /\ r.pc = "next"
    BY DEF Idle
  <2> QED
    BY <2>1, <2>2 DEF Good, Fits
<1> HIDE DEF r
<1> QED
  BY <1>3, <1>4, BeginSound

LEMMA StartSyncSound ==
    ASSUME TypeOK, Shape, NEW p \in Proc, NEW e, NEW auto \in BOOLEAN, StartSync(p, e, auto)
    PROVE  TypeOK' /\ Shape'
<1>1. PICK q \in Project : q = project
  BY DEF TypeOK
<1>2. PICK pc \in {"apply", "store"} :
          Begin(p, [Idle EXCEPT !.kind = "sync", !.pc = pc, !.option = auto, !.seen = q])
  BY <1>1 DEF StartSync
<1>3. Good([Idle EXCEPT !.kind = "sync", !.pc = pc, !.option = auto, !.seen = q])
  <2>1. [Idle EXCEPT !.kind = "sync", !.pc = pc, !.option = auto, !.seen = q] \in Command
    BY IdleIsCommand DEF Command
  <2>2. [Idle EXCEPT !.kind = "sync", !.pc = pc, !.option = auto, !.seen = q].kind = "sync"
    BY DEF Idle
  <2>3. [Idle EXCEPT !.kind = "sync", !.pc = pc, !.option = auto, !.seen = q].pc = pc
    BY DEF Idle
  <2>4. [Idle EXCEPT !.kind = "sync", !.pc = pc, !.option = auto, !.seen = q].seen = q
    BY DEF Idle
  <2> QED
    BY <2>1, <2>2, <2>3, <2>4 DEF Good, Fits
<1> QED
  BY <1>2, <1>3, BeginSound

LEMMA WriteSound ==
    ASSUME TypeOK, Shape, NEW p \in Proc, Write(p)
    PROVE  /\ TypeOK' /\ Shape'
           /\ run[p].at \in File /\ run[p].buf \in Content \cup {None}
           /\ run[p].new[run[p].at] \in Content /\ run[p].option \in BOOLEAN
<1>1. PICK r : r = run[p] /\ Good(r)
  BY DEF Shape
<1>2. r \in Command /\ r.pc = "write" /\ r.kind \in {"init", "emit"}
  BY <1>1 DEF Write, Good
<1>3. PICK f \in File : f = r.at
  BY <1>1, <1>2 DEF Good, Fits
<1>4. r.new[f] \in Content /\ r.buf \in Content \cup {None} /\ r.option \in BOOLEAN
  BY <1>1, <1>2, <1>3 DEF Good, Fits, Command
<1>5. PICK out \in Content \cup {None} : out = Outcome(p)
  BY <1>1, <1>3, <1>4, Written DEF Outcome
<1>6. PICK W \in SUBSET File : W = IF Counts(out) THEN r.written \cup {f} ELSE r.written
  BY <1>2 DEF Command
<1>7. run' = [run EXCEPT ![p] = [r EXCEPT !.pc = "next", !.at = None, !.buf = None, !.written = W]]
  BY <1>1, <1>3, <1>5, <1>6 DEF Write
<1>8. run' \in [Proc -> Command] /\ Shape'
  <2>1. Good([r EXCEPT !.pc = "next", !.at = None, !.buf = None, !.written = W])
    BY <1>1, <1>2, GoodWritten, IdleIsCommand
  <2> QED
    BY <1>7, <2>1, SetsRun
<1>9. disk' \in [File -> Content \cup {None}] /\ approved' \in [File -> SUBSET (Text \cup Form)]
  <2>1. TextOf(r.new[f]) \subseteq Text \cup Form
    BY <1>4 DEF Content, TextOf
  <2>2. disk' = IF out = None THEN disk ELSE [disk EXCEPT ![f] = out]
    BY <1>1, <1>3, <1>5 DEF Write
  <2>3. approved' = IF out = None \/ r.kind = "init" THEN approved
                    ELSE [approved EXCEPT ![f] = @ \cup TextOf(r.new[f])]
    BY <1>1, <1>3, <1>5 DEF Write
  <2> QED
    BY <2>1, <2>2, <2>3 DEF TypeOK
<1>10. UNCHANGED <<manifest, baseline, author, commands, overlap, promised, raced, settled>>
  BY DEF Write
<1> QED
  BY <1>1, <1>3, <1>4, <1>8, <1>9, <1>10 DEF TypeOK, author

LEMMA AdoptSound ==
    ASSUME TypeOK, Shape, NEW p \in Proc, AdoptFile(p)
    PROVE  /\ TypeOK' /\ Shape'
           /\ run[p].at \in File
           /\ run[p].buf # None => run[p].buf \in Content /\ Wrapped(p) \in Content
<1>1. PICK r : r = run[p] /\ Good(r)
  BY DEF Shape
<1>2. r \in Command /\ r.pc = "write" /\ r.kind = "adopt"
  BY <1>1 DEF AdoptFile, Good
<1>3. PICK f \in File : f = r.at
  BY <1>1, <1>2 DEF Good, Fits
<1>4. PICK c \in Content \cup {None} : c = r.buf
  BY <1>2 DEF Command
<1>5. UNCHANGED <<manifest, baseline, author, commands, overlap, raced, settled>>
  BY DEF AdoptFile
<1>6. CASE c = None
  <2>1. run' = [run EXCEPT ![p] = [r EXCEPT !.pc = "next", !.at = None]]
        /\ UNCHANGED <<disk, promised, approved>>
    BY <1>1, <1>4, <1>6 DEF AdoptFile
  <2>2. Good([r EXCEPT !.pc = "next", !.at = None])
    BY <1>1, <1>2, GoodWritten, IdleIsCommand
  <2>3. run' \in [Proc -> Command] /\ Shape'
    BY <2>1, <2>2, SetsRun
  <2> QED
    BY <1>1, <1>3, <1>4, <1>5, <1>6, <2>1, <2>3 DEF TypeOK, author
<1>7. CASE c # None
  <2>1. PICK w \in Content : w = Wrapped(p)
    BY <1>1, <1>4, <1>7, WrapPreserve DEF Wrapped
  <2>2. PICK W \in SUBSET File : W = r.written \cup {f}
    BY <1>2 DEF Command
  <2>3. PICK m \in Manifest : m = recordFile(r.mem, f, w, "adopted")
    BY <1>2, RecordFile DEF Command
  <2>4. run' = [run EXCEPT ![p] = [r EXCEPT !.pc = "next", !.at = None, !.buf = None, !.mem = m,
                                            !.written = W]]
    BY <1>1, <1>3, <1>4, <1>7, <2>1, <2>2, <2>3 DEF AdoptFile
  <2>5. Good([r EXCEPT !.pc = "next", !.at = None, !.buf = None, !.mem = m, !.written = W])
    BY <1>1, <1>2, GoodWritten
  <2>6. run' \in [Proc -> Command] /\ Shape'
    BY <2>4, <2>5, SetsRun
  <2>7. disk' = IF w = c THEN disk ELSE [disk EXCEPT ![f] = w]
    BY <1>1, <1>3, <1>4, <1>7, <2>1 DEF AdoptFile
  <2>8. approved' = [approved EXCEPT ![f] = @ \cup TextOf(c)]
    BY <1>1, <1>3, <1>4, <1>7 DEF AdoptFile
  <2>9. promised' \in {promised, [promised EXCEPT ![f] = @ \cup w.kept]}
    BY <1>1, <1>3, <1>4, <1>7, <2>1 DEF AdoptFile
  <2>10. TextOf(c) \subseteq Text \cup Form /\ w.kept \subseteq Text \cup Form
    BY <1>7 DEF Content, TextOf
  <2>11. /\ disk' \in [File -> Content \cup {None}]
         /\ approved' \in [File -> SUBSET (Text \cup Form)]
         /\ promised' \in [File -> SUBSET (Text \cup Form)]
    BY <2>7, <2>8, <2>9, <2>10 DEF TypeOK
  <2> QED
    BY <1>1, <1>3, <1>4, <1>5, <1>7, <2>1, <2>6, <2>11 DEF TypeOK, author
<1> QED
  BY <1>6, <1>7

\* The steps that leave the files alone.
LEMMA KeptTypes ==
    ASSUME TypeOK, UNCHANGED <<disk, author, commands, overlap, promised, approved, raced>>,
           run' \in [Proc -> Command], manifest' \in Manifest \cup {Corrupt},
           baseline' \in Project \cup {None}, settled' \in BOOLEAN
    PROVE  TypeOK'
BY DEF TypeOK, author

LEMMA StoreFingerprintSound ==
    ASSUME TypeOK, Shape, NEW p \in Proc, StoreFingerprint(p)
    PROVE  TypeOK' /\ Shape' /\ run[p].seen \in Project
<1>1. PICK r : r = run[p] /\ Good(r)
  BY DEF Shape
<1>2. r.kind = "init" /\ r.seen \in Project
  BY <1>1 DEF StoreFingerprint, Good, Fits
<1>3. PICK n : Good(n) /\ run' = [run EXCEPT ![p] = n]
  <2>1. Good([r EXCEPT !.pc = "load"])
    BY <1>1, <1>2, GoodLater, IdleIsCommand
  <2> QED
    BY <1>1, <2>1, IdleGood DEF StoreFingerprint
<1>4. run' \in [Proc -> Command] /\ Shape'
  BY <1>3, SetsRun
<1>5. baseline' \in Project /\ settled' \in BOOLEAN
  BY <1>1, <1>2 DEF StoreFingerprint, Fingerprint
<1>6. UNCHANGED <<disk, manifest, author, commands, overlap, promised, approved, raced>>
  BY DEF StoreFingerprint
<1> QED
  BY <1>1, <1>2, <1>4, <1>5, <1>6, KeptTypes DEF TypeOK

LEMMA LoadManifestSound ==
    ASSUME TypeOK, Shape, NEW p \in Proc, LoadManifest(p)
    PROVE  TypeOK' /\ Shape'
<1>1. PICK r : r = run[p] /\ Good(r)
  BY DEF Shape
<1>2. r.kind \in {"init", "emit"}
  BY <1>1 DEF LoadManifest, Good, Fits
<1>3. PICK n : Good(n) /\ run' = [run EXCEPT ![p] = n]
  <2>1. CASE Parses
    <3>1. PICK m \in Manifest : m = manifest
      BY <2>1 DEF Parses, TypeOK
    <3>2. Good([r EXCEPT !.pc = "record", !.mem = m])
      BY <1>1, <1>2, GoodLater
    <3> QED
      BY <1>1, <2>1, <3>1, <3>2 DEF LoadManifest
  <2>2. CASE ~Parses
    BY <2>2, IdleGood DEF LoadManifest
  <2> QED
    BY <2>1, <2>2
<1>4. run' \in [Proc -> Command] /\ Shape'
  BY <1>3, SetsRun
<1>5. UNCHANGED <<disk, manifest, baseline, author, commands, overlap, promised, approved, raced, settled>>
  BY DEF LoadManifest, files, history
<1> QED
  BY <1>4, <1>5, KeptTypes DEF TypeOK

LEMMA RecordSound ==
    ASSUME TypeOK, Shape, NEW p \in Proc, NEW f \in File, Record(p, f)
    PROVE  TypeOK' /\ Shape'
<1>1. PICK r : r = run[p] /\ Good(r)
  BY DEF Shape
<1>2. PICK c \in Content \cup {None} : c = disk[f]
  BY DEF TypeOK
<1>3. r \in Command
  BY <1>1 DEF Good
<1>4. PICK m \in Manifest : m = IF c = None THEN r.mem ELSE recordFile(r.mem, f, c, "generated")
  BY <1>3, RecordFile DEF Command
<1>5. PICK W \in SUBSET File : W = r.written \ {f}
  BY <1>3 DEF Command
<1>6. run' = [run EXCEPT ![p] = [r EXCEPT !.written = W, !.mem = m]]
  BY <1>1, <1>2, <1>4, <1>5 DEF Record
<1>7. Good([r EXCEPT !.written = W, !.mem = m])
  BY <1>1, GoodLater
<1>8. run' \in [Proc -> Command] /\ Shape'
  BY <1>6, <1>7, SetsRun
<1>9. UNCHANGED <<disk, manifest, baseline, author, commands, overlap, promised, approved, raced, settled>>
  BY DEF Record, files, history
<1> QED
  BY <1>8, <1>9, KeptTypes DEF TypeOK

\* The steps that end a command.
LEMMA EndSound ==
    ASSUME TypeOK, Shape, NEW p \in Proc, SaveManifest(p) \/ Finish(p) \/ StoreSynced(p) \/ Kill(p)
    PROVE  TypeOK' /\ Shape'
<1>1. run' = [run EXCEPT ![p] = Idle]
  BY DEF SaveManifest, Finish, StoreSynced, Kill
<1>2. run' \in [Proc -> Command] /\ Shape'
  BY <1>1, IdleGood, SetsRun
<1>3. PICK r : r = run[p] /\ Good(r)
  BY DEF Shape
<1>4. r.mem \in Manifest /\ (r.kind = "sync" => r.seen \in Project)
  BY <1>3 DEF Good, Fits, Command
<1>5. r.pc = "store" => r.kind = "sync"
  BY <1>3 DEF Good, Fits
<1>6. UNCHANGED <<disk, author, commands, overlap, promised, approved, raced>>
  BY DEF SaveManifest, Finish, StoreSynced, Kill, files, history
<1>7. CASE SaveManifest(p)
  <2>1. manifest' \in Manifest /\ UNCHANGED <<baseline, settled>>
    BY <1>3, <1>4, <1>7 DEF SaveManifest, Saved, history
  <2> QED
    BY <1>2, <1>6, <2>1, KeptTypes DEF TypeOK
<1>8. CASE Finish(p)
  <2>1. UNCHANGED <<manifest, baseline, settled>>
    BY <1>8 DEF Finish, files, history
  <2> QED
    BY <1>2, <1>6, <2>1, KeptTypes DEF TypeOK
<1>9. CASE StoreSynced(p)
  <2>1. baseline' \in Project /\ settled' = FALSE /\ UNCHANGED manifest
    BY <1>3, <1>4, <1>5, <1>9 DEF StoreSynced
  <2> QED
    BY <1>2, <1>6, <2>1, KeptTypes DEF TypeOK
<1>10. CASE Kill(p)
  <2>1. manifest' \in {manifest, Corrupt} /\ UNCHANGED baseline
    BY <1>10 DEF Kill
  <2>2. settled' \in BOOLEAN
    BY <1>10 DEF Kill, TypeOK
  <2> QED
    BY <1>2, <1>6, <2>1, <2>2, KeptTypes DEF TypeOK
<1> QED
  BY <1>7, <1>8, <1>9, <1>10

LEMMA ApplySound ==
    ASSUME TypeOK, Shape, NEW p \in Proc, ApplyDriftFix(p)
    PROVE  TypeOK' /\ Shape'
<1>1. PICK r : r = run[p] /\ Good(r)
  BY DEF Shape
<1>2. r.kind = "sync" /\ r.seen \in Project
  BY <1>1 DEF ApplyDriftFix, Good, Fits
<1>3. run' = [run EXCEPT ![p] = [r EXCEPT !.pc = "store"]]
  BY <1>1 DEF ApplyDriftFix
<1>4. run' \in [Proc -> Command] /\ Shape'
  <2>1. Good([r EXCEPT !.pc = "store"])
    BY <1>1, <1>2, GoodLater, IdleIsCommand
  <2> QED
    BY <1>3, <2>1, SetsRun
<1>5. baseline' \in Project /\ settled' = FALSE
      /\ UNCHANGED <<disk, manifest, author, commands, overlap, promised, approved, raced>>
  BY <1>1, <1>2 DEF ApplyDriftFix
<1> QED
  BY <1>4, <1>5, KeptTypes DEF TypeOK

\* The author's steps, which no command takes part in.
LEMMA AddTextSound ==
    ASSUME TypeOK, Shape, NEW f \in File, NEW t \in Text, NEW where \in {"plain", "kept", "nested"},
           AddText(f, t, where)
    PROVE  /\ TypeOK' /\ Shape'
           /\ disk'[f] \in Content /\ (\A g \in File \ {f} : disk'[g] = disk[g])
           /\ disk[f] # None => /\ disk'[f].form = disk[f].form /\ disk'[f].marks = disk[f].marks
                                /\ disk[f].kept \subseteq disk'[f].kept
           /\ disk[f] = None => disk'[f].form = Authored /\ ~disk'[f].marks
           /\ where = "kept" => t \in disk'[f].kept
           /\ disk'[f].plain \cup disk'[f].nested
                  \subseteq (IF disk[f] = None THEN {} ELSE disk[f].plain \cup disk[f].nested) \cup {t}
<1>1. PICK c \in Content : c = IF disk[f] = None THEN Fresh(Authored, FALSE) ELSE disk[f]
  BY FreshIsContent DEF TypeOK, Form
<1>2. PICK d \in Content : d = [c EXCEPT ![where] = @ \cup {t}]
  <2>1. CASE where = "plain"
    BY <2>1 DEF Content
  <2>2. CASE where = "kept"
    BY <2>2 DEF Content
  <2>3. CASE where = "nested"
    BY <2>3 DEF Content
  <2> QED
    BY <2>1, <2>2, <2>3
<1>3. disk' = [disk EXCEPT ![f] = d]
  BY <1>1, <1>2 DEF AddText
<1>4. /\ d.form = c.form /\ d.marks = c.marks /\ c.kept \subseteq d.kept
      /\ d.plain \cup d.nested \subseteq c.plain \cup c.nested \cup {t}
      /\ where = "kept" => t \in d.kept
  <2>1. CASE where = "plain"
    BY <1>2, <2>1 DEF Content
  <2>2. CASE where = "kept"
    BY <1>2, <2>2 DEF Content
  <2>3. CASE where = "nested"
    BY <1>2, <2>3 DEF Content
  <2> QED
    BY <2>1, <2>2, <2>3
<1>5. /\ promised' \in {promised, [promised EXCEPT ![f] = @ \cup {t}]}
      /\ raced' \in {raced, [raced EXCEPT ![f] = @ \cup {t}]}
      /\ edits' \in 0..MaxEdits
      /\ UNCHANGED <<manifest, baseline, project, changes, run, commands, overlap, approved, settled>>
  BY OwnershipAssumption DEF AddText, TypeOK
<1>6. TypeOK'
  BY <1>3, <1>5 DEF TypeOK
<1>7. Shape'
  BY <1>5 DEF Shape
<1>8. disk[f] = None => c.form = Authored /\ ~c.marks /\ c.plain = {} /\ c.nested = {}
  BY <1>1 DEF Fresh
<1>9. disk'[f] = d /\ \A g \in File \ {f} : disk'[g] = disk[g]
  BY <1>3 DEF TypeOK
<1> QED
  BY <1>1, <1>4, <1>6, <1>7, <1>8, <1>9

LEMMA AuthorSound ==
    ASSUME TypeOK, Shape,
           (\E f \in File : Delete(f)) \/ Repair \/ (\E q \in Project : Change(q))
    PROVE  TypeOK' /\ Shape' /\ run' = run
<1>1. ASSUME NEW f \in File, Delete(f) PROVE TypeOK' /\ Shape' /\ run' = run
  BY <1>1, OwnershipAssumption DEF Delete, TypeOK, Shape
<1>2. CASE Repair
  BY <1>2, IdleIsCommand DEF Repair, TypeOK, Shape, author, history
<1>3. ASSUME NEW q \in Project, Change(q) PROVE TypeOK' /\ Shape' /\ run' = run
  BY <1>3, OwnershipAssumption DEF Change, TypeOK, Shape, files, history
<1> QED
  BY <1>1, <1>2, <1>3

-----------------------------------------------------------------------------
Base == TypeOK /\ Shape

LEMMA InitBase == Init => Base
<1> SUFFICES ASSUME Init PROVE Base
  OBVIOUS
<1>1. run \in [Proc -> Command] /\ Shape
  BY IdleGood, IdleIsCommand DEF Init, Shape
<1>2. PICK S \in SUBSET File :
          disk = [f \in File |-> IF f \in S THEN Fresh(Authored, FALSE) ELSE None]
  BY DEF Init
<1>3. disk \in [File -> Content \cup {None}]
  BY <1>2, FreshIsContent DEF Form
<1>4. /\ manifest \in Manifest /\ baseline = None /\ project \in Project
      /\ commands = 0 /\ edits = 0 /\ changes = 0 /\ overlap = FALSE /\ settled = FALSE
  BY IdleIsCommand DEF Init
<1>5. /\ promised \in [File -> SUBSET (Text \cup Form)] /\ approved \in [File -> SUBSET (Text \cup Form)]
      /\ raced \in [File -> SUBSET Text]
  BY DEF Init
<1>6. 0 \in 0..MaxCommands /\ 0 \in 0..MaxEdits /\ 0 \in 0..MaxChanges
  BY OwnershipAssumption
<1> QED
  BY <1>1, <1>3, <1>4, <1>5, <1>6 DEF Base, TypeOK

LEMMA NextBase == ASSUME Base, [Next]_vars PROVE Base'
<1>1. CASE UNCHANGED vars
  BY <1>1 DEF Base, TypeOK, Shape, vars
<1>2. CASE Next
  <2>1. ASSUME NEW p \in Proc, NEW b \in BOOLEAN, StartInit(p, b) \/ StartAdopt(p, b) PROVE Base'
    BY <2>1, StartInitSound, StartAdoptSound DEF Base
  <2>2. ASSUME NEW p \in Proc, NEW b \in BOOLEAN, NEW c \in BOOLEAN, StartEmit(p, b, c) PROVE Base'
    BY <2>2, StartEmitSound DEF Base
  <2>3. ASSUME NEW p \in Proc, NEW e \in Evidence, NEW b \in BOOLEAN, StartSync(p, e, b) PROVE Base'
    BY <2>3, StartSyncSound DEF Base
  <2>4. ASSUME NEW p \in Proc, NEW f \in File, Read(p, f) \/ Record(p, f) PROVE Base'
    BY <2>4, ReadSound, RecordSound DEF Base
  <2>5. ASSUME NEW p \in Proc,
               Write(p) \/ AdoptFile(p) \/ StoreFingerprint(p) \/ LoadManifest(p) \/ ApplyDriftFix(p)
        PROVE  Base'
    BY <2>5, WriteSound, AdoptSound, StoreFingerprintSound, LoadManifestSound, ApplySound DEF Base
  <2>6. ASSUME NEW p \in Proc, SaveManifest(p) \/ Finish(p) \/ StoreSynced(p) \/ Kill(p) PROVE Base'
    BY <2>6, EndSound DEF Base
  <2>7. ASSUME NEW f \in File, NEW t \in Text, NEW where \in {"plain", "kept", "nested"},
               AddText(f, t, where)
        PROVE  Base'
    BY <2>7, AddTextSound DEF Base
  <2>8. CASE (\E f \in File : Delete(f)) \/ Repair \/ (\E q \in Project : Change(q))
    BY <2>8, AuthorSound DEF Base
  <2> QED
    BY <1>2, <2>1, <2>2, <2>3, <2>4, <2>5, <2>6, <2>7, <2>8 DEF Next
<1> QED
  BY <1>1, <1>2

LEMMA BaseInvariant == Spec => []Base
BY InitBase, NextBase, PTL DEF Spec

\* Every file, record and command is of its kind, whatever is edited, killed or
\* run at the same time.
THEOREM TypeCorrect == Spec => []TypeOK
<1>1. Base => TypeOK
  BY DEF Base
<1> QED
  BY <1>1, BaseInvariant, PTL

-----------------------------------------------------------------------------
(* The fields of a command after each of its steps.                        *)

Others(p) == \A q \in Proc \ {p} : run'[q] = run[q]

LEMMA Begins ==
    ASSUME Base, NEW p \in Proc, NEW r, Begin(p, r)
    PROVE  /\ run'[p] = r /\ Others(p) /\ UNCHANGED <<files, author, history>>
           /\ overlap' = (overlap \/ \E q \in Proc : Running(q))
BY DEF Base, TypeOK, Begin, Others

LEMMA StartInitMoves ==
    ASSUME Base, NEW p \in Proc, NEW force \in BOOLEAN, StartInit(p, force)
    PROVE  /\ Others(p) /\ UNCHANGED <<files, author, history>>
           /\ overlap' = (overlap \/ \E q \in Proc : Running(q))
           /\ run'[p].pc = "next" /\ run'[p].kind = "init"
           /\ run'[p].seen = project /\ run'[p].todo = Rendered(project)
           /\ run'[p].mem = NoRecords /\ run'[p].written = {}
<1>1. PICK new : new = [f \in File |-> IF f \in Rendered(project) THEN Fresh(project, f \in Marked) ELSE None]
  OBVIOUS
<1>2. PICK r : r = [Idle EXCEPT !.kind = "init", !.pc = "next", !.option = force,
                                !.seen = project, !.todo = Rendered(project), !.new = new]
  OBVIOUS
<1>3. Begin(p, r)
  BY <1>1, <1>2 DEF StartInit
<1>4. r.pc = "next" /\ r.kind = "init" /\ r.seen = project /\ r.todo = Rendered(project)
      /\ r.mem = NoRecords /\ r.written = {}
  BY <1>2 DEF Idle
<1> QED
  BY <1>3, <1>4, Begins

LEMMA StartEmitMoves ==
    ASSUME Base, NEW p \in Proc, NEW force \in BOOLEAN, NEW input \in BOOLEAN,
           StartEmit(p, force, input)
    PROVE  /\ Others(p) /\ UNCHANGED <<files, author, history>>
           /\ overlap' = (overlap \/ \E q \in Proc : Running(q))
           /\ run'[p].pc = "next" /\ run'[p].kind = "emit"
           /\ run'[p].mem = NoRecords /\ run'[p].written = {}
<1> DEFINE present == IF input THEN File ELSE {f \in File : disk[f] # None}
<1>1. PICK P : P = present
  OBVIOUS
<1>2. PICK new : new = [f \in File |-> IF f \notin P THEN None
                                       ELSE IF input THEN Fresh(Serialized, FALSE)
                                       ELSE Emitted(f, disk[f])]
  OBVIOUS
<1>3. PICK r : r = [Idle EXCEPT !.kind = "emit", !.pc = "next", !.option = force, !.todo = P, !.new = new]
  OBVIOUS
<1>4. Begin(p, r)
  BY <1>1, <1>2, <1>3 DEF StartEmit
<1>5. r.pc = "next" /\ r.kind = "emit" /\ r.mem = NoRecords /\ r.written = {} /\ r.new = new
  BY <1>3 DEF Idle
<1> QED
  BY <1>4, <1>5, Begins

LEMMA StartAdoptMoves ==
    ASSUME Base, NEW p \in Proc, NEW wrap \in BOOLEAN, StartAdopt(p, wrap)
    PROVE  /\ Others(p) /\ UNCHANGED <<files, author, history>>
           /\ overlap' = (overlap \/ \E q \in Proc : Running(q))
           /\ run'[p].pc = "next" /\ run'[p].kind = "adopt" /\ run'[p].written = {}
           /\ manifest # Corrupt /\ run'[p].mem = manifest
<1>1. PICK P : P = {f \in File : disk[f] # None /\ manifest[f] = None}
  OBVIOUS
<1>2. PICK r : r = [Idle EXCEPT !.kind = "adopt", !.pc = "next", !.option = wrap, !.mem = manifest, !.todo = P]
  OBVIOUS
<1>3. Begin(p, r) /\ manifest # Corrupt
  BY <1>1, <1>2 DEF StartAdopt
<1>4. r.pc = "next" /\ r.kind = "adopt" /\ r.mem = manifest /\ r.written = {}
  BY <1>2 DEF Idle
<1> QED
  BY <1>3, <1>4, Begins

LEMMA StartSyncMoves ==
    ASSUME Base, NEW p \in Proc, NEW e, NEW auto \in BOOLEAN, StartSync(p, e, auto)
    PROVE  /\ Others(p) /\ UNCHANGED <<files, author, history>>
           /\ overlap' = (overlap \/ \E q \in Proc : Running(q))
           /\ run'[p].pc \in {"apply", "store"} /\ run'[p].kind = "sync"
           /\ run'[p].mem = NoRecords /\ run'[p].written = {}
<1>1. PICK pc : pc = IF \E finding \in validateDrift(baseline, project, e) : canAutoFix(finding)
                     THEN "apply" ELSE "store"
  OBVIOUS
<1>2. PICK r : r = [Idle EXCEPT !.kind = "sync", !.pc = pc, !.option = auto, !.seen = project]
  OBVIOUS
<1>3. Begin(p, r)
  BY <1>1, <1>2 DEF StartSync
<1>4. r.pc \in {"apply", "store"} /\ r.kind = "sync" /\ r.mem = NoRecords /\ r.written = {}
  BY <1>1, <1>2 DEF Idle
<1> QED
  BY <1>3, <1>4, Begins

LEMMA ReadMoves ==
    ASSUME Base, NEW p \in Proc, NEW f \in File, Read(p, f)
    PROVE  /\ Others(p) /\ UNCHANGED <<files, author, overlap, history>>
           /\ run'[p].pc = "write" /\ run'[p].at = f /\ run'[p].buf = disk[f]
           /\ run'[p].todo = run[p].todo \ {f}
           /\ run'[p].kind = run[p].kind /\ run'[p].seen = run[p].seen /\ run'[p].new = run[p].new
           /\ run'[p].mem = run[p].mem /\ run'[p].written = run[p].written
           /\ run[p].pc = "next" /\ f \in run[p].todo
BY DEF Base, TypeOK, Command, Read, Others

LEMMA WriteMoves ==
    ASSUME Base, NEW p \in Proc, Write(p)
    PROVE  /\ Others(p) /\ UNCHANGED <<manifest, baseline, author, overlap, promised, raced, settled>>
           /\ run'[p].pc = "next" /\ run'[p].todo = run[p].todo
           /\ run'[p].kind = run[p].kind /\ run'[p].seen = run[p].seen /\ run'[p].new = run[p].new
           /\ run'[p].mem = run[p].mem
           /\ run'[p].written = IF Outcome(p) # None THEN run[p].written \cup {run[p].at}
                                ELSE run[p].written
BY DEF Base, TypeOK, Command, Write, Others, Counts

LEMMA AdoptMoves ==
    ASSUME Base, NEW p \in Proc, AdoptFile(p)
    PROVE  /\ Others(p) /\ UNCHANGED <<manifest, baseline, author, overlap, raced, settled>>
           /\ run'[p].pc = "next" /\ run'[p].kind = "adopt" /\ run[p].kind = "adopt" /\ run[p].pc = "write"
           /\ run'[p].mem = IF run[p].buf = None THEN run[p].mem
                            ELSE recordFile(run[p].mem, run[p].at, Wrapped(p), "adopted")
<1>1. CASE run[p].buf = None
  <2>1. run' = [run EXCEPT ![p] = [run[p] EXCEPT !.pc = "next", !.at = None]]
    BY <1>1 DEF AdoptFile
  <2>2. UNCHANGED <<manifest, baseline, author, overlap, raced, settled>>
        /\ run[p].pc = "write" /\ run[p].kind = "adopt"
    BY DEF AdoptFile
  <2> QED
    BY <1>1, <2>1, <2>2 DEF Base, TypeOK, Command, Others
<1>2. CASE run[p].buf # None
  <2>1. PICK W : W = run[p].written \cup {run[p].at}
    OBVIOUS
  <2>2. PICK m : m = recordFile(run[p].mem, run[p].at, Wrapped(p), "adopted")
    OBVIOUS
  <2>3. run' = [run EXCEPT ![p] = [run[p] EXCEPT !.pc = "next", !.at = None, !.buf = None, !.mem = m,
                                                 !.written = W]]
    BY <1>2, <2>1, <2>2 DEF AdoptFile
  <2>4. UNCHANGED <<manifest, baseline, author, overlap, raced, settled>>
        /\ run[p].pc = "write" /\ run[p].kind = "adopt"
    BY DEF AdoptFile
  <2> QED
    BY <1>2, <2>2, <2>3, <2>4 DEF Base, TypeOK, Command, Others
<1> QED
  BY <1>1, <1>2

LEMMA StoreFingerprintMoves ==
    ASSUME Base, NEW p \in Proc, StoreFingerprint(p)
    PROVE  /\ Others(p) /\ UNCHANGED <<disk, manifest, author, overlap, promised, approved, raced>>
           /\ run[p].kind = "init" /\ run[p].pc = "next" /\ run[p].todo = {}
           /\ \/ run'[p] = Idle
              \/ /\ run'[p].pc = "load" /\ run'[p].kind = run[p].kind /\ run'[p].new = run[p].new
                 /\ run'[p].mem = run[p].mem /\ run'[p].written = run[p].written
                 /\ run'[p].seen = run[p].seen
BY DEF Base, TypeOK, Command, StoreFingerprint, Others

LEMMA LoadManifestMoves ==
    ASSUME Base, NEW p \in Proc, LoadManifest(p)
    PROVE  /\ Others(p) /\ UNCHANGED <<files, author, overlap, history>>
           /\ run[p].kind = "init" => run[p].pc = "load"
           /\ \/ run'[p] = Idle
              \/ /\ run'[p].pc = "record" /\ run'[p].kind = run[p].kind /\ run'[p].new = run[p].new
                 /\ manifest # Corrupt /\ run'[p].mem = manifest /\ run'[p].written = run[p].written
                 /\ run'[p].seen = run[p].seen
BY DEF Base, TypeOK, Command, LoadManifest, Others, Parses

LEMMA RecordMoves ==
    ASSUME Base, NEW p \in Proc, NEW f \in File, Record(p, f)
    PROVE  /\ Others(p) /\ UNCHANGED <<files, author, overlap, history>>
           /\ run[p].pc = "record" /\ f \in run[p].written
           /\ run'[p].pc = "record" /\ run'[p].kind = run[p].kind /\ run'[p].new = run[p].new
           /\ run'[p].mem = IF disk[f] = None THEN run[p].mem
                            ELSE recordFile(run[p].mem, f, disk[f], "generated")
           /\ run'[p].written = run[p].written \ {f} /\ run'[p].seen = run[p].seen
BY DEF Base, TypeOK, Command, Record, Others

LEMMA ApplyMoves ==
    ASSUME Base, NEW p \in Proc, ApplyDriftFix(p)
    PROVE  /\ Others(p) /\ UNCHANGED <<disk, manifest, author, overlap, promised, approved, raced>>
           /\ run'[p].pc = "store" /\ run'[p].kind = run[p].kind /\ run[p].pc = "apply"
           /\ run'[p].mem = run[p].mem /\ run'[p].written = run[p].written /\ run'[p].new = run[p].new
           /\ settled' = FALSE
BY DEF Base, TypeOK, Command, ApplyDriftFix, Others

LEMMA EndMoves ==
    ASSUME Base, NEW p \in Proc, SaveManifest(p) \/ Finish(p) \/ StoreSynced(p) \/ Kill(p)
    PROVE  /\ Others(p) /\ run'[p] = Idle
           /\ UNCHANGED <<disk, author, overlap, promised, approved, raced>>
           /\ settled' => settled /\ baseline' = baseline
           /\ Kill(p) /\ run[p].kind = "init" => ~settled'
<1>1. run' = [run EXCEPT ![p] = Idle]
  BY DEF SaveManifest, Finish, StoreSynced, Kill
<1>2. UNCHANGED <<disk, author, overlap, promised, approved, raced>>
  BY DEF SaveManifest, Finish, StoreSynced, Kill, files, history
<1>3. settled' => settled /\ baseline' = baseline
  BY DEF SaveManifest, Finish, StoreSynced, Kill, files, history
<1>4. Kill(p) /\ run[p].kind = "init" => ~settled'
  BY DEF Kill
<1> QED
  BY <1>1, <1>2, <1>3, <1>4 DEF Base, TypeOK, Others

-----------------------------------------------------------------------------
(* Preserve blocks.                                                        *)

KeptOf(c) == IF c = None THEN {} ELSE c.kept

\* What the author put into a preserve block is in the file, and in the hands of
\* every command that is about to write it.
Preserved ==
    \A f \in File :
        /\ promised[f] \subseteq KeptOf(disk[f])
        /\ \A p \in Proc : Holds(p, f) => promised[f] \subseteq KeptOf(run[p].buf)

LEMMA NothingHeld ==
    ASSUME Base, Preserved, NEW p \in Proc, Others(p), run'[p].pc # "write", UNCHANGED <<disk, promised>>
    PROVE  Preserved'
BY DEF Preserved, Others, Holds

LEMMA WritePreserves ==
    ASSUME Base, Preserved, NEW p \in Proc, Write(p)
    PROVE  Preserved'
<1>1. PICK f \in File : f = run[p].at
  BY WriteSound DEF Base
<1>2. PICK out : out = Outcome(p)
  OBVIOUS
<1>3. /\ out \in Content \cup {None}
      /\ out # None => KeptOf(run[p].buf) \subseteq out.kept
  BY <1>1, <1>2, WriteSound, Written DEF Base, Outcome, KeptOf
<1>4. promised[f] \subseteq KeptOf(run[p].buf)
  BY <1>1 DEF Preserved, Holds, Write
<1>5. disk' = IF out = None THEN disk ELSE [disk EXCEPT ![f] = out]
  BY <1>1, <1>2 DEF Write
<1>6. Others(p) /\ run'[p].pc # "write" /\ promised' = promised
  BY WriteMoves
<1>7. CASE out = None
  BY <1>5, <1>6, <1>7, NothingHeld
<1>8. CASE out # None
  <2> SUFFICES ASSUME NEW g \in File
               PROVE  /\ promised[g] \subseteq KeptOf(disk'[g])
                      /\ \A q \in Proc : Holds(q, g)' => promised[g] \subseteq KeptOf(run'[q].buf)
    BY <1>6 DEF Preserved
  <2>1. promised[g] \subseteq KeptOf(disk'[g])
    <3>1. CASE g = f
      BY <1>3, <1>4, <1>5, <1>8, <3>1 DEF Base, TypeOK, KeptOf
    <3>2. CASE g # f
      BY <1>5, <1>8, <3>2 DEF Base, TypeOK, Preserved
    <3> QED
      BY <3>1, <3>2
  <2>2. ASSUME NEW q \in Proc, Holds(q, g)' PROVE promised[g] \subseteq KeptOf(run'[q].buf)
    BY <1>6, <2>2 DEF Preserved, Holds, Others
  <2> QED
    BY <2>1, <2>2
<1> QED
  BY <1>7, <1>8

LEMMA AdoptPreserves ==
    ASSUME Base, Preserved, NEW p \in Proc, AdoptFile(p)
    PROVE  Preserved'
<1>1. PICK f \in File : f = run[p].at
  BY AdoptSound DEF Base
<1>2. PICK c : c = run[p].buf
  OBVIOUS
<1>3. PICK w : w = Wrapped(p)
  OBVIOUS
<1>4. Others(p) /\ run'[p].pc # "write"
  BY AdoptMoves
<1>5. CASE c = None
  <2>1. UNCHANGED <<disk, promised>>
    BY <1>2, <1>5 DEF AdoptFile
  <2> QED
    BY <1>4, <2>1, NothingHeld
<1>6. CASE c # None /\ w = c
  <2>1. UNCHANGED <<disk, promised>>
    BY <1>2, <1>3, <1>6 DEF AdoptFile
  <2> QED
    BY <1>4, <2>1, NothingHeld
<1>7. CASE c # None /\ w # c
  <2>1. c \in Content /\ w \in Content
    BY <1>2, <1>3, <1>7, AdoptSound DEF Base
  <2>2. c.kept \subseteq w.kept
    BY <1>2, <1>3, <2>1, WrapPreserve DEF Wrapped
  <2>3. disk' = [disk EXCEPT ![f] = w]
    BY <1>1, <1>2, <1>3, <1>7 DEF AdoptFile
  <2>4. promised' = IF \A q \in Proc \ {p} : ~Holds(q, f)
                    THEN [promised EXCEPT ![f] = @ \cup w.kept] ELSE promised
    BY <1>1, <1>2, <1>3, <1>7 DEF AdoptFile
  <2>5. promised[f] \subseteq w.kept
    BY <1>1, <1>2, <1>7, <2>2 DEF Preserved, Holds, AdoptFile, KeptOf
  <2> SUFFICES ASSUME NEW g \in File
               PROVE  /\ promised'[g] \subseteq KeptOf(disk'[g])
                      /\ \A q \in Proc : Holds(q, g)' => promised'[g] \subseteq KeptOf(run'[q].buf)
    BY DEF Preserved
  <2>6. promised'[g] \subseteq KeptOf(disk'[g])
    <3>1. CASE g = f
      BY <2>1, <2>3, <2>4, <2>5, <3>1, MarkersAssumption DEF Base, TypeOK, KeptOf
    <3>2. CASE g # f
      BY <2>3, <2>4, <3>2 DEF Base, TypeOK, Preserved
    <3> QED
      BY <3>1, <3>2
  <2>7. ASSUME NEW q \in Proc, Holds(q, g)' PROVE promised'[g] \subseteq KeptOf(run'[q].buf)
    <3>1. q # p /\ run'[q] = run[q] /\ Holds(q, g)
      BY <1>4, <2>7 DEF Holds, Others
    <3>2. promised'[g] = promised[g]
      BY <2>4, <3>1 DEF Base, TypeOK
    <3> QED
      BY <3>1, <3>2 DEF Preserved
  <2> QED
    BY <2>6, <2>7
<1> QED
  BY <1>5, <1>6, <1>7

LEMMA AuthorPreserves ==
    ASSUME Base, Preserved, NEW f \in File
    PROVE  /\ \A t \in Text, where \in {"plain", "kept", "nested"} : AddText(f, t, where) => Preserved'
           /\ Delete(f) => Preserved'
<1>1. ASSUME NEW t \in Text, NEW where \in {"plain", "kept", "nested"}, AddText(f, t, where)
      PROVE  Preserved'
  <2>1. /\ disk'[f] \in Content /\ \A g \in File \ {f} : disk'[g] = disk[g]
        /\ KeptOf(disk[f]) \subseteq disk'[f].kept /\ (where = "kept" => t \in disk'[f].kept)
    BY <1>1, AddTextSound DEF Base, KeptOf
  <2>2. run' = run
    BY <1>1 DEF AddText
  <2>3. promised' = IF where = "kept" /\ Free(f) THEN [promised EXCEPT ![f] = @ \cup {t}] ELSE promised
    BY <1>1 DEF AddText
  <2> SUFFICES ASSUME NEW g \in File
               PROVE  /\ promised'[g] \subseteq KeptOf(disk'[g])
                      /\ \A q \in Proc : Holds(q, g)' => promised'[g] \subseteq KeptOf(run'[q].buf)
    BY DEF Preserved
  <2>4. promised'[g] \subseteq KeptOf(disk'[g])
    <3>1. CASE g = f
      <4>1. promised[f] \subseteq disk'[f].kept
        BY <2>1 DEF Preserved
      <4> QED
        BY <2>1, <2>3, <3>1, <4>1, MarkersAssumption DEF Base, TypeOK, KeptOf
    <3>2. CASE g # f
      BY <2>1, <2>3, <3>2 DEF Base, TypeOK, Preserved
    <3> QED
      BY <3>1, <3>2
  <2>5. ASSUME NEW q \in Proc, Holds(q, g)' PROVE promised'[g] \subseteq KeptOf(run'[q].buf)
    <3>1. Holds(q, g)
      BY <2>2, <2>5 DEF Holds
    <3>2. promised'[g] = promised[g]
      BY <2>3, <3>1 DEF Base, TypeOK, Free
    <3> QED
      BY <2>2, <3>1, <3>2 DEF Preserved
  <2> QED
    BY <2>4, <2>5
<1>2. ASSUME Delete(f) PROVE Preserved'
  BY <1>2 DEF Delete, Preserved, Base, TypeOK, KeptOf, Holds
<1> QED
  BY <1>1, <1>2

LEMMA ReadPreserves ==
    ASSUME Base, Preserved, NEW p \in Proc, NEW f \in File, Read(p, f)
    PROVE  Preserved'
BY ReadMoves DEF Preserved, Others, Holds, files, history

LEMMA NextPreserved == ASSUME Base, Preserved, [Next]_vars PROVE Preserved'
<1>1. CASE UNCHANGED vars
  BY <1>1 DEF Preserved, Holds, vars
<1>2. CASE Next
  <2>2. ASSUME NEW p \in Proc, NEW b \in BOOLEAN, StartInit(p, b) \/ StartAdopt(p, b) PROVE Preserved'
    BY <2>2, StartInitMoves, StartAdoptMoves, NothingHeld DEF files, history
  <2>3. ASSUME NEW p \in Proc, NEW b \in BOOLEAN, NEW c \in BOOLEAN, StartEmit(p, b, c) PROVE Preserved'
    BY <2>3, StartEmitMoves, NothingHeld DEF files, history
  <2>4. ASSUME NEW p \in Proc, NEW e \in Evidence, NEW b \in BOOLEAN, StartSync(p, e, b) PROVE Preserved'
    BY <2>4, StartSyncMoves, NothingHeld DEF files, history
  <2>5. ASSUME NEW p \in Proc, NEW f \in File, Read(p, f) \/ Record(p, f) PROVE Preserved'
    <3>1. CASE Record(p, f)
      BY <3>1, RecordMoves, NothingHeld DEF files, history
    <3> QED
      BY <2>5, <3>1, ReadPreserves
  <2>6. ASSUME NEW p \in Proc, StoreFingerprint(p) \/ LoadManifest(p) \/ ApplyDriftFix(p) PROVE Preserved'
    <3>1. UNCHANGED <<disk, promised>> /\ Others(p) /\ run'[p].pc # "write"
      <4>1. CASE StoreFingerprint(p)
        BY <4>1, StoreFingerprintMoves DEF Idle
      <4>2. CASE LoadManifest(p)
        BY <4>2, LoadManifestMoves DEF Idle, files, history
      <4>3. CASE ApplyDriftFix(p)
        BY <4>3, ApplyMoves
      <4> QED
        BY <2>6, <4>1, <4>2, <4>3
    <3> QED
      BY <3>1, NothingHeld
  <2>7. ASSUME NEW p \in Proc, SaveManifest(p) \/ Finish(p) \/ StoreSynced(p) \/ Kill(p) PROVE Preserved'
    BY <2>7, EndMoves, NothingHeld DEF Idle
  <2>8. CASE Repair \/ (\E q \in Project : Change(q))
    BY <2>8 DEF Repair, Change, Preserved, Holds, files, history
  <2> QED
    BY <1>2, <2>2, <2>3, <2>4, <2>5, <2>6, <2>7, <2>8, WritePreserves, AdoptPreserves, AuthorPreserves
       DEF Next
<1> QED
  BY <1>1, <1>2

\* Text in a preserve block outlives every command, --force included, in every
\* interleaving, unless a write to its file was under way when it came in.
THEOREM PreserveBlocksKept == Spec => []PreserveKept
<1>1. Init => Preserved
  BY DEF Init, Preserved, Holds, Idle
<1>2. Base /\ Preserved => PreserveKept
  BY DEF Preserved, PreserveKept, KeptOf
<1> QED
  BY <1>1, <1>2, BaseInvariant, NextPreserved, PTL DEF Spec

-----------------------------------------------------------------------------
(* Records.                                                                *)

Alone == ~overlap => \A p, q \in Proc : Running(p) /\ Running(q) => p = q

\* The manifest that a command will save has a record of every file that the one
\* in its place has a record of.
Carried ==
    (~overlap /\ manifest # Corrupt) =>
        \A p \in Proc : (run[p].pc = "record" \/ run[p].kind = "adopt") =>
            \A f \in File : manifest[f] # None => run[p].mem[f] # None

LEMMA NextAlone == ASSUME Base, Alone, [Next]_vars PROVE Alone'
<1>1. CASE UNCHANGED vars
  BY <1>1 DEF Alone, Running, vars
<1>2. CASE Next
  <2>1. ASSUME NEW p \in Proc, Others(p), overlap' = (overlap \/ \E q \in Proc : Running(q)) PROVE Alone'
    BY <2>1 DEF Alone, Running, Others
  <2>2. ASSUME NEW p \in Proc, Others(p), overlap' = overlap, Running(p) PROVE Alone'
    BY <2>2 DEF Alone, Running, Others
  <2>3. ASSUME NEW p \in Proc, NEW b \in BOOLEAN, StartInit(p, b) \/ StartAdopt(p, b) PROVE Alone'
    BY <2>1, <2>3, StartInitMoves, StartAdoptMoves
  <2>4. ASSUME NEW p \in Proc, NEW b \in BOOLEAN, NEW c \in BOOLEAN, StartEmit(p, b, c) PROVE Alone'
    BY <2>1, <2>4, StartEmitMoves
  <2>5. ASSUME NEW p \in Proc, NEW e \in Evidence, NEW b \in BOOLEAN, StartSync(p, e, b) PROVE Alone'
    BY <2>1, <2>5, StartSyncMoves
  <2>6. ASSUME NEW p \in Proc, NEW f \in File, Read(p, f) \/ Record(p, f) PROVE Alone'
    BY <2>2, <2>6, ReadMoves, RecordMoves DEF Running
  <2>7. ASSUME NEW p \in Proc, Write(p) \/ AdoptFile(p) PROVE Alone'
    BY <2>2, <2>7, WriteMoves, AdoptMoves DEF Running, Write
  <2>8. ASSUME NEW p \in Proc, StoreFingerprint(p) \/ LoadManifest(p) \/ ApplyDriftFix(p) PROVE Alone'
    <3>1. Running(p)
      BY <2>8 DEF Running, StoreFingerprint, LoadManifest, ApplyDriftFix
    <3> QED
      BY <2>2, <2>8, <3>1, StoreFingerprintMoves, LoadManifestMoves, ApplyMoves
  <2>9. ASSUME NEW p \in Proc, SaveManifest(p) \/ Finish(p) \/ StoreSynced(p) \/ Kill(p) PROVE Alone'
    <3>1. Running(p)
      BY <2>9 DEF Running, SaveManifest, Finish, StoreSynced, Kill
    <3> QED
      BY <2>2, <2>9, <3>1, EndMoves
  <2>10. CASE (\E f \in File, t \in Text, where \in {"plain", "kept", "nested"} : AddText(f, t, where))
              \/ (\E f \in File : Delete(f)) \/ Repair \/ (\E q \in Project : Change(q))
    <3>1. UNCHANGED <<run, overlap>>
      BY <2>10 DEF AddText, Delete, Repair, Change
    <3> QED
      BY <3>1 DEF Alone, Running
  <2> QED
    BY <1>2, <2>3, <2>4, <2>5, <2>6, <2>7, <2>8, <2>9, <2>10 DEF Next
<1> QED
  BY <1>1, <1>2

LEMMA CarriedOver ==
    ASSUME Base, Carried, NEW p \in Proc, Others(p), ~overlap' => ~overlap, manifest' = manifest,
           ((run'[p].pc = "record" \/ run'[p].kind = "adopt") /\ manifest # Corrupt /\ ~overlap') =>
               \A f \in File : manifest[f] # None => run'[p].mem[f] # None
    PROVE  Carried'
BY DEF Carried, Others, Base, TypeOK

LEMMA NextCarried == ASSUME Base, Alone, Carried, [Next]_vars PROVE Carried'
<1>1. CASE UNCHANGED vars
  BY <1>1 DEF Carried, vars
<1>2. CASE Next
  <2>1. ASSUME NEW p \in Proc, NEW b \in BOOLEAN, StartInit(p, b) PROVE Carried'
    <3>1. /\ Others(p) /\ (~overlap' => ~overlap) /\ manifest' = manifest
          /\ run'[p].pc # "record" /\ run'[p].kind # "adopt"
      BY <2>1, StartInitMoves DEF files
    <3> QED
      BY <3>1, CarriedOver
  <2>2. ASSUME NEW p \in Proc, NEW b \in BOOLEAN, NEW c \in BOOLEAN, StartEmit(p, b, c) PROVE Carried'
    <3>1. /\ Others(p) /\ (~overlap' => ~overlap) /\ manifest' = manifest
          /\ run'[p].pc # "record" /\ run'[p].kind # "adopt"
      BY <2>2, StartEmitMoves DEF files
    <3> QED
      BY <3>1, CarriedOver
  <2>3. ASSUME NEW p \in Proc, NEW e \in Evidence, NEW b \in BOOLEAN, StartSync(p, e, b) PROVE Carried'
    <3>1. /\ Others(p) /\ (~overlap' => ~overlap) /\ manifest' = manifest
          /\ run'[p].pc # "record" /\ run'[p].kind # "adopt"
      BY <2>3, StartSyncMoves DEF files
    <3> QED
      BY <3>1, CarriedOver
  <2>4. ASSUME NEW p \in Proc, NEW b \in BOOLEAN, StartAdopt(p, b) PROVE Carried'
    <3>1. Others(p) /\ (~overlap' => ~overlap) /\ manifest' = manifest /\ run'[p].mem = manifest
      BY <2>4, StartAdoptMoves DEF files
    <3> QED
      BY <3>1, CarriedOver
  <2>5. ASSUME NEW p \in Proc, NEW f \in File, Read(p, f) PROVE Carried'
    <3>1. run'[p].pc = "write" /\ run'[p].mem = run[p].mem /\ run'[p].kind = run[p].kind
          /\ Others(p) /\ manifest' = manifest /\ overlap' = overlap
      BY <2>5, ReadMoves DEF files
    <3> QED
      BY <3>1, CarriedOver DEF Carried
  <2>6. ASSUME NEW p \in Proc, Write(p) PROVE Carried'
    <3>1. run'[p].pc = "next" /\ run'[p].kind \in {"init", "emit"}
          /\ Others(p) /\ manifest' = manifest /\ overlap' = overlap
      BY <2>6, WriteMoves DEF Write
    <3> QED
      BY <3>1, CarriedOver
  <2>7. ASSUME NEW p \in Proc, AdoptFile(p) PROVE Carried'
    <3>1. run[p].kind = "adopt" /\ Others(p) /\ manifest' = manifest /\ overlap' = overlap
      BY <2>7, AdoptMoves
    <3>2. PICK m \in Manifest : m = run[p].mem
      BY DEF Base, Shape, Good, Command
    <3>3. \A f \in File : m[f] # None => run'[p].mem[f] # None
      <4>1. CASE run[p].buf = None
        BY <2>7, <3>2, <4>1, AdoptMoves
      <4>2. CASE run[p].buf # None
        <5>1. PICK f \in File, w \in Content : f = run[p].at /\ w = Wrapped(p)
          BY <2>7, <4>2, AdoptSound DEF Base
        <5>2. run'[p].mem = recordFile(m, f, w, "adopted")
          BY <2>7, <3>2, <4>2, <5>1, AdoptMoves
        <5> QED
          BY <5>2, RecordFile
      <4> QED
        BY <4>1, <4>2
    <3> QED
      BY <3>1, <3>2, <3>3, CarriedOver DEF Carried
  <2>8. ASSUME NEW p \in Proc, StoreFingerprint(p) PROVE Carried'
    <3>1. run'[p].pc \in {"idle", "load"} /\ run'[p].kind \in {"none", "init"}
          /\ Others(p) /\ manifest' = manifest /\ overlap' = overlap
      BY <2>8, StoreFingerprintMoves DEF Idle
    <3> QED
      BY <3>1, CarriedOver
  <2>9. ASSUME NEW p \in Proc, LoadManifest(p) PROVE Carried'
    <3>1. Others(p) /\ manifest' = manifest /\ overlap' = overlap
          /\ (run'[p] = Idle \/ run'[p].mem = manifest)
      BY <2>9, LoadManifestMoves DEF files
    <3> QED
      BY <3>1, CarriedOver DEF Idle
  <2>10. ASSUME NEW p \in Proc, NEW f \in File, Record(p, f) PROVE Carried'
    <3>1. run[p].pc = "record" /\ Others(p) /\ manifest' = manifest /\ overlap' = overlap
      BY <2>10, RecordMoves DEF files
    <3>2. PICK m \in Manifest : m = run[p].mem
      BY DEF Base, Shape, Good, Command
    <3>3. \A g \in File : m[g] # None => run'[p].mem[g] # None
      <4>1. CASE disk[f] = None
        BY <2>10, <3>2, <4>1, RecordMoves
      <4>2. CASE disk[f] # None
        <5>1. PICK c \in Content : c = disk[f]
          BY <4>2 DEF Base, TypeOK
        <5>2. run'[p].mem = recordFile(m, f, c, "generated")
          BY <2>10, <3>2, <4>2, <5>1, RecordMoves
        <5> QED
          BY <5>2, RecordFile
      <4> QED
        BY <4>1, <4>2
    <3> QED
      BY <3>1, <3>2, <3>3, CarriedOver DEF Carried
  <2>11. ASSUME NEW p \in Proc, ApplyDriftFix(p) PROVE Carried'
    <3>1. run'[p].pc = "store" /\ run'[p].kind = "sync"
          /\ Others(p) /\ manifest' = manifest /\ overlap' = overlap
      BY <2>11, ApplyMoves DEF Base, Shape, Good, Fits
    <3> QED
      BY <3>1, CarriedOver
  <2>12. ASSUME NEW p \in Proc, SaveManifest(p) \/ Finish(p) \/ StoreSynced(p) \/ Kill(p) PROVE Carried'
    <3>1. Others(p) /\ run'[p] = Idle /\ overlap' = overlap
      BY <2>12, EndMoves
    <3>2. Running(p)
      BY <2>12 DEF Running, SaveManifest, Finish, StoreSynced, Kill
    <3>3. ~overlap => \A q \in Proc \ {p} : run[q].pc = "idle" /\ run[q].kind = "none"
      BY <3>2 DEF Alone, Running, Base, Shape, Good, Fits
    <3>4. ~overlap' => \A q \in Proc : run'[q].pc # "record" /\ run'[q].kind # "adopt"
      BY <3>1, <3>3 DEF Others, Idle
    <3> QED
      BY <3>4 DEF Carried
  <2>13. CASE (\E f \in File, t \in Text, where \in {"plain", "kept", "nested"} : AddText(f, t, where))
              \/ (\E f \in File : Delete(f)) \/ (\E q \in Project : Change(q))
    <3>1. UNCHANGED <<run, overlap, manifest>>
      BY <2>13 DEF AddText, Delete, Change, files
    <3> QED
      BY <3>1 DEF Carried
  <2>14. CASE Repair
    BY <2>14 DEF Repair, NoRecords, Carried
  <2> QED
    BY <1>2, <2>1, <2>2, <2>3, <2>4, <2>5, <2>6, <2>7, <2>8, <2>9, <2>10, <2>11, <2>12, <2>13, <2>14
       DEF Next
<1> QED
  BY <1>1, <1>2

\* As long as no two commands have overlapped, a file that is on record stays on
\* record, unless the manifest is cut short: whatever was killed in between.
THEOREM RecordsStay == Spec => RecordsKept
<1>1. Init => Alone /\ Carried
  BY DEF Init, Alone, Carried, Running, Idle
<1>2. ASSUME Base, Alone, Carried, [Next]_vars
      PROVE  (~overlap' /\ manifest # Corrupt /\ manifest' # Corrupt) =>
                 \A f \in File : manifest[f] # None => manifest'[f] # None
  <2>1. CASE manifest' = manifest
    BY <2>1
  <2>2. CASE manifest' # manifest /\ manifest # Corrupt /\ manifest' # Corrupt
    <3>1. PICK p \in Proc : SaveManifest(p)
      <4>1. ASSUME NEW p \in Proc PROVE Kill(p) => manifest' \in {manifest, Corrupt}
        BY DEF Kill
      <4>2. Next
        BY <1>2, <2>2 DEF vars
      <4>3. \A p \in Proc, b \in BOOLEAN : ~StartInit(p, b) /\ ~StartAdopt(p, b)
        BY <1>2, <2>2, StartInitMoves, StartAdoptMoves DEF files
      <4>4. \A p \in Proc, b, c \in BOOLEAN : ~StartEmit(p, b, c)
        BY <1>2, <2>2, StartEmitMoves DEF files
      <4>5. \A p \in Proc, e \in Evidence, b \in BOOLEAN : ~StartSync(p, e, b)
        BY <1>2, <2>2, StartSyncMoves DEF files
      <4>6. \A p \in Proc, f \in File : ~Read(p, f) /\ ~Record(p, f)
        BY <2>2 DEF Read, Record, files
      <4>7. \A p \in Proc : ~Write(p) /\ ~AdoptFile(p) /\ ~StoreFingerprint(p) /\ ~LoadManifest(p)
                            /\ ~Finish(p) /\ ~ApplyDriftFix(p) /\ ~StoreSynced(p)
        BY <2>2 DEF Write, AdoptFile, StoreFingerprint, LoadManifest, Finish, ApplyDriftFix,
                    StoreSynced, files
      <4>8. /\ \A f \in File, t \in Text, where \in {"plain", "kept", "nested"} : ~AddText(f, t, where)
            /\ \A f \in File : ~Delete(f)
            /\ ~Repair /\ \A q \in Project : ~Change(q)
        BY <2>2 DEF AddText, Delete, Repair, Change, files
      <4> QED
        BY <2>2, <4>1, <4>2, <4>3, <4>4, <4>5, <4>6, <4>7, <4>8 DEF Next
    <3>2. manifest' = run[p].mem /\ overlap' = overlap
      BY <3>1 DEF SaveManifest, Saved
    <3>3. run[p].pc = "record" \/ run[p].kind = "adopt"
      BY <3>1 DEF SaveManifest
    <3> QED
      BY <1>2, <2>2, <3>2, <3>3 DEF Carried
  <2> QED
    BY <2>1, <2>2
<1> QED
  BY <1>1, <1>2, BaseInvariant, NextAlone, NextCarried, PTL DEF Spec, RecordsKept

-----------------------------------------------------------------------------
(* What is taken for bp's own.                                             *)

Loose(c) == c.plain \cup c.nested
Ours(f, c) == Loose(c) \subseteq approved[f] \cup raced[f]
OursIn(m) == \A f \in File : m[f] # None => Ours(f, m[f].hash)
Writes(p) == run[p].kind \in {"init", "emit"}

\* Every content on record, in the manifest or in the hands of a command, and every
\* file that a command has written and not read back, is free of text that the
\* author wrote and nobody handed over.
Owned ==
    /\ manifest # Corrupt => OursIn(manifest)
    /\ \A p \in Proc : /\ OursIn(run[p].mem)
                       /\ Writes(p) => \A f \in run[p].written : disk[f] # None => Ours(f, disk[f])

LEMMA OwnedOver ==
    ASSUME Base, Owned, NEW p \in Proc, Others(p), UNCHANGED <<disk, approved, raced>>,
           manifest' # Corrupt => OursIn(manifest'), OursIn(run'[p].mem),
           \/ run'[p].written = {}
           \/ run'[p].kind = run[p].kind /\ run'[p].written \subseteq run[p].written
    PROVE  Owned'
<1>1. \A f \in File : \A c : Ours(f, c)' <=> Ours(f, c)
  BY DEF Ours
<1>2. (manifest # Corrupt => OursIn(manifest))'
  BY <1>1 DEF OursIn
<1>3. ASSUME NEW q \in Proc
      PROVE  OursIn(run[q].mem)' /\ (Writes(q) => \A f \in run[q].written : disk[f] # None => Ours(f, disk[f]))'
  <2>1. CASE q = p
    <3>1. run[p].written \subseteq File
      BY DEF Base, TypeOK, Command
    <3> QED
      BY <1>1, <2>1, <3>1 DEF OursIn, Owned, Writes
  <2>2. CASE q # p
    <3>1. run[q].written \subseteq File /\ run'[q] = run[q]
      BY <2>2 DEF Base, TypeOK, Command, Others
    <3> QED
      BY <1>1, <3>1 DEF OursIn, Owned, Writes
  <2> QED
    BY <2>1, <2>2
<1> QED
  BY <1>2, <1>3 DEF Owned

LEMMA RecordOurs ==
    ASSUME Base, NEW m \in Manifest, OursIn(m), NEW f \in File, NEW c \in Content, Ours(f, c),
           NEW origin \in {"generated", "adopted"}
    PROVE  OursIn(recordFile(m, f, c, origin))
BY RecordFile DEF OursIn

LEMMA WriteOwned == ASSUME Base, Owned, NEW p \in Proc, Write(p) PROVE Owned'
<1>1. PICK f \in File : f = run[p].at
  BY WriteSound DEF Base
<1>2. PICK out \in Content \cup {None} : out = Outcome(p)
  BY <1>1, WriteSound, Written DEF Base, Outcome
<1>3. PICK new \in Content : new = run[p].new[f]
  BY <1>1, WriteSound DEF Base
<1>4. /\ Others(p) /\ UNCHANGED <<manifest, raced>> /\ run'[p].mem = run[p].mem
      /\ run'[p].kind = run[p].kind
      /\ run'[p].written = IF out # None THEN run[p].written \cup {f} ELSE run[p].written
  BY <1>1, <1>2, WriteMoves
<1>5. disk' = IF out = None THEN disk ELSE [disk EXCEPT ![f] = out]
  BY <1>1, <1>2 DEF Write
<1>6. CASE out = None
  <2>1. approved' = approved
    BY <1>2, <1>6 DEF Write
  <2>2. (manifest' # Corrupt => OursIn(manifest')) /\ OursIn(run'[p].mem)
    BY <1>4 DEF Owned
  <2>3. run'[p].written = run[p].written /\ disk' = disk
    BY <1>4, <1>5, <1>6
  <2> QED
    BY <1>4, <2>1, <2>2, <2>3, OwnedOver
<1>7. CASE out # None
  <2>1. Loose(out) = Loose(new)
    <3>1. PICK old \in Content \cup {None}, force \in BOOLEAN :
              old = run[p].buf /\ force = run[p].option
      BY WriteSound DEF Base
    <3>2. out = writeFileImpl(f, old, new, force)
      BY <1>1, <1>2, <1>3, <3>1 DEF Outcome
    <3> QED
      BY <1>7, <3>2, Written DEF Loose
  <2>2. approved' = IF run[p].kind = "init" THEN approved
                    ELSE [approved EXCEPT ![f] = @ \cup TextOf(new)]
    BY <1>1, <1>2, <1>3, <1>7 DEF Write
  <2>3. \A g \in File : approved[g] \subseteq approved'[g]
    BY <2>2 DEF Base, TypeOK
  <2>4. Loose(new) \subseteq approved'[f]
    <3>1. CASE run[p].kind = "init"
      <4>1. new = Fresh(run[p].seen, f \in Marked)
        BY <1>3, <3>1, MarkersAssumption DEF Base, Shape, Good, Fits
      <4> QED
        BY <4>1 DEF Fresh, Loose
    <3>2. CASE run[p].kind # "init"
      BY <2>2, <3>2 DEF Base, TypeOK, Loose, TextOf
    <3> QED
      BY <3>1, <3>2
  <2>5. \A g \in File : \A c : Ours(g, c) => Ours(g, c)'
    BY <1>4, <2>3 DEF Ours
  <2>6. disk'[f] = out /\ \A g \in File \ {f} : disk'[g] = disk[g]
    BY <1>5, <1>7 DEF Base, TypeOK
  <2>7. Ours(f, out)'
    BY <2>1, <2>4 DEF Ours
  <2>8. (manifest # Corrupt => OursIn(manifest))'
    BY <1>4, <2>5 DEF Owned, OursIn
  <2>9. ASSUME NEW q \in Proc
        PROVE  OursIn(run[q].mem)' /\ (Writes(q) => \A g \in run[q].written : disk[g] # None => Ours(g, disk[g]))'
    <3>1. run'[q].mem = run[q].mem /\ run'[q].kind = run[q].kind
          /\ run'[q].written \subseteq run[q].written \cup {f} /\ run[q].written \subseteq File
      BY <1>4 DEF Others, Base, TypeOK, Command
    <3>2. OursIn(run[q].mem)'
      BY <2>5, <3>1 DEF Owned, OursIn
    <3>3. ASSUME Writes(q)', NEW g \in run'[q].written, disk'[g] # None PROVE Ours(g, disk[g])'
      <4>1. CASE g = f
        BY <2>6, <2>7, <4>1
      <4>2. CASE g # f
        BY <2>5, <2>6, <3>1, <3>3, <4>2 DEF Owned, Writes
      <4> QED
        BY <4>1, <4>2
    <3> QED
      BY <3>2, <3>3
  <2> QED
    BY <2>8, <2>9 DEF Owned
<1> QED
  BY <1>6, <1>7

LEMMA AdoptOwned == ASSUME Base, Owned, NEW p \in Proc, AdoptFile(p) PROVE Owned'
<1>1. PICK f \in File : f = run[p].at
  BY AdoptSound DEF Base
<1>2. /\ Others(p) /\ UNCHANGED <<manifest, raced>> /\ run'[p].kind = "adopt" /\ run[p].kind = "adopt"
  BY AdoptMoves
<1>3. CASE run[p].buf = None
  <2>1. UNCHANGED <<disk, approved>> /\ run'[p].mem = run[p].mem
    BY <1>3, AdoptMoves DEF AdoptFile
  <2>2. (manifest' # Corrupt => OursIn(manifest')) /\ OursIn(run'[p].mem)
    BY <1>2, <2>1 DEF Owned
  <2>3. run'[p].written = run[p].written
    <3>1. run' = [run EXCEPT ![p] = [run[p] EXCEPT !.pc = "next", !.at = None]]
      BY <1>3 DEF AdoptFile
    <3> QED
      BY <3>1 DEF Base, TypeOK, Command
  <2> QED
    BY <1>2, <2>1, <2>2, <2>3, OwnedOver
<1>4. CASE run[p].buf # None
  <2>1. PICK c \in Content, w \in Content : c = run[p].buf /\ w = Wrapped(p)
    BY <1>4, AdoptSound DEF Base
  <2>2. PICK m \in Manifest : m = run[p].mem
    BY DEF Base, Shape, Good, Command
  <2>3. run'[p].mem = recordFile(m, f, w, "adopted")
    BY <1>1, <1>4, <2>1, <2>2, AdoptMoves
  <2>4. disk' = IF w = c THEN disk ELSE [disk EXCEPT ![f] = w]
    BY <1>1, <1>4, <2>1 DEF AdoptFile
  <2>5. approved' = [approved EXCEPT ![f] = @ \cup TextOf(c)]
    BY <1>1, <1>4, <2>1 DEF AdoptFile
  <2>6. Loose(w) \subseteq approved'[f]
    <3>1. Loose(w) \subseteq TextOf(c)
      BY <2>1, WrapPreserve DEF Wrapped, Loose, TextOf
    <3> QED
      BY <2>5, <3>1 DEF Base, TypeOK
  <2>7. \A g \in File : approved[g] \subseteq approved'[g]
    BY <2>5 DEF Base, TypeOK
  <2>8. \A g \in File : \A x : Ours(g, x) => Ours(g, x)'
    BY <1>2, <2>7 DEF Ours
  <2>9. Ours(f, w)'
    BY <2>6 DEF Ours
  <2>10. OursIn(run[p].mem)'
    <3>1. OursIn(m)
      BY <2>2 DEF Owned
    <3>2. /\ recordFile(m, f, w, "adopted")[f].hash = w
          /\ \A g \in File : g # f => recordFile(m, f, w, "adopted")[g] = m[g]
      BY RecordFile
    <3>3. PICK n : n = recordFile(m, f, w, "adopted")
      OBVIOUS
    <3>4. ASSUME NEW g \in File, n[g] # None PROVE Ours(g, n[g].hash)'
      BY <2>8, <2>9, <3>1, <3>2, <3>3, <3>4 DEF OursIn
    <3> QED
      BY <2>3, <3>3, <3>4 DEF OursIn
  <2>11. (manifest # Corrupt => OursIn(manifest))'
    BY <1>2, <2>8 DEF Owned, OursIn
  <2>12. ASSUME NEW q \in Proc \ {p}
         PROVE  OursIn(run[q].mem)' /\ (Writes(q) => \A g \in run[q].written : disk[g] # None => Ours(g, disk[g]))'
    <3>1. run'[q] = run[q] /\ run[q].written \subseteq File
      BY <1>2 DEF Others, Base, TypeOK, Command
    <3>2. OursIn(run[q].mem)'
      BY <2>8, <3>1 DEF Owned, OursIn
    <3>3. ASSUME Writes(q)', NEW g \in run'[q].written, disk'[g] # None PROVE Ours(g, disk[g])'
      <4>1. CASE disk'[g] = disk[g]
        BY <2>8, <3>1, <3>3, <4>1 DEF Owned, Writes
      <4>2. CASE g = f /\ disk'[g] = w
        BY <2>9, <4>2
      <4> QED
        BY <2>4, <3>1, <4>1, <4>2 DEF Base, TypeOK
    <3> QED
      BY <3>2, <3>3
  <2>13. ~Writes(p)'
    BY <1>2 DEF Writes
  <2> QED
    BY <2>10, <2>11, <2>12, <2>13 DEF Owned
<1> QED
  BY <1>3, <1>4

LEMMA AddTextOwned ==
    ASSUME Base, Owned, NEW f \in File, NEW t \in Text, NEW where \in {"plain", "kept", "nested"},
           AddText(f, t, where)
    PROVE  Owned'
<1>1. /\ disk'[f] \in Content /\ \A g \in File \ {f} : disk'[g] = disk[g]
      /\ Loose(disk'[f]) \subseteq (IF disk[f] = None THEN {} ELSE Loose(disk[f])) \cup {t}
  BY AddTextSound DEF Base, Loose
<1>2. UNCHANGED <<manifest, run, approved>>
  BY DEF AddText
<1>3. raced' = IF \E p \in Proc : f \in run[p].written /\ run[p].kind # "adopt"
               THEN [raced EXCEPT ![f] = @ \cup {t}] ELSE raced
  BY DEF AddText
<1>4. \A g \in File : raced[g] \subseteq raced'[g]
  BY <1>3 DEF Base, TypeOK
<1>5. \A g \in File : \A c : Ours(g, c) => Ours(g, c)'
  BY <1>2, <1>4 DEF Ours
<1>6. (manifest # Corrupt => OursIn(manifest))'
  BY <1>2, <1>5 DEF Owned, OursIn
<1>7. ASSUME NEW q \in Proc
      PROVE  OursIn(run[q].mem)' /\ (Writes(q) => \A g \in run[q].written : disk[g] # None => Ours(g, disk[g]))'
  <2>1. run'[q] = run[q] /\ run[q].written \subseteq File
    BY <1>2 DEF Base, TypeOK, Command
  <2>2. OursIn(run[q].mem)'
    BY <1>5, <2>1 DEF Owned, OursIn
  <2>3. ASSUME Writes(q), NEW g \in run[q].written, disk'[g] # None PROVE Ours(g, disk[g])'
    <3>1. CASE g # f
      BY <1>1, <1>5, <2>1, <2>3, <3>1 DEF Owned
    <3>2. CASE g = f
      <4>1. t \in raced'[f]
        BY <1>3, <2>3, <3>2 DEF Writes, Base, TypeOK
      <4>2. disk[f] # None => Loose(disk[f]) \subseteq approved[f] \cup raced[f]
        BY <2>3, <3>2 DEF Owned, Ours
      <4> QED
        BY <1>1, <1>2, <1>4, <3>2, <4>1, <4>2 DEF Ours
    <3> QED
      BY <3>1, <3>2
  <2> QED
    BY <2>1, <2>2, <2>3 DEF Writes
<1> QED
  BY <1>6, <1>7 DEF Owned

LEMMA NextOwned == ASSUME Base, Owned, [Next]_vars PROVE Owned'
<1>1. CASE UNCHANGED vars
  <2>1. /\ UNCHANGED <<manifest, run, disk>> /\ approved' = approved /\ raced' = raced
    BY <1>1 DEF vars
  <2> QED
    BY <2>1 DEF Owned, OursIn, Ours, Writes
<1>2. CASE Next
  <2> DEFINE Same(p) == /\ Others(p) /\ UNCHANGED <<disk, approved, raced>>
                        /\ manifest' # Corrupt => OursIn(manifest')
                        /\ OursIn(run'[p].mem)
                        /\ \/ run'[p].written = {}
                           \/ run'[p].kind = run[p].kind /\ run'[p].written \subseteq run[p].written
  <2>1. ASSUME NEW p \in Proc, Same(p) PROVE Owned'
    BY <2>1, OwnedOver
  <2> HIDE DEF Same
  <2>2. OursIn(NoRecords)
    BY DEF OursIn, NoRecords
  <2>3. ASSUME NEW p \in Proc, NEW b \in BOOLEAN, StartInit(p, b) PROVE Owned'
    <3>1. Same(p)
      BY <2>2, <2>3, StartInitMoves DEF Same, Owned, files, history
    <3> QED
      BY <2>1, <3>1
  <2>4. ASSUME NEW p \in Proc, NEW b \in BOOLEAN, NEW c \in BOOLEAN, StartEmit(p, b, c) PROVE Owned'
    <3>1. Same(p)
      BY <2>2, <2>4, StartEmitMoves DEF Same, Owned, files, history
    <3> QED
      BY <2>1, <3>1
  <2>5. ASSUME NEW p \in Proc, NEW e \in Evidence, NEW b \in BOOLEAN, StartSync(p, e, b) PROVE Owned'
    <3>1. Same(p)
      BY <2>2, <2>5, StartSyncMoves DEF Same, Owned, files, history
    <3> QED
      BY <2>1, <3>1
  <2>6. ASSUME NEW p \in Proc, NEW b \in BOOLEAN, StartAdopt(p, b) PROVE Owned'
    <3>1. Same(p)
      BY <2>6, StartAdoptMoves DEF Same, Owned, files, history
    <3> QED
      BY <2>1, <3>1
  <2>7. ASSUME NEW p \in Proc, NEW f \in File, Read(p, f) PROVE Owned'
    <3>1. Same(p)
      BY <2>7, ReadMoves DEF Same, Owned, files, history
    <3> QED
      BY <2>1, <3>1
  <2>8. ASSUME NEW p \in Proc, NEW f \in File, Record(p, f) PROVE Owned'
    <3>1. OursIn(run'[p].mem)
      <4>1. PICK m \in Manifest : m = run[p].mem
        BY DEF Base, Shape, Good, Command
      <4>2. OursIn(m)
        BY <4>1 DEF Owned
      <4>3. CASE disk[f] = None
        BY <2>8, <4>1, <4>2, <4>3, RecordMoves
      <4>4. CASE disk[f] # None
        <5>1. PICK c \in Content : c = disk[f]
          BY <4>4 DEF Base, TypeOK
        <5>2. Writes(p) /\ f \in run[p].written
          BY <2>8, RecordMoves DEF Base, Shape, Good, Fits, Writes
        <5>3. Ours(f, c)
          BY <4>4, <5>1, <5>2 DEF Owned
        <5>4. run'[p].mem = recordFile(m, f, c, "generated")
          BY <2>8, <4>1, <4>4, <5>1, RecordMoves
        <5> QED
          BY <4>2, <5>3, <5>4, RecordOurs
      <4> QED
        BY <4>3, <4>4
    <3>2. Same(p)
      BY <2>8, <3>1, RecordMoves DEF Same, Owned, files, history
    <3> QED
      BY <2>1, <3>2
  <2>9. ASSUME NEW p \in Proc, StoreFingerprint(p) PROVE Owned'
    <3>1. Same(p)
      BY <2>2, <2>9, StoreFingerprintMoves DEF Same, Owned, Idle
    <3> QED
      BY <2>1, <3>1
  <2>10. ASSUME NEW p \in Proc, LoadManifest(p) PROVE Owned'
    <3>1. Same(p)
      BY <2>2, <2>10, LoadManifestMoves DEF Same, Owned, Idle, files, history
    <3> QED
      BY <2>1, <3>1
  <2>11. ASSUME NEW p \in Proc, ApplyDriftFix(p) PROVE Owned'
    <3>1. Same(p)
      BY <2>11, ApplyMoves DEF Same, Owned
    <3> QED
      BY <2>1, <3>1
  <2>12. ASSUME NEW p \in Proc, SaveManifest(p) \/ Finish(p) \/ StoreSynced(p) \/ Kill(p) PROVE Owned'
    <3>1. manifest' # Corrupt => OursIn(manifest')
      <4>1. manifest' = run[p].mem \/ manifest' \in {manifest, Corrupt}
        BY <2>12 DEF SaveManifest, Saved, Finish, StoreSynced, Kill, files
      <4> QED
        BY <4>1 DEF Owned
    <3>2. OursIn(run'[p].mem) /\ run'[p].written = {}
      BY <2>2, <2>12, EndMoves DEF Idle
    <3>3. Same(p)
      BY <2>12, <3>1, <3>2, EndMoves DEF Same
    <3> QED
      BY <2>1, <3>3
  <2>13. ASSUME NEW f \in File, Delete(f) PROVE Owned'
    <3>1. UNCHANGED <<manifest, run, approved, raced>>
          /\ disk'[f] = None /\ \A g \in File \ {f} : disk'[g] = disk[g]
      BY <2>13 DEF Delete, Base, TypeOK
    <3>2. \A q \in Proc : run[q].written \subseteq File
      BY DEF Base, TypeOK, Command
    <3> QED
      BY <3>1, <3>2 DEF Owned, OursIn, Ours, Writes
  <2>14. CASE Repair
    <3>1. UNCHANGED <<disk, run, approved, raced>> /\ manifest' = NoRecords
      BY <2>14 DEF Repair, history
    <3> QED
      BY <2>2, <3>1 DEF Owned, OursIn, Ours, Writes
  <2>15. ASSUME NEW q \in Project, Change(q) PROVE Owned'
    <3>1. UNCHANGED <<manifest, disk, run, approved, raced>>
      BY <2>15 DEF Change, files, history
    <3> QED
      BY <3>1 DEF Owned, OursIn, Ours, Writes
  <2> QED
    BY <1>2, <2>3, <2>4, <2>5, <2>6, <2>7, <2>8, <2>9, <2>10, <2>11, <2>12, <2>13, <2>14, <2>15,
       WriteOwned, AdoptOwned, AddTextOwned DEF Next
<1> QED
  BY <1>1, <1>2

\* A file whose status is managed holds no text of the author's outside its preserve
\* blocks but text handed to adopt or to emit, or written between a command's write
\* and its reading back.
THEOREM ManagedFilesAreOurs == Spec => []ManagedIsOurs
<1>1. Init => Owned
  <2>1. OursIn(NoRecords) /\ Idle.mem = NoRecords /\ Idle.kind = "none"
    BY DEF OursIn, NoRecords, Idle
  <2> QED
    BY <2>1 DEF Init, Owned, Writes
<1>2. Owned => ManagedIsOurs
  <2> SUFFICES ASSUME Owned, manifest # Corrupt, NEW f \in File,
                      classifyFile(manifest, f, disk[f]) = "managed"
               PROVE  disk[f].plain \cup disk[f].nested \subseteq approved[f] \cup raced[f]
    BY DEF ManagedIsOurs
  <2>1. manifest[f] # None /\ manifest[f].hash = disk[f]
    BY DEF classifyFile
  <2> QED
    BY <2>1 DEF Owned, OursIn, Ours, Loose
<1> QED
  BY <1>1, <1>2, BaseInvariant, NextOwned, PTL DEF Spec

-----------------------------------------------------------------------------
(* Drift.                                                                  *)

\* File f is as an init for project q leaves it, or not one that goes stale.
UpToDate(f, q) ==
    (disk[f] # None /\ disk[f].marks /\ disk[f].form \in Project) => disk[f].form = q

Rendering(p) == run[p].kind = "init" /\ run[p].pc \in {"next", "write"}

\* The markers and the form of the file that p holds have not changed since p read it.
FormHeld(p, f) ==
    (disk[f] # None /\ disk[f].marks /\ disk[f].form \in Project) =>
        run[p].buf # None /\ run[p].buf.marks /\ run[p].buf.form = disk[f].form

\* The last init has left nothing stale, and the one at work leaves nothing behind.
Fresher ==
    /\ settled => baseline \in Project
    /\ (settled /\ ~overlap /\ \A p \in Proc : ~Rendering(p)) =>
           \A f \in Rendered(baseline) \ Ignored : UpToDate(f, baseline)
    /\ ~overlap => \A p \in Proc : Rendering(p) =>
           /\ \A f \in Rendered(run[p].seen) \ (Ignored \cup run[p].todo) :
                  Holds(p, f) \/ UpToDate(f, run[p].seen)
           /\ \A f \in File : Holds(p, f) => FormHeld(p, f)

LEMMA FresherOver ==
    ASSUME Base, Fresher, NEW p \in Proc, Others(p), disk' = disk, ~overlap' => ~overlap,
           ~Rendering(p)', settled' => settled /\ baseline' = baseline /\ ~Rendering(p)
    PROVE  Fresher'
<1>1. \A f \in File, q \in Project : UpToDate(f, q)' <=> UpToDate(f, q)
  BY DEF UpToDate
<1>2. \A q \in Project : Rendered(q) \subseteq File
  BY OwnershipAssumption
<1>3. \A q \in Proc : Rendering(q)' => q # p /\ Rendering(q) /\ run'[q] = run[q]
  BY DEF Rendering, Others
<1>4. \A q \in Proc : Rendering(q) /\ ~Rendering(q)' => q = p
  BY DEF Rendering, Others
<1>5. (settled => baseline \in Project)'
  BY DEF Fresher
<1>6. ASSUME settled', ~overlap', \A q \in Proc : ~Rendering(q)', NEW f \in Rendered(baseline') \ Ignored
      PROVE  UpToDate(f, baseline)'
  <2>1. settled /\ baseline' = baseline /\ ~overlap /\ \A q \in Proc : ~Rendering(q)
    BY <1>4, <1>6
  <2>2. UpToDate(f, baseline) /\ baseline \in Project /\ f \in File
    BY <1>2, <1>6, <2>1 DEF Fresher
  <2> QED
    BY <1>1, <2>1, <2>2
<1>7. ASSUME ~overlap', NEW q \in Proc, Rendering(q)'
      PROVE  /\ \A f \in Rendered(run'[q].seen) \ (Ignored \cup run'[q].todo) :
                    Holds(q, f)' \/ UpToDate(f, run[q].seen)'
             /\ \A f \in File : Holds(q, f)' => FormHeld(q, f)'
  <2>1. Rendering(q) /\ run'[q] = run[q] /\ ~overlap
    BY <1>3, <1>7
  <2>2. run[q].seen \in Project
    BY <2>1 DEF Base, Shape, Good, Fits, Rendering
  <2>3. ASSUME NEW f \in Rendered(run[q].seen) \ (Ignored \cup run[q].todo)
        PROVE  Holds(q, f)' \/ UpToDate(f, run[q].seen)'
    BY <1>1, <1>2, <2>1, <2>2, <2>3 DEF Fresher, Holds
  <2>4. ASSUME NEW f \in File, Holds(q, f)' PROVE FormHeld(q, f)'
    BY <2>1, <2>4 DEF Fresher, Holds, FormHeld
  <2> QED
    BY <2>1, <2>3, <2>4
<1> QED
  BY <1>5, <1>6, <1>7 DEF Fresher

\* A file that could go stale: what matters of a content here.
Dated(c) == c # None /\ c.marks /\ c.form \in Project

\* Steps that no init takes and that make no file look like a rendered one.
LEMMA FresherEdited ==
    ASSUME Base, Fresher, UNCHANGED <<baseline, settled, overlap>>,
           \A q \in Proc : Rendering(q)' => Rendering(q) /\ run'[q] = run[q],
           \A q \in Proc : Rendering(q) => Rendering(q)',
           \A f \in File : Dated(disk'[f]) => Dated(disk[f]) /\ disk'[f].form = disk[f].form
    PROVE  Fresher'
<1>1. \A f \in File, q \in Project : UpToDate(f, q) => UpToDate(f, q)'
  BY DEF UpToDate, Dated
<1>2. \A q \in Project : Rendered(q) \subseteq File
  BY OwnershipAssumption
<1>3. ASSUME settled, ~overlap, \A q \in Proc : ~Rendering(q)', NEW f \in Rendered(baseline) \ Ignored
      PROVE  UpToDate(f, baseline)'
  <2>1. UpToDate(f, baseline) /\ baseline \in Project /\ f \in File
    BY <1>2, <1>3 DEF Fresher
  <2>2. UpToDate(f, baseline) => (Dated(disk'[f]) => disk'[f].form = baseline)
    BY <2>1 DEF UpToDate, Dated
  <2> QED
    BY <2>1, <2>2 DEF UpToDate, Dated
<1>4. ASSUME ~overlap, NEW q \in Proc, Rendering(q)'
      PROVE  /\ \A f \in Rendered(run'[q].seen) \ (Ignored \cup run'[q].todo) :
                    Holds(q, f)' \/ UpToDate(f, run[q].seen)'
             /\ \A f \in File : Holds(q, f)' => FormHeld(q, f)'
  <2>1. Rendering(q) /\ run'[q] = run[q] /\ run[q].seen \in Project
    BY <1>4 DEF Base, Shape, Good, Fits, Rendering
  <2>2. ASSUME NEW f \in Rendered(run[q].seen) \ (Ignored \cup run[q].todo), ~Holds(q, f)
        PROVE  UpToDate(f, run[q].seen)'
    <3>1. UpToDate(f, run[q].seen) /\ f \in File
      BY <1>2, <1>4, <2>1, <2>2 DEF Fresher
    <3> QED
      BY <1>4, <2>1, <3>1 DEF UpToDate, Dated
  <2>3. ASSUME NEW f \in File, Holds(q, f) PROVE FormHeld(q, f)'
    <3>1. FormHeld(q, f)
      BY <1>4, <2>1, <2>3 DEF Fresher
    <3> QED
      BY <2>1, <3>1 DEF FormHeld, Dated
  <2> QED
    BY <2>1, <2>2, <2>3 DEF Holds
<1> QED
  BY <1>3, <1>4 DEF Fresher

LEMMA OnlyRendering ==
    ASSUME Base, Alone, ~overlap, NEW p \in Proc, Rendering(p)
    PROVE  \A q \in Proc \ {p} : ~Rendering(q)
BY DEF Alone, Running, Rendering

LEMMA InitWriteFresher ==
    ASSUME Base, Alone, Fresher, NEW p \in Proc, Write(p), run[p].kind = "init"
    PROVE  Fresher'
<1>1. PICK f \in File, q \in Project : f = run[p].at /\ q = run[p].seen
  BY WriteSound DEF Base, Shape, Good, Fits
<1>2. PICK old \in Content \cup {None}, new \in Content, force \in BOOLEAN :
          old = run[p].buf /\ new = run[p].new[f] /\ force = run[p].option
  BY <1>1, WriteSound DEF Base
<1>3. new.form = q
  <2>1. new = Fresh(q, f \in Marked)
    BY <1>1, <1>2, MarkersAssumption DEF Base, Shape, Good, Fits
  <2> QED
    BY <2>1 DEF Fresh
<1>4. PICK out : out = writeFileImpl(f, old, new, force)
  OBVIOUS
<1>5. disk' = IF out = None THEN disk ELSE [disk EXCEPT ![f] = out]
  BY <1>1, <1>2, <1>4 DEF Write, Outcome
<1>6. /\ out \in Content \cup {None} /\ (out # None => out.form = q)
      /\ (out = None /\ f \notin Ignored) => old # None /\ (old = new \/ ~old.marks)
  BY <1>3, <1>4, Written
<1>7. /\ Others(p) /\ UNCHANGED <<baseline, settled, overlap>> /\ run'[p].pc = "next"
      /\ run'[p].kind = "init" /\ run'[p].seen = q /\ run'[p].todo = run[p].todo
  BY <1>1, WriteMoves
<1>8. Rendering(p) /\ Rendering(p)' /\ Holds(p, f)
  BY <1>1, <1>7 DEF Rendering, Write, Holds
<1>9. ASSUME ~overlap, f \notin Ignored PROVE UpToDate(f, q)'
  <2>1. FormHeld(p, f)
    BY <1>8, <1>9 DEF Fresher
  <2>2. CASE out # None
    BY <1>5, <1>6, <2>2 DEF Base, TypeOK, UpToDate
  <2>3. CASE out = None
    <3>1. Dated(disk[f]) => disk[f].form = q
      BY <1>2, <1>3, <1>6, <1>9, <2>1, <2>3 DEF FormHeld, Dated
    <3> QED
      BY <1>5, <2>3, <3>1 DEF UpToDate, Dated
  <2> QED
    BY <2>2, <2>3
<1>10. ASSUME ~overlap, NEW g \in Rendered(q) \ (Ignored \cup run[p].todo)
       PROVE  UpToDate(g, q)'
  <2>1. CASE g = f
    BY <1>9, <1>10, <2>1
  <2>2. CASE g # f
    <3>1. g \in File /\ ~Holds(p, g)
      BY <1>1, <2>2, OwnershipAssumption DEF Holds
    <3>2. UpToDate(g, q)
      BY <1>1, <1>8, <1>10, <3>1 DEF Fresher
    <3>3. disk'[g] = disk[g]
      BY <1>5, <2>2, <3>1 DEF Base, TypeOK
    <3> QED
      BY <3>2, <3>3 DEF UpToDate
  <2> QED
    BY <2>1, <2>2
<1>11. ASSUME ~overlap, NEW r \in Proc, Rendering(r)' PROVE r = p
  <2>1. r # p => Rendering(r)
    BY <1>7, <1>11 DEF Rendering, Others
  <2> QED
    BY <1>8, <1>11, <2>1, OnlyRendering
<1>12. \A g \in File : ~Holds(p, g)'
  BY <1>7 DEF Holds
<1> QED
  BY <1>7, <1>8, <1>10, <1>11, <1>12 DEF Fresher

LEMMA OtherWriteFresher ==
    ASSUME Base, Fresher, NEW p \in Proc, AdoptFile(p) \/ (Write(p) /\ run[p].kind # "init")
    PROVE  Fresher'
<1>1. /\ Others(p) /\ UNCHANGED <<baseline, settled, overlap>>
      /\ run[p].kind # "init" /\ run'[p].kind # "init"
  BY WriteMoves, AdoptMoves
<1>2. /\ \A q \in Proc : Rendering(q)' => Rendering(q) /\ run'[q] = run[q]
      /\ \A q \in Proc : Rendering(q) => Rendering(q)'
  BY <1>1 DEF Rendering, Others
<1>3. \A f \in File : Dated(disk'[f]) => Dated(disk[f]) /\ disk'[f].form = disk[f].form
  <2>1. CASE AdoptFile(p)
    <3>1. CASE run[p].buf = None
      BY <2>1, <3>1 DEF AdoptFile
    <3>2. CASE run[p].buf # None
      <4>1. PICK f \in File, c \in Content, w \in Content :
                f = run[p].at /\ c = run[p].buf /\ w = Wrapped(p)
        BY <2>1, <3>2, AdoptSound DEF Base
      <4>2. disk' = IF w = c THEN disk ELSE [disk EXCEPT ![f] = w]
        BY <2>1, <3>2, <4>1 DEF AdoptFile
      <4>3. w # c => w.form = Authored
        BY <4>1, WrapPreserve DEF Wrapped
      <4> QED
        BY <4>2, <4>3, OwnershipAssumption DEF Dated, Base, TypeOK
    <3> QED
      BY <3>1, <3>2
  <2>2. CASE Write(p) /\ run[p].kind # "init"
    <3>1. PICK f \in File : f = run[p].at
      BY <2>2, WriteSound DEF Base
    <3>2. PICK old \in Content \cup {None}, new \in Content, force \in BOOLEAN :
              old = run[p].buf /\ new = run[p].new[f] /\ force = run[p].option
      BY <2>2, <3>1, WriteSound DEF Base
    <3>3. new.form = Serialized
      BY <2>2, <3>1, <3>2, MarkersAssumption DEF Write, Base, Shape, Good, Fits
    <3>4. PICK out : out = writeFileImpl(f, old, new, force)
      OBVIOUS
    <3>5. out # None => out.form = Serialized
      BY <3>3, <3>4, Written
    <3>6. disk' = IF out = None THEN disk ELSE [disk EXCEPT ![f] = out]
      BY <2>2, <3>1, <3>2, <3>4 DEF Write, Outcome
    <3> QED
      BY <3>5, <3>6, OwnershipAssumption DEF Dated, Base, TypeOK
  <2> QED
    BY <2>1, <2>2
<1> QED
  BY <1>1, <1>2, <1>3, FresherEdited

LEMMA AuthorFresher ==
    ASSUME Base, Fresher, NEW f \in File
    PROVE  /\ \A t \in Text, where \in {"plain", "kept", "nested"} : AddText(f, t, where) => Fresher'
           /\ Delete(f) => Fresher'
<1>1. ASSUME NEW t \in Text, NEW where \in {"plain", "kept", "nested"}, AddText(f, t, where)
      PROVE  Fresher'
  <2>1. /\ \A g \in File \ {f} : disk'[g] = disk[g]
        /\ disk[f] # None => disk'[f].form = disk[f].form /\ disk'[f].marks = disk[f].marks
        /\ disk[f] = None => ~disk'[f].marks
    BY <1>1, AddTextSound DEF Base
  <2>2. UNCHANGED <<run, baseline, settled, overlap>>
    BY <1>1 DEF AddText
  <2>3. \A g \in File : Dated(disk'[g]) => Dated(disk[g]) /\ disk'[g].form = disk[g].form
    BY <2>1 DEF Dated
  <2> QED
    BY <2>2, <2>3, FresherEdited DEF Rendering
<1>2. ASSUME Delete(f) PROVE Fresher'
  <2>1. UNCHANGED <<run, baseline, settled, overlap>>
        /\ \A g \in File : disk'[g] = IF g = f THEN None ELSE disk[g]
    BY <1>2 DEF Delete, Base, TypeOK
  <2>2. \A g \in File : Dated(disk'[g]) => Dated(disk[g]) /\ disk'[g].form = disk[g].form
    BY <2>1 DEF Dated
  <2> QED
    BY <2>1, <2>2, FresherEdited DEF Rendering
<1> QED
  BY <1>1, <1>2

LEMMA StartInitFresher ==
    ASSUME Base, Fresher, NEW p \in Proc, NEW force \in BOOLEAN, StartInit(p, force)
    PROVE  Fresher'
<1>1. /\ Others(p) /\ UNCHANGED <<disk, baseline, settled>> /\ run'[p].pc = "next"
      /\ run'[p].kind = "init" /\ run'[p].todo = Rendered(run'[p].seen)
      /\ overlap' = (overlap \/ \E q \in Proc : Running(q))
  BY StartInitMoves DEF files, history
<1>2. Rendering(p)' /\ \A f \in File : ~Holds(p, f)'
  BY <1>1 DEF Rendering, Holds
<1>3. ASSUME ~overlap', NEW q \in Proc, Rendering(q)' PROVE q = p
  BY <1>1, <1>3 DEF Rendering, Running, Others
<1> QED
  BY <1>1, <1>2, <1>3 DEF Fresher

LEMMA ReadFresher ==
    ASSUME Base, Fresher, NEW p \in Proc, NEW f \in File, Read(p, f)
    PROVE  Fresher'
<1>1. /\ Others(p) /\ UNCHANGED <<disk, baseline, settled, overlap>>
      /\ run[p].pc = "next" /\ f \in run[p].todo
      /\ run'[p].pc = "write" /\ run'[p].at = f /\ run'[p].buf = disk[f]
      /\ run'[p].todo = run[p].todo \ {f}
      /\ run'[p].kind = run[p].kind /\ run'[p].seen = run[p].seen
  BY ReadMoves DEF files, history
<1>2. \A q \in Proc : Rendering(q)' <=> Rendering(q)
  BY <1>1 DEF Rendering, Others
<1>3. ASSUME ~overlap, NEW q \in Proc, Rendering(q)
      PROVE  /\ \A g \in Rendered(run'[q].seen) \ (Ignored \cup run'[q].todo) :
                    Holds(q, g)' \/ UpToDate(g, run[q].seen)'
             /\ \A g \in File : Holds(q, g)' => FormHeld(q, g)'
  <2>1. CASE q = p
    <3>1. ASSUME NEW g \in Rendered(run[p].seen) \ (Ignored \cup (run[p].todo \ {f}))
          PROVE  Holds(p, g)' \/ UpToDate(g, run[p].seen)'
      <4>1. CASE g = f
        BY <1>1, <4>1 DEF Holds
      <4>2. CASE g # f
        <5>1. ~Holds(p, g)
          BY <1>1 DEF Holds
        <5>2. UpToDate(g, run[p].seen)
          BY <1>3, <2>1, <3>1, <4>2, <5>1 DEF Fresher
        <5> QED
          BY <1>1, <5>2 DEF UpToDate
      <4> QED
        BY <4>1, <4>2
    <3>2. \A g \in File : Holds(p, g)' => FormHeld(p, g)'
      BY <1>1 DEF Holds, FormHeld
    <3> QED
      BY <1>1, <2>1, <3>1, <3>2
  <2>2. CASE q # p
    BY <1>1, <1>3, <2>2 DEF Fresher, Others, Holds, FormHeld, UpToDate
  <2> QED
    BY <2>1, <2>2
<1>4. (settled /\ ~overlap /\ \A q \in Proc : ~Rendering(q)) =>
          \A g \in Rendered(baseline) \ Ignored : UpToDate(g, baseline)'
  BY <1>1 DEF Fresher, UpToDate
<1> QED
  BY <1>1, <1>2, <1>3, <1>4 DEF Fresher

LEMMA StoreFingerprintFresher ==
    ASSUME Base, Alone, Fresher, NEW p \in Proc, StoreFingerprint(p)
    PROVE  Fresher'
<1>1. /\ Others(p) /\ UNCHANGED <<disk, overlap>> /\ Rendering(p) /\ run[p].todo = {}
      /\ run[p].pc = "next" /\ run'[p].pc \notin {"next", "write"}
  BY StoreFingerprintMoves DEF Rendering, Idle
<1>2. PICK q \in Project : q = run[p].seen
  BY StoreFingerprintSound DEF Base
<1>3. baseline' = q /\ settled'
  BY <1>2 DEF StoreFingerprint, Fingerprint
<1>4. ASSUME ~overlap, NEW f \in Rendered(q) \ Ignored PROVE UpToDate(f, q)'
  <2>1. ~Holds(p, f)
    BY <1>1 DEF Holds
  <2>2. UpToDate(f, q)
    BY <1>1, <1>2, <1>4, <2>1 DEF Fresher
  <2> QED
    BY <1>1, <2>2 DEF UpToDate
<1>5. ASSUME ~overlap, NEW r \in Proc PROVE ~Rendering(r)'
  BY <1>1, <1>5, OnlyRendering DEF Rendering, Others
<1> QED
  BY <1>1, <1>3, <1>4, <1>5 DEF Fresher

LEMMA NextFresher == ASSUME Base, Alone, Fresher, [Next]_vars PROVE Fresher'
<1>1. ASSUME UNCHANGED <<disk, baseline, settled, overlap, run>> PROVE Fresher'
  BY <1>1, FresherEdited DEF Rendering, Dated
<1>2. CASE UNCHANGED vars
  BY <1>1, <1>2 DEF vars
<1>3. CASE Next
  <2> DEFINE Calm(p) == /\ Others(p) /\ disk' = disk /\ (~overlap' => ~overlap)
                        /\ ~Rendering(p)'
                        /\ settled' => settled /\ baseline' = baseline /\ ~Rendering(p)
  <2>1. ASSUME NEW p \in Proc, Calm(p) PROVE Fresher'
    BY <2>1, FresherOver
  <2> HIDE DEF Calm
  <2>2. ASSUME NEW p \in Proc, ~Running(p) PROVE ~Rendering(p)
    BY <2>2 DEF Running, Rendering
  <2>3. ASSUME NEW p \in Proc, NEW b \in BOOLEAN, StartAdopt(p, b) PROVE Fresher'
    <3>1. ~Running(p)
      BY <2>3 DEF StartAdopt, Begin, CanBegin
    <3>2. Calm(p)
      BY <2>2, <2>3, <3>1, StartAdoptMoves DEF Calm, Rendering, files, history
    <3> QED
      BY <2>1, <3>2
  <2>4. ASSUME NEW p \in Proc, NEW b \in BOOLEAN, NEW c \in BOOLEAN, StartEmit(p, b, c) PROVE Fresher'
    <3>1. ~Running(p)
      BY <2>4 DEF StartEmit, Begin, CanBegin
    <3>2. Calm(p)
      BY <2>2, <2>4, <3>1, StartEmitMoves DEF Calm, Rendering, files, history
    <3> QED
      BY <2>1, <3>2
  <2>5. ASSUME NEW p \in Proc, NEW e \in Evidence, NEW b \in BOOLEAN, StartSync(p, e, b) PROVE Fresher'
    <3>1. ~Running(p)
      BY <2>5 DEF StartSync, Begin, CanBegin
    <3>2. Calm(p)
      BY <2>2, <2>5, <3>1, StartSyncMoves DEF Calm, Rendering, files, history
    <3> QED
      BY <2>1, <3>2
  <2>6. ASSUME NEW p \in Proc, NEW f \in File, Record(p, f) PROVE Fresher'
    <3>1. Calm(p)
      BY <2>6, RecordMoves DEF Calm, Rendering, files, history
    <3> QED
      BY <2>1, <3>1
  <2>7. ASSUME NEW p \in Proc, LoadManifest(p) PROVE Fresher'
    <3>1. Calm(p)
      BY <2>7, LoadManifestMoves DEF Calm, Rendering, Idle, files, history
    <3> QED
      BY <2>1, <3>1
  <2>8. ASSUME NEW p \in Proc, ApplyDriftFix(p) PROVE Fresher'
    <3>1. Calm(p)
      BY <2>8, ApplyMoves DEF Calm, Rendering
    <3> QED
      BY <2>1, <3>1
  <2>9. ASSUME NEW p \in Proc, SaveManifest(p) \/ Finish(p) \/ StoreSynced(p) \/ Kill(p) PROVE Fresher'
    <3>1. /\ Others(p) /\ run'[p] = Idle /\ disk' = disk /\ overlap' = overlap
          /\ settled' => settled /\ baseline' = baseline
      BY <2>9, EndMoves
    <3>2. settled' => ~Rendering(p)
      <4>1. CASE Kill(p)
        BY <4>1, EndMoves DEF Rendering
      <4>2. CASE SaveManifest(p) \/ Finish(p)
        BY <4>2 DEF SaveManifest, Finish, Rendering
      <4>3. CASE StoreSynced(p)
        BY <4>3 DEF StoreSynced
      <4> QED
        BY <2>9, <4>1, <4>2, <4>3
    <3>3. Calm(p)
      BY <3>1, <3>2 DEF Calm, Rendering, Idle
    <3> QED
      BY <2>1, <3>3
  <2>10. CASE Repair \/ (\E q \in Project : Change(q))
    <3>1. UNCHANGED <<disk, baseline, settled, overlap, run>>
      BY <2>10 DEF Repair, Change, files, history
    <3> QED
      BY <1>1, <3>1
  <2>11. ASSUME NEW p \in Proc, Write(p) PROVE Fresher'
    BY <2>11, InitWriteFresher, OtherWriteFresher
  <2> QED
    BY <1>3, <2>3, <2>4, <2>5, <2>6, <2>7, <2>8, <2>9, <2>10, <2>11, StartInitFresher, ReadFresher,
       OtherWriteFresher, StoreFingerprintFresher, AuthorFresher DEF Next
<1> QED
  BY <1>2, <1>3

\* With commands one at a time, a file that the last init rendered and that does not
\* fit the project there is now is reported as drift, until sync takes the new
\* project for granted.
THEOREM StaleFilesSeen == Spec => []DriftSeen
<1>1. Init => Alone /\ Fresher
  BY DEF Init, Alone, Fresher, Running, Rendering, Idle
<1>2. Fresher => DriftSeen
  <2> SUFFICES ASSUME Fresher, settled, ~overlap, \A p \in Proc : ~Running(p),
                      NEW f \in Rendered(baseline) \ Ignored, Stale(f), NEW e \in Evidence
               PROVE  validateDrift(baseline, project, e) # {}
    BY DEF DriftSeen
  <2>1. \A p \in Proc : ~Rendering(p)
    BY DEF Running, Rendering
  <2>2. baseline \in Project /\ UpToDate(f, baseline)
    BY <2>1 DEF Fresher
  <2>3. disk[f].form = baseline
    BY <2>2 DEF Stale, UpToDate
  <2>4. PICK field \in Compared : Facts[baseline][field] # Facts[project][field]
    BY <2>3 DEF Stale
  <2>5. field \in computeFingerprintDelta(baseline, project) /\ baseline # None
    BY <2>2, <2>4, OwnershipAssumption DEF computeFingerprintDelta
  <2>6. [type |-> "FINGERPRINT_DELTA", of |-> field] \in validateDrift(baseline, project, e)
    BY <2>5 DEF validateDrift
  <2> QED
    BY <2>6
<1> QED
  BY <1>1, <1>2, BaseInvariant, NextAlone, NextFresher, PTL DEF Spec
=============================================================================
