------------------------- MODULE CheckingProofs ----------------------------
(***************************************************************************)
(* The machines that look at a project: what LiveFeedback keeps with any    *)
(* number of validations under way and any bounds on changes, requests and  *)
(* faults, what Memory keeps with any files, policies and times, that       *)
(* Enforcement answers the truth with any checks, rule files and            *)
(* repositories, and that Cycles finds the cycles of any graphs.            *)
(***************************************************************************)
EXTENDS LiveFeedback, Memory, Enforcement, Cycles, FiniteSetTheorems, WellFoundedInduction, TLAPS

Reading == \E r \in Run : phase[r] = "reading"

\* The newest text has been read, or is going to be.
Accounted == lost \/ notice \/ Reading \/ \E r \in Run : seen[r] = text

\* The newest text's result is on display, or on its way there.
OnItsWay ==
    \/ lost \/ overtaken \/ notice \/ Reading
    \/ \E r \in Run : phase[r] \in {"read", "saved"} /\ seen[r] = text
    \/ shown = text

\* What the flag of `bp dev` achieves.
OneAtATime == tool \in Dev => \A r, q \in InFlight : r = q

\* The validation that `bp dev` has under way has read no older text than any before.
InOrder ==
    tool \in Dev =>
        \A r \in Run : phase[r] \in {"read", "saved"} => \A q \in Run : ~Newer(seen[q], seen[r])

Inv == FeedbackTypes /\ Accounted /\ OnItsWay /\ OneAtATime /\ InOrder

LEMMA InitInv == FeedbackInit => Inv
<1> SUFFICES ASSUME FeedbackInit PROVE Inv
  OBVIOUS
<1>1. PICK first \in Run :
          phase = [r \in Run |-> IF r = first /\ tool \notin Dev THEN "reading" ELSE "idle"]
  BY DEF FeedbackInit
<1>2. FeedbackTypes
  <2>1. tool \in Tool /\ dirty \in BOOLEAN /\ lost \in BOOLEAN /\ overtaken \in BOOLEAN
    BY DEF FeedbackInit
  <2>2. watching \in BOOLEAN /\ notice \in BOOLEAN
    <3>1. CASE tool \in Dev
      BY <3>1 DEF FeedbackInit
    <3>2. CASE tool \in Lsp
      BY <3>2 DEF FeedbackInit, Dev, Lsp
    <3>3. CASE tool \notin Dev \union Lsp
      BY <3>3 DEF FeedbackInit
    <3> QED
      BY <3>1, <3>2, <3>3
  <2>3. text \in 0..MaxEdits /\ requests \in 0..MaxRequests /\ faults \in 0..MaxFaults
    BY ConstantsAssumption DEF FeedbackInit
  <2>4. phase \in [Run -> {"idle", "reading", "read", "saved"}]
        /\ \A r \in Run : phase[r] \in {"idle", "reading"}
    BY <1>1
  <2>5. seen \in [Run -> (0..text) \union {Nothing}] /\ shown \in (0..text) \union {Nothing, Blank}
    BY DEF FeedbackInit
  <2> QED
    BY <2>1, <2>2, <2>3, <2>4, <2>5 DEF FeedbackTypes
<1>3. notice \/ Reading
  BY <1>1 DEF FeedbackInit, Reading
<1>4. OneAtATime /\ InOrder
  BY <1>1 DEF FeedbackInit, OneAtATime, InOrder, InFlight
<1> QED
  BY <1>2, <1>3, <1>4 DEF Inv, Accounted, OnItsWay

\* A validation that begins is one that is going to read.
LEMMA BeginStep ==
    ASSUME Inv, NEW r \in Run, Begin(r), text' = text,
           notice' \in BOOLEAN, lost' = lost, dirty' \in BOOLEAN, requests' \in 0..MaxRequests,
           ~isValidating
    PROVE  Inv'
<1> USE DEF Begin, Inv
<1>1. phase' \in [Run -> {"idle", "reading", "read", "saved"}] /\ phase'[r] = "reading"
      /\ \A q \in Run : q # r => phase'[q] = phase[q]
  BY DEF FeedbackTypes
<1>2. FeedbackTypes'
  BY <1>1 DEF FeedbackTypes
<1>3. Reading'
  BY <1>1 DEF Reading
<1>4. OneAtATime'
  BY <1>1 DEF OneAtATime, isValidating, InFlight
<1>5. InOrder'
  BY <1>1 DEF InOrder, Newer
<1> QED
  BY <1>2, <1>3, <1>4, <1>5 DEF Accounted, OnItsWay

\* Steps that touch neither the validations nor what they have read: a change of the
\* files is noticed or lost.
LEMMA ChangeStep ==
    ASSUME Inv, UNCHANGED <<tool, watching, phase, seen, shown, overtaken, requests, faults>>,
           text' \in 0..MaxEdits, text' >= text, dirty' \in BOOLEAN, notice' \in BOOLEAN,
           lost' \in BOOLEAN, lost' \/ notice'
    PROVE  Inv'
<1> USE DEF Inv
<1>1. FeedbackTypes'
  <2>1. 0..text \subseteq 0..text'
    BY ConstantsAssumption DEF FeedbackTypes
  <2> QED
    BY <2>1 DEF FeedbackTypes
<1>2. OneAtATime' /\ InOrder'
  BY DEF OneAtATime, InOrder, InFlight, Newer
<1> QED
  BY <1>1, <1>2 DEF Accounted, OnItsWay

LEMMA ReadStep ==
    ASSUME Inv, NEW r \in Run, Read(r)
    PROVE  Inv'
<1> USE DEF Read, Inv
<1>1. /\ phase' \in [Run -> {"idle", "reading", "read", "saved"}] /\ phase'[r] = "read"
      /\ \A q \in Run : q # r => phase'[q] = phase[q] /\ seen'[q] = seen[q]
      /\ seen' \in [Run -> (0..text) \union {Nothing}] /\ seen'[r] = text
  BY DEF FeedbackTypes
<1>2. text \in Nat /\ text # Nothing
  BY ConstantsAssumption DEF FeedbackTypes
<1>3. FeedbackTypes'
  BY <1>1, <1>2 DEF FeedbackTypes
<1>4. Accounted' /\ OnItsWay'
  BY <1>1 DEF Accounted, OnItsWay
<1>5. OneAtATime'
  BY <1>1 DEF OneAtATime, InFlight
<1>6. InOrder'
  <2> SUFFICES ASSUME tool \in Dev, NEW p \in Run, phase'[p] \in {"read", "saved"}, NEW q \in Run
               PROVE  ~Newer(seen'[q], seen'[p])
    BY DEF InOrder
  <2>1. p = r
    BY <1>1 DEF OneAtATime, InFlight
  <2> QED
    BY <2>1, <1>1, <1>2 DEF Newer
<1> QED
  BY <1>3, <1>4, <1>5, <1>6

LEMMA SaveCacheStep ==
    ASSUME Inv, NEW r \in Run, SaveCache(r)
    PROVE  Inv'
<1> USE DEF SaveCache, Inv
<1>1. /\ phase' \in [Run -> {"idle", "reading", "read", "saved"}] /\ phase'[r] = "saved"
      /\ \A q \in Run : q # r => phase'[q] = phase[q]
  BY DEF FeedbackTypes
<1>2. FeedbackTypes'
  BY <1>1 DEF FeedbackTypes, WatchesCache
<1>3. Reading => Reading'
  BY <1>1 DEF Reading
<1>4. Accounted' /\ OnItsWay'
  BY <1>1, <1>3 DEF Accounted, OnItsWay
<1>5. OneAtATime'
  BY <1>1 DEF OneAtATime, InFlight
<1>6. InOrder'
  BY <1>1 DEF InOrder, Newer
<1> QED
  BY <1>2, <1>4, <1>5, <1>6

\* What ends a validation leaves the others as they are.
LEMMA EndStep ==
    ASSUME Inv, NEW r \in Run, phase[r] # "idle", phase' = [phase EXCEPT ![r] = "idle"],
           UNCHANGED <<tool, seen>>
    PROVE  /\ phase' \in [Run -> {"idle", "reading", "read", "saved"}]
           /\ phase'[r] = "idle" /\ \A q \in Run : q # r => phase'[q] = phase[q]
           /\ OneAtATime' /\ InOrder'
<1> USE DEF Inv
<1>1. /\ phase' \in [Run -> {"idle", "reading", "read", "saved"}]
      /\ phase'[r] = "idle" /\ \A q \in Run : q # r => phase'[q] = phase[q]
  BY DEF FeedbackTypes
<1>2. OneAtATime' /\ InOrder'
  BY <1>1 DEF OneAtATime, InOrder, InFlight, Newer
<1> QED
  BY <1>1, <1>2

\* A result that comes in is the newest text's, or older than one that has been read.
LEMMA FinishStep ==
    ASSUME Inv, NEW r \in Run, Finish(r)
    PROVE  Inv'
<1> USE DEF Finish, Inv
<1>1. /\ phase' \in [Run -> {"idle", "reading", "read", "saved"}]
      /\ phase'[r] = "idle" /\ \A q \in Run : q # r => phase'[q] = phase[q]
      /\ OneAtATime' /\ InOrder'
  BY EndStep
<1>2. seen[r] \in 0..text
  BY DEF FeedbackTypes
<1>3. FeedbackTypes'
  BY <1>1, <1>2 DEF FeedbackTypes
<1>4. Reading => Reading'
  BY <1>1 DEF Reading
<1>5. Accounted'
  BY <1>4 DEF Accounted
<1>6. OnItsWay'
  <2>1. CASE seen[r] = text
    BY <2>1 DEF OnItsWay
  <2>2. CASE lost \/ notice \/ Reading
    BY <2>2, <1>4 DEF OnItsWay
  <2>3. CASE seen[r] # text /\ \E q \in Run : seen[q] = text
    <3>1. PICK q \in Run : seen[q] = text
      BY <2>3
    <3>2. Newer(seen[q], seen[r])
      BY <3>1, <2>3, <1>2, ConstantsAssumption DEF Newer, FeedbackTypes
    <3> QED
      BY <3>2 DEF OnItsWay
  <2> QED
    BY <2>1, <2>2, <2>3 DEF Accounted
<1> QED
  BY <1>1, <1>3, <1>5, <1>6

LEMMA FailStep ==
    ASSUME Inv, NEW r \in Run, Fail(r)
    PROVE  Inv'
<1> USE DEF Fail, Inv
<1>1. /\ phase' \in [Run -> {"idle", "reading", "read", "saved"}]
      /\ phase'[r] = "idle" /\ \A q \in Run : q # r => phase'[q] = phase[q]
      /\ OneAtATime' /\ InOrder'
  BY EndStep
<1>2. FeedbackTypes'
  <2>1. faults' \in 0..MaxFaults
    BY ConstantsAssumption DEF FeedbackTypes
  <2>2. shown' \in (0..text) \union {Nothing, Blank}
    BY DEF FeedbackTypes, Fallback
  <2> QED
    BY <2>1, <2>2, <1>1 DEF FeedbackTypes
<1> QED
  BY <1>1, <1>2 DEF Accounted, OnItsWay

LEMMA NextInv == Inv /\ [FeedbackNext]_feedback => Inv'
<1> SUFFICES ASSUME Inv, [FeedbackNext]_feedback PROVE Inv'
  OBVIOUS
<1>t. FeedbackTypes /\ MaxEdits \in Nat /\ MaxRequests \in Nat
  BY ConstantsAssumption DEF Inv
<1>1. ASSUME NEW inside \in BOOLEAN, Edit(inside) PROVE Inv'
  <2>1. text' \in 0..MaxEdits /\ text' >= text /\ dirty' \in BOOLEAN
        /\ UNCHANGED <<tool, watching, phase, seen, shown, overtaken, requests, faults>>
    BY <1>1, <1>t DEF Edit, FeedbackTypes
  <2>2. notice' \in BOOLEAN /\ lost' \in BOOLEAN /\ (lost' \/ notice')
    <3>1. notice \in BOOLEAN /\ lost \in BOOLEAN
      BY <1>t DEF FeedbackTypes
    <3> QED
      BY <3>1, <1>1 DEF Edit, Noticed
  <2> QED
    BY <2>1, <2>2, ChangeStep
<1>2. ASSUME Save PROVE Inv'
  <2>1. text' \in 0..MaxEdits /\ text' >= text
        /\ UNCHANGED <<tool, watching, phase, seen, shown, overtaken, requests, faults>>
    BY <1>2, <1>t DEF Save, FeedbackTypes
  <2>2. lost' = TRUE /\ notice' \in {notice, FALSE} /\ dirty' \in {dirty, FALSE}
    BY <1>2 DEF Save
  <2>3. lost' \in BOOLEAN /\ notice' \in BOOLEAN /\ dirty' \in BOOLEAN /\ (lost' \/ notice')
    BY <2>2, <1>t DEF FeedbackTypes
  <2> QED
    BY <2>1, <2>3, ChangeStep
<1>3. ASSUME FireDropped PROVE Inv'
  <2>1. text' \in 0..MaxEdits /\ text' >= text
        /\ UNCHANGED <<tool, watching, phase, seen, shown, overtaken, requests, faults>>
    BY <1>3, <1>t DEF FireDropped, FeedbackTypes
  <2>2. lost' = TRUE /\ notice' \in {notice, FALSE} /\ dirty' \in {dirty, FALSE}
    BY <1>3 DEF FireDropped
  <2>3. lost' \in BOOLEAN /\ notice' \in BOOLEAN /\ dirty' \in BOOLEAN /\ (lost' \/ notice')
    BY <2>2, <1>t DEF FeedbackTypes
  <2> QED
    BY <2>1, <2>3, ChangeStep
<1>4. ASSUME NEW r \in Run, Fire(r) PROVE Inv'
  <2>1. Begin(r) /\ text' = text /\ notice' = FALSE /\ lost' = lost /\ dirty' = dirty
        /\ requests' = requests /\ ~isValidating
    BY <1>4 DEF Fire
  <2>2. notice' \in BOOLEAN /\ dirty' \in BOOLEAN /\ requests' \in 0..MaxRequests
    BY <2>1, <1>t DEF FeedbackTypes
  <2> QED
    BY <2>1, <2>2, BeginStep
<1>5. ASSUME NEW r \in Run, Request(r) \/ Type(r) PROVE Inv'
  <2>1. Begin(r) /\ text' = text /\ notice' = notice /\ lost' = lost /\ dirty' \in {dirty, TRUE}
        /\ requests < MaxRequests /\ requests' = requests + 1
    BY <1>5 DEF Request, Type
  <2>2. requests' \in 0..MaxRequests
    <3>1. requests \in 0..MaxRequests /\ requests < MaxRequests /\ requests' = requests + 1
      BY <2>1, <1>t DEF FeedbackTypes
    <3> QED
      BY <3>1, <1>t
  <2>3. notice' \in BOOLEAN /\ dirty' \in BOOLEAN
    BY <2>1, <1>t DEF FeedbackTypes
  <2>4. ~isValidating
    BY <1>5 DEF Request, Type, isValidating, Dev, Lsp
  <2> QED
    BY <2>1, <2>2, <2>3, <2>4, BeginStep
<1>6. CASE UNCHANGED feedback
  BY <1>6 DEF feedback, Inv, FeedbackTypes, Accounted, OnItsWay, Reading, OneAtATime, InOrder, InFlight, Newer
<1> QED
  BY <1>1, <1>2, <1>3, <1>4, <1>5, <1>6, ReadStep, SaveCacheStep, FinishStep, FailStep DEF FeedbackNext

\* The invariant holds throughout.
LEMMA Invariance == FeedbackSpec => []Inv
<1> QED
  BY InitInv, NextInv, PTL DEF FeedbackSpec

\* Types hold, and no validation has a result before it has read the files, whatever
\* tool runs and however many validations overlap.
THEOREM TypeCorrect == FeedbackSpec => []FeedbackTypes
<1>1. Inv => FeedbackTypes
  BY DEF Inv
<1> QED
  BY <1>1, Invariance, PTL

\* A display at rest is out of date only because an older result came in last, the
\* newest text went unread, or a validation failed: for each tool, any number of
\* changes and any number of overlapping validations.
THEOREM UpToDate == FeedbackSpec => []RestsUpToDate
<1>1. Inv => RestsUpToDate
  BY DEF Inv, RestsUpToDate, Quiet, OnItsWay, Reading, InFlight
<1> QED
  BY <1>1, Invariance, PTL

\* What `bp dev` comes to show is never older than a text it has read before.
THEOREM NewestShown == FeedbackSpec => ShowsNewestRead
<1>1. Inv /\ [FeedbackNext]_feedback =>
        [(tool \in Dev /\ shown' \notin {shown, Blank}) => (\A q \in Run : ~Newer(seen[q], shown'))]_feedback
  <2> SUFFICES ASSUME Inv, FeedbackNext, tool \in Dev, shown' \notin {shown, Blank}, NEW q \in Run
               PROVE  ~Newer(seen[q], shown')
    BY DEF feedback
  <2>1. PICK r \in Run : Finish(r)
    BY DEF FeedbackNext, Edit, Save, FireDropped, Fire, Request, Type, Begin, Read, SaveCache, Fail, Fallback
  <2> QED
    BY <2>1 DEF Finish, Inv, InOrder
<1> QED
  BY <1>1, Invariance, PTL DEF FeedbackSpec, ShowsNewestRead

\* For each tool and any changes and validations: what is on display at rest is
\* the newest text but for the named reasons, and `bp dev` shows no older one.
THEOREM TruthShown == FeedbackSpec => ShowsTruth
BY UpToDate, NewestShown, PTL DEF ShowsTruth
-----------------------------------------------------------------------------
(***************************************************************************)
(* The cleanup of a memory directory, for any files, policies and times,    *)
(* whatever the agents do meanwhile.                                        *)
(***************************************************************************)
MemoryTypes ==
    /\ clock \in 0..MaxTime
    /\ mtime \in [Memories -> 0..MaxTime \cup {Gone}] \/ mtime = Gone
    /\ cleanup \in Cleanup \cup {Gone}
    /\ cleanup = Gone => unlinked = {}
    /\ cleanup # Gone =>
          /\ mtime \in [Memories -> 0..MaxTime \cup {Gone}]
          /\ cleanup.now <= clock
          /\ cleanup.todo \subseteq cleanup.files
          /\ cleanup.victim # Gone => cleanup.victim \in cleanup.todo

\* A file that an audit at the start of the command would report, were it there.
Expired(f) == cleanup.policy # Persistent /\ Expires(f)

\* What is expired was reported then, since nothing gets older while the command
\* runs; what is about to go was expired unless it was written since; what was
\* visited is not expired; what is gone was reported or written since.
Cleaning ==
    /\ cleanup.todo # {} => cleanup.policy # Persistent
    /\ \A f \in Memories : mtime[f] # Gone /\ Expired(f) => f \in cleanup.audit
    /\ cleanup.victim # Gone /\ mtime[cleanup.victim] # Gone =>
          Expired(cleanup.victim) \/ mtime[cleanup.victim] >= cleanup.now
    /\ \A f \in cleanup.files \ cleanup.todo : mtime[f] = Gone \/ ~Expired(f)
    /\ cleanup.status = "done" => cleanup.todo = {}
    /\ \A u \in unlinked : u.file \in cleanup.audit \/ u.mtime >= cleanup.now

MemoryInv == MemoryTypes /\ (cleanup # Gone => Cleaning)

MemorySpec == MemoryInit /\ [][MemoryNext]_memory

LEMMA InitMemory == MemoryInit => MemoryInv
BY MemoryAssumption DEF MemoryInit, MemoryInv, MemoryTypes

LEMMA ListMemory ==
    ASSUME MemoryInv, NEW policy \in Policies, List(policy) PROVE MemoryInv'
<1>1. /\ mtime \in [Memories -> 0..MaxTime \cup {Gone}] /\ clock \in 0..MaxTime
      /\ listFiles \subseteq Memories /\ Overdue(clock, policy) \subseteq listFiles
      /\ unlinked = {} /\ UNCHANGED <<mtime, clock, unlinked>>
  BY DEF MemoryInv, MemoryTypes, List, listFiles, Overdue
<1>2. /\ cleanup'.policy = policy /\ cleanup'.now = clock /\ cleanup'.status = "running"
      /\ cleanup'.victim = Gone /\ cleanup'.files = listFiles
      /\ cleanup'.todo = IF policy = Persistent THEN {} ELSE listFiles
      /\ cleanup'.audit = Overdue(clock, policy)
  BY DEF List
<1>3. cleanup' \in Cleanup
  BY <1>1 DEF List, Cleanup
<1>4. MemoryTypes'
  BY <1>1, <1>2, <1>3, MemoryAssumption DEF MemoryTypes
<1>5. Cleaning'
  BY <1>1, <1>2 DEF Cleaning, Expired, Expires, Overdue, listFiles
<1> QED
  BY <1>4, <1>5 DEF MemoryInv

\* A running cleanup.
LEMMA RunningMemory ==
    ASSUME MemoryInv, Running
    PROVE  /\ cleanup \in Cleanup /\ cleanup # Gone /\ cleanup.status = "running"
           /\ mtime \in [Memories -> 0..MaxTime \cup {Gone}] /\ Cleaning
BY DEF MemoryInv, MemoryTypes, Running

LEMMA StatMemory ==
    ASSUME MemoryInv, NEW f \in Memories, Stat(f) PROVE MemoryInv'
<1>1. /\ cleanup \in Cleanup /\ cleanup # Gone /\ Cleaning
      /\ mtime \in [Memories -> 0..MaxTime \cup {Gone}]
      /\ f \in cleanup.todo /\ UNCHANGED <<mtime, clock, unlinked>> /\ MemoryTypes
      /\ cleanup.victim = Gone /\ cleanup.status = "running"
  BY RunningMemory DEF Stat, MemoryInv
<1>2. cleanup.policy # Persistent
  BY <1>1 DEF Cleaning
<1>3. CASE mtime[f] = Gone
  <2>1. cleanup' = [cleanup EXCEPT !.status = "failed"]
    BY <1>3 DEF Stat
  <2>2. /\ cleanup' \in Cleanup /\ cleanup'.status = "failed"
        /\ cleanup'.policy = cleanup.policy /\ cleanup'.now = cleanup.now
        /\ cleanup'.victim = cleanup.victim /\ cleanup'.files = cleanup.files
        /\ cleanup'.todo = cleanup.todo /\ cleanup'.audit = cleanup.audit
    BY <1>1, <2>1 DEF Cleanup
  <2> QED
    BY <1>1, <2>2, MemoryAssumption
       DEF MemoryInv, MemoryTypes, Cleaning, Expired, Expires
<1>4. CASE mtime[f] # Gone /\ Expires(f)
  <2>1. cleanup' = [cleanup EXCEPT !.victim = f]
    BY <1>4 DEF Stat
  <2>2. /\ cleanup' \in Cleanup /\ cleanup'.status = cleanup.status
        /\ cleanup'.policy = cleanup.policy /\ cleanup'.now = cleanup.now
        /\ cleanup'.victim = f /\ cleanup'.files = cleanup.files
        /\ cleanup'.todo = cleanup.todo /\ cleanup'.audit = cleanup.audit
    BY <1>1, <2>1 DEF Cleanup
  <2> QED
    BY <1>1, <1>2, <1>4, <2>2, MemoryAssumption
       DEF MemoryInv, MemoryTypes, Cleaning, Expired, Expires
<1>5. CASE mtime[f] # Gone /\ ~Expires(f)
  <2>1. cleanup' = [cleanup EXCEPT !.todo = @ \ {f}]
    BY <1>5 DEF Stat
  <2>2. /\ cleanup' \in Cleanup /\ cleanup'.status = cleanup.status
        /\ cleanup'.policy = cleanup.policy /\ cleanup'.now = cleanup.now
        /\ cleanup'.victim = Gone /\ cleanup'.files = cleanup.files
        /\ cleanup'.todo = cleanup.todo \ {f} /\ cleanup'.audit = cleanup.audit
    BY <1>1, <2>1 DEF Cleanup
  <2> QED
    BY <1>1, <1>2, <1>5, <2>2, MemoryAssumption
       DEF MemoryInv, MemoryTypes, Cleaning, Expired, Expires
<1> QED
  BY <1>3, <1>4, <1>5

LEMMA UnlinkMemory == ASSUME MemoryInv, Unlink PROVE MemoryInv'
<1>1. /\ cleanup \in Cleanup /\ cleanup # Gone /\ Cleaning /\ MemoryTypes
      /\ mtime \in [Memories -> 0..MaxTime \cup {Gone}]
      /\ cleanup.victim # Gone /\ cleanup.status = "running" /\ UNCHANGED clock
      /\ cleanup.victim \in Memories /\ cleanup.victim \in cleanup.todo
      /\ cleanup.policy # Persistent
  BY RunningMemory DEF Unlink, MemoryInv, MemoryTypes, Cleaning, Cleanup
<1>2. CASE mtime[cleanup.victim] = Gone
  <2>1. cleanup' = [cleanup EXCEPT !.status = "failed"] /\ UNCHANGED <<mtime, unlinked>>
    BY <1>2 DEF Unlink
  <2>2. /\ cleanup' \in Cleanup /\ cleanup'.status = "failed"
        /\ cleanup'.policy = cleanup.policy /\ cleanup'.now = cleanup.now
        /\ cleanup'.victim = cleanup.victim /\ cleanup'.files = cleanup.files
        /\ cleanup'.todo = cleanup.todo /\ cleanup'.audit = cleanup.audit
    BY <1>1, <2>1 DEF Cleanup
  <2> QED
    BY <1>1, <2>1, <2>2, MemoryAssumption
       DEF MemoryInv, MemoryTypes, Cleaning, Expired, Expires
<1>3. CASE mtime[cleanup.victim] # Gone
  <2> DEFINE v == cleanup.victim
  <2>1. /\ mtime' = [mtime EXCEPT ![v] = Gone]
        /\ unlinked' = unlinked \cup {[file |-> v, mtime |-> mtime[v]]}
        /\ cleanup' = [cleanup EXCEPT !.victim = Gone, !.todo = @ \ {v}]
    BY <1>3 DEF Unlink
  <2>2. /\ cleanup' \in Cleanup /\ cleanup'.status = cleanup.status
        /\ cleanup'.policy = cleanup.policy /\ cleanup'.now = cleanup.now
        /\ cleanup'.victim = Gone /\ cleanup'.files = cleanup.files
        /\ cleanup'.todo = cleanup.todo \ {v} /\ cleanup'.audit = cleanup.audit
    BY <1>1, <2>1 DEF Cleanup
  <2>3. /\ mtime' \in [Memories -> 0..MaxTime \cup {Gone}]
        /\ mtime'[v] = Gone /\ \A f \in Memories : f # v => mtime'[f] = mtime[f]
    BY <1>1, <2>1
  <2>4. v \in cleanup.audit \/ mtime[v] >= cleanup.now
    BY <1>1, <1>3 DEF Cleaning
  <2>5. \A u \in unlinked' : u.file \in cleanup.audit \/ u.mtime >= cleanup.now
    BY <1>1, <2>1, <2>4 DEF Cleaning
  <2>6. cleanup.files \subseteq Memories
    BY <1>1 DEF Cleanup
  <2>7. MemoryTypes'
    BY <1>1, <2>2, <2>3, MemoryAssumption DEF MemoryTypes
  <2>8. Cleaning'
    BY <1>1, <2>2, <2>3, <2>5, <2>6 DEF Cleaning, Expired, Expires
  <2> QED
    BY <2>7, <2>8 DEF MemoryInv
<1> QED
  BY <1>2, <1>3

LEMMA EndMemory == ASSUME MemoryInv, EndCleanup \/ KillCleanup PROVE MemoryInv'
<1>1. /\ cleanup \in Cleanup /\ cleanup # Gone /\ Cleaning /\ MemoryTypes
      /\ mtime \in [Memories -> 0..MaxTime \cup {Gone}]
      /\ UNCHANGED <<mtime, clock, unlinked>>
  BY RunningMemory DEF EndCleanup, KillCleanup, MemoryInv
<1>2. \/ cleanup.todo = {} /\ cleanup' = [cleanup EXCEPT !.status = "done"]
      \/ cleanup' = [cleanup EXCEPT !.status = "killed"]
  BY DEF EndCleanup, KillCleanup
<1>3. /\ cleanup' \in Cleanup /\ (cleanup'.status = "done" => cleanup.todo = {})
      /\ cleanup'.policy = cleanup.policy /\ cleanup'.now = cleanup.now
      /\ cleanup'.victim = cleanup.victim /\ cleanup'.files = cleanup.files
      /\ cleanup'.todo = cleanup.todo /\ cleanup'.audit = cleanup.audit
  BY <1>1, <1>2 DEF Cleanup
<1> QED
  BY <1>1, <1>3, MemoryAssumption DEF MemoryInv, MemoryTypes, Cleaning, Expired, Expires

\* What an agent writes is younger than the cleanup.
LEMMA AgentMemory ==
    ASSUME MemoryInv, NEW f \in Memories, AgentWrites(f) \/ AgentDeletes(f) PROVE MemoryInv'
<1>1. /\ mtime \in [Memories -> 0..MaxTime \cup {Gone}] /\ clock \in 0..MaxTime
      /\ UNCHANGED <<clock, cleanup, unlinked>>
  BY DEF MemoryInv, MemoryTypes, AgentWrites, AgentDeletes
<1>2. /\ mtime' \in [Memories -> 0..MaxTime \cup {Gone}]
      /\ \A g \in Memories : mtime'[g] \in {mtime[g], Gone, clock}
  BY <1>1 DEF AgentWrites, AgentDeletes
<1>3. MemoryTypes'
  BY <1>1, <1>2 DEF MemoryInv, MemoryTypes
<1>4. ASSUME cleanup # Gone PROVE Cleaning'
  <2>1. /\ cleanup \in Cleanup /\ cleanup.now <= clock /\ Cleaning
        /\ cleanup.victim # Gone => cleanup.victim \in Memories
        /\ cleanup.files \subseteq Memories /\ cleanup.now \in 0..MaxTime
    BY <1>4 DEF MemoryInv, MemoryTypes, Cleanup
  <2>2. \A g \in Memories : mtime'[g] = clock =>
            cleanup.policy = Persistent \/ ~(cleanup.now - mtime'[g] > Limits[cleanup.policy])
    BY <1>1, <2>1, MemoryAssumption DEF Cleanup, Policies
  <2>3. \A g \in Memories : mtime'[g] # Gone /\ Expired(g)' => mtime'[g] = mtime[g] /\ Expired(g)
    BY <1>1, <1>2, <2>2 DEF Expired, Expires
  <2>4. \A g \in Memories : mtime'[g] # Gone => mtime'[g] = mtime[g] \/ mtime'[g] >= cleanup.now
    BY <1>1, <1>2, <2>1
  <2>5. \A g \in Memories : mtime'[g] = mtime[g] => (Expired(g)' <=> Expired(g))
    BY <1>1 DEF Expired, Expires
  <2> QED
    BY <1>1, <2>1, <2>3, <2>4, <2>5 DEF Cleaning
<1> QED
  BY <1>1, <1>3, <1>4 DEF MemoryInv

LEMMA NextMemory == MemoryInv /\ [MemoryNext]_memory => MemoryInv'
<1> SUFFICES ASSUME MemoryInv, [MemoryNext]_memory PROVE MemoryInv'
  OBVIOUS
<1>1. CASE Tick
  BY <1>1, MemoryAssumption
     DEF Tick, MemoryInv, MemoryTypes, Cleaning, Expired, Expires, Cleanup
<1>2. CASE UNCHANGED memory
  BY <1>2 DEF memory, MemoryInv, MemoryTypes, Cleaning, Expired, Expires
<1> QED
  BY <1>1, <1>2, ListMemory, StatMemory, UnlinkMemory, EndMemory, AgentMemory DEF MemoryNext

\* For any memory directory: a cleanup removes what an audit would have reported
\* or what was rewritten since it started, and leaves nothing of it behind.
THEOREM CleanupAgrees == MemorySpec => []CleanupMatchesAudit
<1>1. MemoryInv => CleanupMatchesAudit
  BY DEF MemoryInv, MemoryTypes, Cleaning, CleanupMatchesAudit, Overdue, listFiles,
         Expired, Expires, Cleanup
<1> QED
  BY <1>1, InitMemory, NextMemory, PTL DEF MemorySpec

-----------------------------------------------------------------------------
(***************************************************************************)
(* Induction.  Every set of numbers has a least one, since strict inclusion *)
(* of finite sets is well founded; induction and the existence of iterated  *)
(* functions follow, for sets and functions where the library's theorems    *)
(* are for operators.                                                       *)
(***************************************************************************)
LEMMA LeastNumber ==
    ASSUME NEW S, S \subseteq Nat, S # {}
    PROVE  \E n \in S : \A m \in S : n <= m
<1> DEFINE T == {0..n : n \in S}
<1>1. T \subseteq FiniteSubsetsOf(Nat)
  <2> SUFFICES ASSUME NEW n \in S PROVE 0..n \in FiniteSubsetsOf(Nat)
    OBVIOUS
  <2>1. IsFiniteSet(0..n)
    BY FS_Interval
  <2> QED
    BY <2>1 DEF FiniteSubsetsOf
<1>2. T # {}
  OBVIOUS
<1>3. IsWellFoundedOn(StrictSubsetOrdering(Nat), FiniteSubsetsOf(Nat))
  BY FS_StrictSubsetOrderingWellFounded
<1> HIDE DEF T
<1>4. \E x \in T : \A y \in T : <<y, x>> \notin StrictSubsetOrdering(Nat)
  BY <1>1, <1>2, <1>3, WFMin
<1>5. PICK n \in S : \A y \in T : <<y, 0..n>> \notin StrictSubsetOrdering(Nat)
  BY <1>4 DEF T
<1>6. ASSUME NEW m \in S, m < n PROVE FALSE
  <2>1. n \in 0..n /\ n \notin 0..m
    BY <1>6
  <2>2. 0..m \subseteq 0..n /\ 0..m # 0..n /\ 0..n \subseteq Nat
    BY <1>6, <2>1
  <2>3. <<0..m, 0..n>> \in StrictSubsetOrdering(Nat)
    BY <2>2 DEF StrictSubsetOrdering
  <2> QED
    BY <2>3, <1>5 DEF T
<1> QED
  BY <1>6

LEMMA Induction ==
    ASSUME NEW S, 0 \in S, \A n \in Nat : n \in S => n + 1 \in S
    PROVE  Nat \subseteq S
<1> SUFFICES ASSUME Nat \ S # {} PROVE FALSE
  OBVIOUS
<1>1. PICK n \in Nat \ S : \A m \in Nat \ S : n <= m
  <2> DEFINE R == Nat \ S
  <2>1. R \subseteq Nat /\ R # {}
    OBVIOUS
  <2> HIDE DEF R
  <2>2. \E n \in R : \A m \in R : n <= m
    BY <2>1, LeastNumber
  <2> QED
    BY <2>2 DEF R
<1>2. n # 0 /\ n - 1 \in Nat
  OBVIOUS
<1>3. n - 1 \in S
  BY <1>1, <1>2
<1> QED
  BY <1>1, <1>2, <1>3

LEMMA Iteration ==
    ASSUME NEW V, NEW a \in V, NEW F \in [V -> V]
    PROVE  \E f \in [Nat -> V] : f[0] = a /\ \A n \in Nat : f[n + 1] = F[f[n]]
<1> DEFINE Starts(n, h) ==
             h \in [0..n -> V] /\ h[0] = a /\ \A k \in 1..n : h[k] = F[h[k - 1]]
<1>1. \A n \in Nat : \E h : Starts(n, h)
  <2> DEFINE S == {n \in Nat : \E h : Starts(n, h)}
  <2>1. 0 \in S
    <3>1. Starts(0, [k \in 0..0 |-> a])
      OBVIOUS
    <3> QED
      BY <3>1
  <2>2. ASSUME NEW n \in Nat, n \in S PROVE n + 1 \in S
    <3>1. PICK h : Starts(n, h)
      BY <2>2
    <3> DEFINE g == [k \in 0..(n + 1) |-> IF k = n + 1 THEN F[h[n]] ELSE h[k]]
    <3>2. Starts(n + 1, g)
      <4>1. h[n] \in V
        BY <3>1
      <4>2. g \in [0..(n + 1) -> V] /\ g[0] = a
        BY <3>1, <4>1
      <4>3. ASSUME NEW k \in 1..(n + 1) PROVE g[k] = F[g[k - 1]]
        <5>1. CASE k = n + 1
          BY <5>1
        <5>2. CASE k # n + 1
          <6>1. k \in 1..n /\ k - 1 \in 0..n /\ k - 1 # n + 1
            BY <5>2
          <6> QED
            BY <6>1, <3>1
        <5> QED
          BY <5>1, <5>2
      <4> QED
        BY <4>2, <4>3
    <3> HIDE DEF g
    <3>3. \E f : Starts(n + 1, f)
      BY <3>2
    <3> QED
      BY <3>3
  <2> HIDE DEF S
  <2>3. Nat \subseteq S
    BY <2>1, <2>2, Induction
  <2> QED
    BY <2>3 DEF S
<1>2. ASSUME NEW m \in Nat, NEW p \in Nat, NEW h, NEW g, Starts(m, h), Starts(p, g), m <= p
      PROVE  h[m] = g[m]
  <2> DEFINE S == {n \in Nat : n <= m => h[n] = g[n]}
  <2>1. 0 \in S
    BY <1>2
  <2>2. ASSUME NEW n \in Nat, n \in S PROVE n + 1 \in S
    <3> SUFFICES ASSUME n + 1 <= m PROVE h[n + 1] = g[n + 1]
      OBVIOUS
    <3>1. n + 1 \in 1..m /\ n + 1 \in 1..p /\ (n + 1) - 1 = n /\ h[n] = g[n]
      BY <1>2, <2>2
    <3> QED
      BY <3>1, <1>2
  <2> HIDE DEF S
  <2>3. Nat \subseteq S
    BY <2>1, <2>2, Induction
  <2> QED
    BY <2>3 DEF S
<1> DEFINE Some(n) == CHOOSE h : Starts(n, h)
           all == [n \in Nat |-> Some(n)[n]]
<1>3. \A n \in Nat : Starts(n, Some(n))
  BY <1>1
<1> HIDE DEF Some
<1>4. \A n \in Nat : Some(n)[n] \in V
  BY <1>3
<1>5. all[0] = a
  BY <1>3
<1>6. ASSUME NEW n \in Nat PROVE all[n + 1] = F[all[n]]
  <2> DEFINE h == Some(n)
             g == Some(n + 1)
  <2>1. n <= n + 1 /\ Starts(n, h) /\ Starts(n + 1, g)
    BY <1>3
  <2>2. g[n + 1] = F[g[n]]
    <3>1. n + 1 \in 1..(n + 1) /\ (n + 1) - 1 = n
      OBVIOUS
    <3> QED
      BY <2>1, <3>1
  <2> HIDE DEF h, g, Starts
  <2>3. h[n] = g[n]
    BY <2>1, <1>2
  <2> QED
    BY <2>2, <2>3 DEF h, g
<1>7. all \in [Nat -> V]
  BY <1>4
<1> QED
  BY <1>5, <1>6, <1>7

LEMMA Shrunk ==
    ASSUME NEW S, NEW s \in Seq(S), NEW n \in 0..Len(s)
    PROVE  /\ SubSeq(s, 1, n) \in Seq(S) /\ Len(SubSeq(s, 1, n)) = n
           /\ DOMAIN SubSeq(s, 1, n) = 1..n /\ DOMAIN s = 1..Len(s) /\ Len(s) \in Nat
           /\ \A i \in 1..n : SubSeq(s, 1, n)[i] = s[i]
<1>1. Len(s) \in Nat /\ DOMAIN s = 1..Len(s)
  OBVIOUS
<1>2. Len(SubSeq(s, 1, n)) = n
  BY <1>1
<1>3. SubSeq(s, 1, n) \in Seq(S)
  BY <1>1
<1>4. \A i \in 1..n : SubSeq(s, 1, n)[i] = s[i]
  BY <1>1
<1> QED
  BY <1>1, <1>2, <1>3, <1>4

-----------------------------------------------------------------------------
(***************************************************************************)
(* The checks: what the functions over them are, level by level.            *)
(***************************************************************************)
Outcome == {Passed, Failed, Unsupported}

LEMMA ChecksKnown == 
    /\ \A c \in Checks : c.type \in Composite \cup Listing \cup Contents \cup Dependency \cup Others
    /\ \A c \in Checks : c.type \in Composite =>
          /\ Len(c.checks) \in Nat /\ DOMAIN c.checks = 1..Len(c.checks)
          /\ \A i \in DOMAIN c.checks : c.checks[i] \in Checks
    /\ \A c \in Checks : c.type = "not" => Len(c.checks) = 1 /\ 1 \in DOMAIN c.checks
<1>1. \A c \in Checks : c.type \in Composite => c.checks \in Seq(Checks)
  BY EnforcementAssumption
<1>2. \A c \in Checks : c.type = "not" => Len(c.checks) = 1
  BY EnforcementAssumption
<1>3. \A c \in Checks : c.type \in Composite => Len(c.checks) \in Nat /\ DOMAIN c.checks = 1..Len(c.checks)
  BY <1>1
<1>4. \A c \in Checks : c.type \in Composite => \A i \in DOMAIN c.checks : c.checks[i] \in Checks
  BY <1>1
<1> QED
  BY <1>2, <1>3, <1>4, EnforcementAssumption DEF Composite

LEMMA OutcomeBoolean == \A x \in Outcome : x.passed \in BOOLEAN /\ x.unsupported \in BOOLEAN
<1>1. Passed.passed = TRUE /\ Passed.unsupported = FALSE
  BY DEF Passed
<1>2. Failed.passed = FALSE /\ Failed.unsupported = FALSE
  BY DEF Failed
<1>3. Unsupported.passed = FALSE /\ Unsupported.unsupported = TRUE
  BY DEF Unsupported
<1> HIDE DEF Passed, Failed, Unsupported
<1> QED
  BY <1>1, <1>2, <1>3 DEF Outcome

LEMMA VerdictPassed ==
    \A b \in BOOLEAN : Verdict(b) \in Outcome /\ Verdict(b).passed = b /\ Verdict(b).unsupported = FALSE
BY DEF Verdict, Passed, Failed, Outcome

LEMMA SchemaUnfolds ==
    /\ CheckSchema \in [Nat -> [Checks -> BOOLEAN]]
    /\ \A d \in Nat : CheckSchema[d + 1] = SchemaLevel(CheckSchema[d])
    /\ CheckSchema[0] = [c \in Checks |-> FALSE]
<1> DEFINE V == [Checks -> BOOLEAN]
           a == [c \in Checks |-> FALSE]
           F == [h \in V |-> SchemaLevel(h)]
<1>1. a \in V
  OBVIOUS
<1>2. \A h \in V : SchemaLevel(h) \in V
  BY DEF SchemaLevel
<1>3. F \in [V -> V]
  BY <1>2
<1>4. \A h \in V : F[h] = SchemaLevel(h)
  OBVIOUS
<1>5. CheckSchema = CHOOSE f : f = [d \in Nat |-> IF d = 0 THEN a ELSE SchemaLevel(f[d - 1])]
  BY DEF CheckSchema
<1> HIDE DEF V, a, F
<1>6. PICK n \in [Nat -> V] : n[0] = a /\ \A d \in Nat : n[d + 1] = F[n[d]]
  BY <1>1, <1>3, Iteration
<1>7. n = [d \in Nat |-> IF d = 0 THEN a ELSE SchemaLevel(n[d - 1])]
  <2> SUFFICES ASSUME NEW d \in Nat, d # 0 PROVE n[d] = SchemaLevel(n[d - 1])
    BY <1>6
  <2>1. d - 1 \in Nat /\ (d - 1) + 1 = d
    OBVIOUS
  <2> QED
    BY <2>1, <1>4, <1>6
<1>8. CheckSchema = [d \in Nat |-> IF d = 0 THEN a ELSE SchemaLevel(CheckSchema[d - 1])]
  BY <1>5, <1>7
<1>9. \A d \in Nat : CheckSchema[d + 1] = SchemaLevel(CheckSchema[d])
  BY <1>8
<1>10. \A d \in Nat : CheckSchema[d] \in V
  <2> DEFINE S == {d \in Nat : CheckSchema[d] \in V}
  <2>1. 0 \in S
    BY <1>1, <1>8
  <2>2. \A d \in Nat : d \in S => d + 1 \in S
    BY <1>2, <1>9
  <2> HIDE DEF S
  <2>3. Nat \subseteq S
    BY <2>1, <2>2, Induction
  <2> QED
    BY <2>3 DEF S
<1> QED
  BY <1>8, <1>9, <1>10 DEF V, a

LEMMA LeavesUnfold ==
    /\ Leaves \in [Nat -> [Checks -> SUBSET Checks]]
    /\ \A d \in Nat : Leaves[d + 1] = LeavesLevel(Leaves[d])
    /\ Leaves[0] = [c \in Checks |-> {}]
<1> DEFINE V == [Checks -> SUBSET Checks]
           a == [c \in Checks |-> {}]
           F == [h \in V |-> LeavesLevel(h)]
<1>1. a \in V
  OBVIOUS
<1>2. \A h \in V : LeavesLevel(h) \in V
  BY ChecksKnown DEF LeavesLevel
<1>3. F \in [V -> V]
  BY <1>2
<1>4. \A h \in V : F[h] = LeavesLevel(h)
  OBVIOUS
<1>5. Leaves = CHOOSE f : f = [d \in Nat |-> IF d = 0 THEN a ELSE LeavesLevel(f[d - 1])]
  BY DEF Leaves
<1> HIDE DEF V, a, F
<1>6. PICK n \in [Nat -> V] : n[0] = a /\ \A d \in Nat : n[d + 1] = F[n[d]]
  BY <1>1, <1>3, Iteration
<1>7. n = [d \in Nat |-> IF d = 0 THEN a ELSE LeavesLevel(n[d - 1])]
  <2> SUFFICES ASSUME NEW d \in Nat, d # 0 PROVE n[d] = LeavesLevel(n[d - 1])
    BY <1>6
  <2>1. d - 1 \in Nat /\ (d - 1) + 1 = d
    OBVIOUS
  <2> QED
    BY <2>1, <1>4, <1>6
<1>8. Leaves = [d \in Nat |-> IF d = 0 THEN a ELSE LeavesLevel(Leaves[d - 1])]
  BY <1>5, <1>7
<1>9. \A d \in Nat : Leaves[d + 1] = LeavesLevel(Leaves[d])
  BY <1>8
<1>10. \A d \in Nat : Leaves[d] \in V
  <2> DEFINE S == {d \in Nat : Leaves[d] \in V}
  <2>1. 0 \in S
    BY <1>1, <1>8
  <2>2. \A d \in Nat : d \in S => d + 1 \in S
    BY <1>2, <1>9
  <2> HIDE DEF S
  <2>3. Nat \subseteq S
    BY <2>1, <2>2, Induction
  <2> QED
    BY <2>3 DEF S
<1> QED
  BY <1>8, <1>9, <1>10 DEF V, a

LEMMA TruthUnfolds ==
    /\ Truth \in [Nat -> [Checks -> [SUBSET Checks -> BOOLEAN]]]
    /\ \A d \in Nat : Truth[d + 1] = TruthLevel(Truth[d])
    /\ Truth[0] = [c \in Checks |-> [g \in SUBSET Checks |-> FALSE]]
<1> DEFINE V == [Checks -> [SUBSET Checks -> BOOLEAN]]
           a == [c \in Checks |-> [g \in SUBSET Checks |-> FALSE]]
           F == [h \in V |-> TruthLevel(h)]
<1>1. a \in V
  OBVIOUS
<1>2. \A h \in V : TruthLevel(h) \in V
  <2> SUFFICES ASSUME NEW h \in V PROVE TruthLevel(h) \in V
    OBVIOUS
  <2>1. \A c \in Checks, g \in SUBSET Checks : h[c][g] \in BOOLEAN
    OBVIOUS
  <2>2. ASSUME NEW c \in Checks, NEW g \in SUBSET Checks PROVE TruthAt(h, c, g) \in BOOLEAN
    <3>1. c.type = "not" => h[c.checks[1]][g] \in BOOLEAN
      BY <2>1, ChecksKnown DEF Composite
    <3>2. CASE c.type \notin Composite
      BY <3>2 DEF TruthAt
    <3>3. CASE c.type \in Composite /\ c.type = "not"
      BY <3>1, <3>3 DEF TruthAt
    <3>4. CASE c.type \in Composite /\ c.type # "not"
      BY <3>4 DEF TruthAt
    <3> QED
      BY <3>2, <3>3, <3>4
  <2> HIDE DEF V
  <2>3. TruthLevel(h) \in [Checks -> [SUBSET Checks -> BOOLEAN]]
    BY <2>2 DEF TruthLevel
  <2> QED
    BY <2>3 DEF V
<1>3. F \in [V -> V]
  BY <1>2
<1>4. \A h \in V : F[h] = TruthLevel(h)
  OBVIOUS
<1>5. Truth = CHOOSE f : f = [d \in Nat |-> IF d = 0 THEN a ELSE TruthLevel(f[d - 1])]
  BY DEF Truth
<1> HIDE DEF V, a, F
<1>6. PICK n \in [Nat -> V] : n[0] = a /\ \A d \in Nat : n[d + 1] = F[n[d]]
  BY <1>1, <1>3, Iteration
<1>7. n = [d \in Nat |-> IF d = 0 THEN a ELSE TruthLevel(n[d - 1])]
  <2> SUFFICES ASSUME NEW d \in Nat, d # 0 PROVE n[d] = TruthLevel(n[d - 1])
    BY <1>6
  <2>1. d - 1 \in Nat /\ (d - 1) + 1 = d
    OBVIOUS
  <2> QED
    BY <2>1, <1>4, <1>6
<1>8. Truth = [d \in Nat |-> IF d = 0 THEN a ELSE TruthLevel(Truth[d - 1])]
  BY <1>5, <1>7
<1>9. \A d \in Nat : Truth[d + 1] = TruthLevel(Truth[d])
  BY <1>8
<1>10. \A d \in Nat : Truth[d] \in V
  <2> DEFINE S == {d \in Nat : Truth[d] \in V}
  <2>1. 0 \in S
    BY <1>1, <1>8
  <2>2. \A d \in Nat : d \in S => d + 1 \in S
    BY <1>2, <1>9
  <2> HIDE DEF S
  <2>3. Nat \subseteq S
    BY <2>1, <2>2, Induction
  <2> QED
    BY <2>3 DEF S
<1> QED
  BY <1>8, <1>9, <1>10 DEF V, a

\* A check that the schema accepts at a level, and its truth, by what it is made of.
LEMMA LeafLevel ==
    ASSUME NEW d \in Nat, NEW c \in Checks, c.type \notin Composite, CheckSchema[d][c],
           NEW g \in SUBSET Checks
    PROVE  Truth[d][c][g] = (c \in g)
<1>1. d # 0
  BY SchemaUnfolds
<1>2. d - 1 \in Nat /\ (d - 1) + 1 = d
  BY <1>1
<1>3. Truth[d] = TruthLevel(Truth[d - 1])
  BY <1>2, TruthUnfolds
<1>4. Truth[d][c][g] = TruthAt(Truth[d - 1], c, g)
  BY <1>3 DEF TruthLevel
<1> QED
  BY <1>4 DEF TruthAt

Connects(d, c) ==
    \A g \in SUBSET Checks :
       /\ c.type = "not" => Truth[d][c][g] = ~Truth[d - 1][c.checks[1]][g]
       /\ c.type = "allOf" => Truth[d][c][g] = \A i \in 1..Len(c.checks) : Truth[d - 1][c.checks[i]][g]
       /\ c.type = "anyOf" => Truth[d][c][g] = \E i \in 1..Len(c.checks) : Truth[d - 1][c.checks[i]][g]

LEMMA CompositeLevel ==
    ASSUME NEW d \in Nat, NEW c \in Checks, c.type \in Composite, CheckSchema[d][c]
    PROVE  /\ d - 1 \in Nat /\ Len(c.checks) >= 1
           /\ \A i \in 1..Len(c.checks) : c.checks[i] \in Checks /\ CheckSchema[d - 1][c.checks[i]]
           /\ Connects(d, c)
<1>1. d # 0
  BY SchemaUnfolds
<1>2. d - 1 \in Nat /\ (d - 1) + 1 = d
  BY <1>1
<1>3. Truth[d] = TruthLevel(Truth[d - 1]) /\ CheckSchema[d] = SchemaLevel(CheckSchema[d - 1])
  BY <1>2, TruthUnfolds, SchemaUnfolds
<1>4. \A g \in SUBSET Checks : Truth[d][c][g] = TruthAt(Truth[d - 1], c, g)
  BY <1>3 DEF TruthLevel
<1>5. Len(c.checks) \in 1..MaxChildren /\ \A i \in DOMAIN c.checks : CheckSchema[d - 1][c.checks[i]]
  BY <1>3 DEF SchemaLevel
<1>6. DOMAIN c.checks = 1..Len(c.checks) /\ \A i \in DOMAIN c.checks : c.checks[i] \in Checks
  BY ChecksKnown
<1>7. MaxChildren \in Nat
  BY EnforcementAssumption
<1>8. Len(c.checks) >= 1
  BY <1>5, <1>7
<1>9. ASSUME NEW g \in SUBSET Checks
      PROVE  /\ c.type = "not" => Truth[d][c][g] = ~Truth[d - 1][c.checks[1]][g]
             /\ c.type = "allOf" =>
                   Truth[d][c][g] = \A i \in 1..Len(c.checks) : Truth[d - 1][c.checks[i]][g]
             /\ c.type = "anyOf" =>
                   Truth[d][c][g] = \E i \in 1..Len(c.checks) : Truth[d - 1][c.checks[i]][g]
  BY <1>4, <1>6 DEF TruthAt
<1> QED
  BY <1>2, <1>5, <1>6, <1>8, <1>9 DEF Connects

\* A leaf that read all the files it is about has sorted them by what it looks for,
\* and concludes what is true of them.
LEMMA ReadingMeaning ==
    ASSUME NEW c \in Checks, c.type \in Contents, NEW w, NEW passing, NEW failing,
           \A f \in Present(w, c.glob) : w.files[f].hits \in Nat,
           passing \cup failing = Present(w, c.glob),
           \A f \in passing : Meets(c, w.files[f]), \A f \in failing : ~Meets(c, w.files[f])
    PROVE  LeafTruth(c, w) <=> Concludes(c, Present(w, c.glob), passing, failing)
<1> DEFINE all == Present(w, c.glob)
<1>1. CASE c.type = "content-match"
  <2>1. \A f \in all : Meets(c, w.files[f]) <=> w.files[f].hits >= c.minMatches
    BY <1>1 DEF Meets
  <2>2. LeafTruth(c, w) <=> IF c.scope = "any" THEN \E f \in all : w.files[f].hits >= c.minMatches
                            ELSE all # {} /\ \A f \in all : w.files[f].hits >= c.minMatches
    BY <1>1 DEF LeafTruth
  <2>3. Concludes(c, all, passing, failing) <=>
           (passing \cup failing # {} /\ IF c.scope = "any" THEN passing # {} ELSE failing = {})
    BY <1>1 DEF Concludes
  <2> HIDE DEF all
  <2> QED
    BY <2>1, <2>2, <2>3 DEF all
<1>2. CASE c.type = "content-absent"
  <2>1. \A f \in all : Meets(c, w.files[f]) <=> w.files[f].hits = 0
    BY <1>2 DEF Meets
  <2>2. LeafTruth(c, w) <=> ~\E f \in all : w.files[f].hits > 0
    BY <1>2 DEF LeafTruth
  <2>3. Concludes(c, all, passing, failing) <=> failing = {}
    BY <1>2 DEF Concludes
  <2>4. \A f \in all : w.files[f].hits > 0 <=> ~(w.files[f].hits = 0)
    <3>1. \A n \in Nat : n > 0 <=> ~(n = 0)
      OBVIOUS
    <3> QED
      BY <3>1
  <2> HIDE DEF all
  <2> QED
    BY <2>1, <2>2, <2>3, <2>4 DEF all
<1>3. CASE c.type = "frontmatter-field"
  <2>1. \A f \in all : Meets(c, w.files[f]) <=> w.files[f].field \in c.expect
    BY <1>3 DEF Meets
  <2>2. LeafTruth(c, w) <=> all # {} /\ \A f \in all : w.files[f].field \in c.expect
    BY <1>3 DEF LeafTruth
  <2>3. Concludes(c, all, passing, failing) <=> all # {} /\ failing = {}
    BY <1>3 DEF Concludes
  <2> HIDE DEF all
  <2> QED
    BY <2>1, <2>2, <2>3 DEF all
<1> QED
  BY <1>1, <1>2, <1>3 DEF Contents

LEMMA SingleMeaning ==
    ASSUME NEW c \in Checks, c.type \in Dependency \cup Others, NEW w
    PROVE  /\ SingleRead(c, w) \in Outcome
           /\ Available(c, w) /\ ~SingleRead(c, w).unsupported => LeafTruth(c, w) = SingleRead(c, w).passed
<1>1. CASE c.type = "dependency-absent"
  <2>1. CASE w.dependencies = None
    <3>1. SingleRead(c, w) = Unsupported
      BY <1>1, <2>1 DEF SingleRead, evaluateDependency, Dependency
    <3> QED
      BY <3>1 DEF Unsupported, Outcome
  <2>2. CASE w.dependencies # None
    <3>1. SingleRead(c, w) = Verdict(w.dependencies[c.name] = None)
      BY <1>1, <2>2 DEF SingleRead, evaluateDependency, Dependency
    <3>2. LeafTruth(c, w) = (w.dependencies[c.name] = None)
      BY <1>1 DEF LeafTruth
    <3> QED
      BY <3>1, <3>2, VerdictPassed
  <2> QED
    BY <2>1, <2>2
<1>2. CASE c.type = "dependency-present"
  <2>1. CASE w.dependencies = None
    <3>1. SingleRead(c, w) = Unsupported
      BY <1>2, <2>1 DEF SingleRead, evaluateDependency, Dependency
    <3> QED
      BY <3>1 DEF Unsupported, Outcome
  <2>2. CASE w.dependencies # None
    <3>1. SingleRead(c, w)
            = Verdict(w.dependencies[c.name] # None /\ c.range \in {None, w.dependencies[c.name]})
      BY <1>2, <2>2 DEF SingleRead, evaluateDependency, Dependency
    <3>2. LeafTruth(c, w)
            = (w.dependencies[c.name] # None /\ (c.range = None \/ c.range = w.dependencies[c.name]))
      BY <1>2 DEF LeafTruth
    <3> QED
      BY <3>1, <3>2, VerdictPassed
  <2> QED
    BY <2>1, <2>2
<1>3. CASE c.type = "fingerprint"
  <2>1. SingleRead(c, w) = Verdict(w.fingerprint # None /\ w.fingerprint \in c.expect)
    BY <1>3 DEF SingleRead, evaluateFingerprint, Dependency
  <2>2. Available(c, w) => w.fingerprint # None
    BY <1>3 DEF Available
  <2>3. LeafTruth(c, w) = (w.fingerprint \in c.expect)
    BY <1>3 DEF LeafTruth
  <2>4. CASE w.fingerprint # None /\ w.fingerprint \in c.expect
    <3>1. SingleRead(c, w) = Passed
      BY <2>1, <2>4 DEF Verdict
    <3>2. LeafTruth(c, w) = TRUE
      BY <2>3, <2>4, Zenon
    <3>3. Passed.passed = TRUE /\ Passed \in Outcome
      BY DEF Passed, Outcome
    <3> QED
      BY <3>1, <3>2, <3>3, Zenon
  <2>5. CASE ~(w.fingerprint # None /\ w.fingerprint \in c.expect)
    <3>1. SingleRead(c, w) = Failed
      BY <2>1, <2>5 DEF Verdict
    <3>2. ASSUME Available(c, w) PROVE LeafTruth(c, w) = FALSE
      <4>1. ~(w.fingerprint \in c.expect)
        BY <2>2, <2>5, <3>2
      <4>2. (w.fingerprint \in c.expect) = FALSE
        BY <4>1
      <4> QED
        BY <2>3, <4>2
    <3>3. Failed.passed = FALSE /\ Failed \in Outcome
      BY DEF Failed, Outcome
    <3> QED
      BY <3>1, <3>2, <3>3, Zenon
  <2> QED
    BY <2>4, <2>5
<1>4. CASE c.type = "json-key"
  <2>1. SingleRead(c, w) = Verdict(w.json # Unreadable /\ w.json \in c.expect)
    BY <1>4 DEF SingleRead, evaluateJsonKey, Dependency
  <2>2. Available(c, w) => w.json # Unreadable
    BY <1>4 DEF Available
  <2>3. LeafTruth(c, w) = (w.json \in c.expect)
    BY <1>4 DEF LeafTruth
  <2>4. CASE w.json # Unreadable /\ w.json \in c.expect
    <3>1. SingleRead(c, w) = Passed
      BY <2>1, <2>4 DEF Verdict
    <3>2. LeafTruth(c, w) = TRUE
      BY <2>3, <2>4, Zenon
    <3>3. Passed.passed = TRUE /\ Passed \in Outcome
      BY DEF Passed, Outcome
    <3> QED
      BY <3>1, <3>2, <3>3, Zenon
  <2>5. CASE ~(w.json # Unreadable /\ w.json \in c.expect)
    <3>1. SingleRead(c, w) = Failed
      BY <2>1, <2>5 DEF Verdict
    <3>2. ASSUME Available(c, w) PROVE LeafTruth(c, w) = FALSE
      <4>1. ~(w.json \in c.expect)
        BY <2>2, <2>5, <3>2
      <4>2. (w.json \in c.expect) = FALSE
        BY <4>1
      <4> QED
        BY <2>3, <4>2
    <3>3. Failed.passed = FALSE /\ Failed \in Outcome
      BY DEF Failed, Outcome
    <3> QED
      BY <3>1, <3>2, <3>3, Zenon
  <2> QED
    BY <2>4, <2>5
<1> QED
  BY <1>1, <1>2, <1>3, <1>4 DEF Dependency, Others

\* A listing is empty only if there is nothing to list.
LEMMA FilesListed ==
    ASSUME NEW w, NEW glob, NEW fs \in globFiles(w, glob)
    PROVE  fs \subseteq Present(w, glob) /\ (fs = {} <=> Present(w, glob) = {})
<1> DEFINE all == Present(w, glob)
<1>1. fs \subseteq all /\ Cardinality(fs) = Least(MaxFiles, Cardinality(all))
  BY DEF globFiles
<1>2. IsFiniteSet(all)
  <2> DEFINE S == {Order[i] : i \in DOMAIN Order}
  <2>1. IsFiniteSet(S)
    <3>1. DOMAIN Order = 1..Len(Order) /\ Len(Order) \in Nat
      BY EnforcementAssumption
    <3>2. IsFiniteSet(1..Len(Order))
      BY <3>1, FS_Interval
    <3>3. Order \in Surjection(DOMAIN Order, S)
      <4>1. Order \in [DOMAIN Order -> S]
        BY EnforcementAssumption
      <4> QED
        BY <4>1 DEF Surjection
    <3> QED
      BY <3>1, <3>2, <3>3, FS_Surjection
  <2>2. all \subseteq S
    BY DEF Present
  <2> QED
    BY <2>1, <2>2, FS_Subset
<1>3. IsFiniteSet(fs) /\ Cardinality(fs) \in Nat /\ Cardinality(all) \in Nat
  BY <1>1, <1>2, FS_Subset, FS_CardinalityType
<1>4. (fs = {} <=> Cardinality(fs) = 0) /\ (all = {} <=> Cardinality(all) = 0)
  BY <1>2, <1>3, FS_EmptySet
<1>5. MaxFiles \in Nat \ {0}
  BY EnforcementAssumption
<1> QED
  BY <1>1, <1>3, <1>4, <1>5 DEF Least

-----------------------------------------------------------------------------
(***************************************************************************)
(* The enforcement level keeps, for each rule evaluated so far, an answer   *)
(* that follows from what its leaves looked at, and the counts and findings *)
(* that the answers call for.  Of the rule under way it knows what follows  *)
(* from the children its composites have behind them, which were not        *)
(* decisive, and from the answer on its way to them.                        *)
(***************************************************************************)
Finding == {"info", "warning", "error"}
Answer == {"pass", "fail", "manual", "invalid"}
Evaluated ==
    [severity : {"hard", "soft"}, check : Checks \cup {None, Malformed}, status : Answer]
OfStatus(s, status) == {i \in DOMAIN s : s[i].status \in status}
Serious(x) == x.status = "invalid" \/ (x.status = "fail" /\ x.severity = "hard")

\* Nothing kept a leaf from what it is about, and g is what they found.
Sure(g, grounds) == (\A a \in grounds : a.whole) /\ Agrees(g, grounds)
Sound(c, status, grounds) ==
    /\ status \in {"pass", "fail"} =>
          /\ c \in Checks
          /\ \A g \in SUBSET Checks : Sure(g, grounds) => Truth[MaxDepth][c][g] = (status = "pass")
    /\ status = "manual" => c = None \/ \E a \in grounds : a.said = "unsupported"

IsSequence(s) == s \in Seq({s[i] : i \in DOMAIN s})
EnforcementTypes ==
    /\ repo \in Repositories
    /\ rules \in [{RuleOrder[i] : i \in DOMAIN RuleOrder} -> RuleFiles]
    /\ outcomes \in Seq(Evaluated) /\ errors \in Seq(Finding)
    /\ IsSequence(basis)
    /\ summary \in [enforced : Nat, violations : Nat, manual : Nat]

Judged ==
    /\ Len(basis) = Len(outcomes)
    /\ \A i \in DOMAIN outcomes : Sound(outcomes[i].check, outcomes[i].status, basis[i])

Counted ==
    /\ summary.manual = Cardinality(OfStatus(outcomes, {"manual"}))
    /\ summary.violations = Cardinality(OfStatus(outcomes, {"fail"}))
    /\ summary.enforced = Cardinality(OfStatus(outcomes, {"pass", "fail"}))
    /\ Len(errors) = Len(outcomes) - Cardinality(OfStatus(outcomes, {"pass"}))
    /\ (\E i \in DOMAIN errors : errors[i] = "error") <=>
          \E i \in DOMAIN outcomes : Serious(outcomes[i])

\* The check of the rule, and the child that each composite under way is waiting for.
Under(k) == IF k = 0 THEN rule.check ELSE frames[k].check.checks[frames[k].done + 1]

Stacked ==
    /\ rule.check \in Checks /\ rule.severity \in {"hard", "soft"}
    /\ frames \in Seq([check : Checks, done : Nat]) /\ Len(frames) <= MaxDepth
    /\ \A k \in 1..Len(frames) :
          /\ frames[k].check = Under(k - 1) /\ frames[k].check.type \in Composite
          /\ frames[k].done < Len(frames[k].check.checks)
          /\ frames[k].check.type = "not" => frames[k].done = 0
    /\ \A k \in 0..Len(frames) : Under(k) \in Checks /\ CheckSchema[MaxDepth - k][Under(k)]

Behind ==
    \A g \in SUBSET Checks : Sure(g, looks) =>
        \A k \in 1..Len(frames) : \A j \in 1..frames[k].done :
            Truth[MaxDepth - k][frames[k].check.checks[j]][g] = (frames[k].check.type = "allOf")

Offered ==
    /\ task = Given(task.outcome) /\ task.outcome \in Outcome
    /\ task.outcome.unsupported => \E a \in looks : a.said = "unsupported"
    /\ ~task.outcome.unsupported =>
          \A g \in SUBSET Checks : Sure(g, looks) =>
              Truth[MaxDepth - Len(frames)][Under(Len(frames))][g] = task.outcome.passed

\* A leaf has sorted the files it read, and the rest of its listing is left.
Paths == {Order[i] : i \in DOMAIN Order}
Fields == {"at", "check", "listed", "left", "used", "passing", "failing", "files", "whole"}
Sorted ==
    LET view == [files |-> task.files]
        all == Present(view, task.check.glob)
    IN  /\ DOMAIN task = Fields /\ task.check = Under(Len(frames))
        /\ task.check.type \in Contents
        /\ task.whole \in BOOLEAN
        /\ \E S : task.files \in [Paths -> S]
        /\ \A f \in Paths : task.files[f] # Unreadable => task.files[f].hits \in Nat
        /\ task.listed \subseteq all /\ task.left \subseteq task.listed
        /\ task.passing \cup task.failing \subseteq task.listed \ task.left
        /\ \A f \in task.passing : Meets(task.check, task.files[f])
        /\ \A f \in task.failing : ~Meets(task.check, task.files[f])
        /\ task.whole => task.listed = all /\ task.listed \ task.left \subseteq task.passing \cup task.failing

Evaluating ==
    /\ task.at \in {"idle", "node", "files", "opened", "given"}
    /\ task.at = "idle" => task = Idle /\ frames = <<>> /\ looks = {}
    /\ task.at # "idle" => Stacked /\ Behind
    /\ task.at = "node" => task = EvaluateNode(Under(Len(frames)))
    /\ task.at \in {"files", "opened"} => Sorted
    /\ task.at = "given" => Offered

EnforcementInv == EnforcementTypes /\ Judged /\ Counted /\ Evaluating

LEMMA CountAppended ==
    ASSUME NEW s \in Seq(Evaluated), NEW x \in Evaluated, NEW status
    PROVE  /\ Cardinality(OfStatus(s, status)) \in Nat
           /\ Cardinality(OfStatus(Append(s, x), status))
                = Cardinality(OfStatus(s, status)) + (IF x.status \in status THEN 1 ELSE 0)
<1> DEFINE old == OfStatus(s, status)
           n == Len(s) + 1
<1>1. old \subseteq 1..Len(s) /\ n \notin old
  BY DEF OfStatus
<1>2. IsFiniteSet(old) /\ Cardinality(old) \in Nat
  <2>1. IsFiniteSet(1..Len(s))
    BY FS_Interval
  <2>2. IsFiniteSet(old)
    BY <1>1, <2>1, FS_Subset
  <2> QED
    BY <2>2, FS_CardinalityType
<1>3. OfStatus(Append(s, x), status) = IF x.status \in status THEN old \cup {n} ELSE old
  <2>1. DOMAIN Append(s, x) = 1..n /\ Append(s, x)[n] = x /\ \A i \in 1..Len(s) : Append(s, x)[i] = s[i]
    OBVIOUS
  <2> QED
    BY <2>1 DEF OfStatus
<1> HIDE DEF old, n
<1>4. Cardinality(old \cup {n}) = Cardinality(old) + 1
  BY <1>1, <1>2, FS_AddElement
<1> QED
  BY <1>2, <1>3, <1>4 DEF old
LEMMA AnyAppended ==
    ASSUME NEW s, IsSequence(s), NEW x
    PROVE  /\ IsSequence(Append(s, x))
           /\ Len(s) \in Nat /\ DOMAIN s = 1..Len(s) /\ DOMAIN Append(s, x) = 1..(Len(s) + 1)
           /\ Len(Append(s, x)) = Len(s) + 1 /\ Append(s, x)[Len(s) + 1] = x
           /\ \A i \in 1..Len(s) : Append(s, x)[i] = s[i]
<1> DEFINE S == {s[i] : i \in DOMAIN s} \cup {x}
           t == Append(s, x)
<1>1. s \in Seq(S)
  BY DEF IsSequence
<1>2. x \in S
  OBVIOUS
<1> HIDE DEF S
<1>3. /\ t \in Seq(S) /\ DOMAIN t = 1..Len(t) /\ Len(t) = Len(s) + 1 /\ Len(s) \in Nat
      /\ DOMAIN s = 1..Len(s) /\ t[Len(s) + 1] = x /\ \A i \in 1..Len(s) : t[i] = s[i]
  BY <1>1, <1>2
<1> HIDE DEF t
<1>4. t \in [1..Len(t) -> {t[i] : i \in DOMAIN t}] /\ Len(t) \in Nat
  BY <1>3
<1>5. t \in Seq({t[i] : i \in DOMAIN t})
  BY <1>4
<1> QED
  BY <1>3, <1>5 DEF t, IsSequence

\* One more outcome is reported, and it is sound.
LEMMA Reporting ==
    ASSUME EnforcementInv, NEW x, x.check \in Checks \cup {None, Malformed}, x.severity \in {"hard", "soft"},
           NEW status \in Answer, NEW grounds, Sound(x.check, status, grounds), Report(x, status, grounds),
           UNCHANGED <<repo, rules>>
    PROVE  EnforcementTypes' /\ Judged' /\ Counted'
<1> DEFINE new == [severity |-> x.severity, check |-> x.check, status |-> status]
           found == Found(status, x.severity)
<1>1. /\ outcomes' = Append(outcomes, new) /\ basis' = Append(basis, grounds)
      /\ summary' = Tally(summary, status) /\ errors' = errors \o found
  BY DEF Report
<1>5. new \in Evaluated
  BY DEF Evaluated
<1>6. /\ status = "manual" => found = <<"info">>
      /\ status = "invalid" => found = <<"error">>
      /\ status = "pass" => found = <<>>
      /\ status = "fail" => found = <<IF x.severity = "hard" THEN "error" ELSE "warning">>
  BY DEF Found
<1>8. /\ repo \in Repositories /\ IsSequence(basis)
      /\ outcomes \in Seq(Evaluated) /\ errors \in Seq(Finding)
      /\ summary \in [enforced : Nat, violations : Nat, manual : Nat]
      /\ rules \in [{RuleOrder[k] : k \in DOMAIN RuleOrder} -> RuleFiles]
  BY DEF EnforcementInv, EnforcementTypes
<1>9. new.status = status /\ new.check = x.check /\ new.severity = x.severity
  OBVIOUS
<1> HIDE DEF new, found
<1>7. /\ found \in Seq(Finding)
      /\ Len(found) = IF status = "pass" THEN 0 ELSE 1
      /\ (\E k \in DOMAIN found : found[k] = "error") <=> Serious(new)
  <2>1. ASSUME NEW f \in Finding, found = <<f>>
        PROVE  /\ found \in Seq(Finding) /\ Len(found) = 1
               /\ (\E k \in DOMAIN found : found[k] = "error") <=> f = "error"
    <3>1. DOMAIN found = {1} /\ found[1] = f
      BY <2>1
    <3> QED
      BY <2>1, <3>1
  <2>2. CASE status = "manual"
    BY <1>6, <1>9, <2>2, <2>1 DEF Serious, Finding
  <2>3. CASE status = "invalid"
    BY <1>6, <1>9, <2>3, <2>1 DEF Serious, Finding
  <2>4. CASE status = "pass"
    BY <1>6, <1>9, <2>4 DEF Serious, Finding
  <2>5. CASE status = "fail"
    BY <1>6, <1>9, <2>5, <2>1 DEF Serious, Finding
  <2> QED
    BY <2>2, <2>3, <2>4, <2>5 DEF Answer
<1>10. EnforcementTypes'
  <2>1. summary' \in [enforced : Nat, violations : Nat, manual : Nat]
    BY <1>1, <1>8 DEF Tally
  <2>2. IsSequence(basis')
    BY <1>1, <1>8, AnyAppended
  <2> QED
    BY <1>1, <1>5, <1>7, <1>8, <2>1, <2>2 DEF EnforcementTypes
<1>11. Judged'
  <2>1. Len(basis) = Len(outcomes) /\ \A i \in DOMAIN outcomes : Sound(outcomes[i].check, outcomes[i].status, basis[i])
    BY DEF EnforcementInv, Judged
  <2> DEFINE n == Len(outcomes) + 1
  <2>2. /\ DOMAIN basis' = 1..n /\ Len(basis') = n /\ basis'[n] = grounds
        /\ \A i \in 1..Len(outcomes) : basis'[i] = basis[i]
    BY <1>1, <1>8, <2>1, AnyAppended
  <2>3. /\ DOMAIN outcomes' = 1..n /\ Len(outcomes') = n /\ outcomes'[n] = new
        /\ \A i \in 1..Len(outcomes) : outcomes'[i] = outcomes[i]
        /\ DOMAIN outcomes = 1..Len(outcomes)
    BY <1>1, <1>5, <1>8
  <2>4. ASSUME NEW k \in DOMAIN outcomes' PROVE Sound(outcomes'[k].check, outcomes'[k].status, basis'[k])
    <3>1. CASE k = n
      BY <1>9, <2>2, <2>3, <3>1
    <3>2. CASE k # n
      <4>1. k \in 1..Len(outcomes)
        BY <2>3, <3>2
      <4> QED
        BY <2>1, <2>2, <2>3, <4>1
    <3> QED
      BY <3>1, <3>2
  <2>5. Len(basis') = Len(outcomes')
    BY <2>2, <2>3
  <2> QED
    BY <2>4, <2>5 DEF Judged, Sound, Sure, Agrees
<1>12. Counted'
  <2> DEFINE before(s) == Cardinality(OfStatus(outcomes, s))
             after(s) == Cardinality(OfStatus(outcomes', s))
  <2>1. \A s : before(s) \in Nat /\ after(s) = before(s) + (IF status \in s THEN 1 ELSE 0)
    BY <1>1, <1>5, <1>8, <1>9, CountAppended
  <2>2. /\ summary.manual = before({"manual"}) /\ summary.violations = before({"fail"})
        /\ summary.enforced = before({"pass", "fail"})
        /\ Len(errors) = Len(outcomes) - before({"pass"})
    BY DEF EnforcementInv, Counted
  <2>3. Len(errors') = Len(errors) + Len(found) /\ Len(outcomes') = Len(outcomes) + 1
    <3>1. errors \in Seq(Finding) /\ found \in Seq(Finding)
      BY <1>7, <1>8
    <3>2. Len(errors \o found) = Len(errors) + Len(found)
      BY <3>1
    <3>3. Len(Append(outcomes, new)) = Len(outcomes) + 1
      BY <1>5, <1>8
    <3> QED
      BY <1>1, <3>2, <3>3
  <2>4. Len(errors) \in Nat /\ Len(outcomes) \in Nat
    BY <1>8
  <2>5. (\E k \in DOMAIN errors' : errors'[k] = "error")
           <=> (\E k \in DOMAIN errors : errors[k] = "error") \/ Serious(new)
    <3>1. ASSUME NEW k \in DOMAIN errors', errors'[k] = "error"
          PROVE  (\E j \in DOMAIN errors : errors[j] = "error") \/ (\E j \in DOMAIN found : found[j] = "error")
      <4>1. CASE k \in DOMAIN errors
        BY <1>1, <1>7, <1>8, <3>1, <4>1
      <4>2. CASE k \notin DOMAIN errors
        <5>1. k - Len(errors) \in DOMAIN found /\ errors'[k] = found[k - Len(errors)]
          BY <1>1, <1>7, <1>8, <3>1, <4>2
        <5> QED
          BY <3>1, <5>1
      <4> QED
        BY <4>1, <4>2
    <3>2. ASSUME NEW j \in DOMAIN errors, errors[j] = "error"
          PROVE  \E k \in DOMAIN errors' : errors'[k] = "error"
      <4>1. j \in DOMAIN (errors \o found) /\ (errors \o found)[j] = errors[j]
        BY <1>7, <1>8
      <4> QED
        BY <1>1, <3>2, <4>1
    <3>3. ASSUME NEW j \in DOMAIN found, found[j] = "error"
          PROVE  \E k \in DOMAIN errors' : errors'[k] = "error"
      <4>1. Len(errors) + j \in DOMAIN errors' /\ errors'[Len(errors) + j] = found[j]
        BY <1>1, <1>7, <1>8
      <4> QED
        BY <3>3, <4>1
    <3> QED
      BY <1>7, <3>1, <3>2, <3>3
  <2>6. (\E k \in DOMAIN outcomes' : Serious(outcomes'[k]))
           <=> (\E k \in DOMAIN outcomes : Serious(outcomes[k])) \/ Serious(new)
    <3> DEFINE n == Len(outcomes) + 1
    <3>1. /\ DOMAIN outcomes' = DOMAIN outcomes \cup {n} /\ outcomes'[n] = new
          /\ \A k \in DOMAIN outcomes : outcomes'[k] = outcomes[k]
      BY <1>1, <1>5, <1>8
    <3> HIDE DEF n
    <3> QED
      BY <3>1
  <2> HIDE DEF before, after
  <2>7. /\ summary'.manual = after({"manual"}) /\ summary'.violations = after({"fail"})
        /\ summary'.enforced = after({"pass", "fail"})
    BY <1>1, <2>1, <2>2 DEF Tally
  <2>8. Len(errors') = Len(outcomes') - after({"pass"})
    BY <1>7, <2>1, <2>2, <2>3, <2>4
  <2> QED
    BY <2>5, <2>6, <2>7, <2>8 DEF EnforcementInv, Counted, after
<1> QED
  BY <1>10, <1>11, <1>12

LEMMA Unreported ==
    ASSUME EnforcementInv, UNCHANGED reports, repo' \in Repositories,
           rules' \in [{RuleOrder[k] : k \in DOMAIN RuleOrder} -> RuleFiles]
    PROVE  EnforcementTypes' /\ Judged' /\ Counted'
BY DEF EnforcementInv, EnforcementTypes, IsSequence, Judged, Counted, reports

LEMMA InitEnforcement == EnforcementInit => EnforcementInv
<1> SUFFICES ASSUME EnforcementInit PROVE EnforcementInv
  OBVIOUS
<1>1. \A status : OfStatus(outcomes, status) = {}
  BY DEF EnforcementInit, OfStatus
<1>2. \A status : Cardinality(OfStatus(outcomes, status)) = 0
  BY <1>1, FS_EmptySet
<1>3. EnforcementTypes
  BY DEF EnforcementInit, EnforcementTypes, IsSequence
<1>4. Judged
  BY DEF EnforcementInit, Judged
<1>5. Counted
  BY <1>2 DEF EnforcementInit, Counted
<1>6. Evaluating
  BY DEF EnforcementInit, Evaluating, Idle
<1> QED
  BY <1>3, <1>4, <1>5, <1>6 DEF EnforcementInv

-----------------------------------------------------------------------------
(***************************************************************************)
(* The steps of an evaluation.                                              *)
(***************************************************************************)
\* A level above the deepest check.
LEMMA StackLevels ==
    ASSUME Stacked
    PROVE  /\ Len(frames) \in Nat /\ DOMAIN frames = 1..Len(frames)
           /\ \A k \in 1..Len(frames) : frames[k] \in [check : Checks, done : Nat]
           /\ \A k \in 0..Len(frames) : MaxDepth - k \in Nat
<1>1. MaxDepth \in Nat
  BY EnforcementAssumption
<1> DEFINE T == [check : Checks, done : Nat]
<1>2. frames \in Seq(T) /\ Len(frames) <= MaxDepth
  BY DEF Stacked
<1> HIDE DEF T
<1>3. Len(frames) \in Nat /\ DOMAIN frames = 1..Len(frames) /\ \A k \in 1..Len(frames) : frames[k] \in T
  BY <1>2
<1>4. \A k \in 0..Len(frames) : MaxDepth - k \in Nat
  BY <1>1, <1>2, <1>3
<1> QED
  BY <1>3, <1>4 DEF T

LEMMA MoreLooks ==
    ASSUME NEW g, NEW grounds, NEW more, grounds \subseteq more, Sure(g, more) PROVE Sure(g, grounds)
BY DEF Sure, Agrees

\* What is known of the stack outlasts a step that only looks further.
LEMMA StackKept ==
    ASSUME Stacked, Behind, UNCHANGED <<rule, frames>>, looks \subseteq looks'
    PROVE  Stacked' /\ Behind' /\ Under(Len(frames))' = Under(Len(frames))
<1>1. Stacked' /\ Under(Len(frames))' = Under(Len(frames))
  BY DEF Stacked, Under
<1>2. \A g : Sure(g, looks') => Sure(g, looks)
  BY MoreLooks
<1>3. Behind'
  <2>1. ASSUME NEW g \in SUBSET Checks, Sure(g, looks'), NEW k \in 1..Len(frames), NEW j \in 1..frames[k].done
        PROVE  Truth[MaxDepth - k][frames[k].check.checks[j]][g] = (frames[k].check.type = "allOf")
    BY <1>2, <2>1 DEF Behind
  <2> QED
    BY <2>1 DEF Behind, Sure, Agrees
<1> QED
  BY <1>1, <1>3

\* A leaf answers: if it saw all, what it says is what g says of it.
LEMMA LeafGives ==
    ASSUME Stacked, Behind, UNCHANGED <<rule, frames>>, NEW o \in Outcome, NEW look,
           task' = Given(o), looks' = looks \cup {look},
           look.leaf = Under(Len(frames)), look.leaf.type \notin Composite,
           o.unsupported => look.said = "unsupported",
           ~o.unsupported => look.said = "answer" /\ (look.whole => (LeafTruth(look.leaf, look.view) <=> o.passed))
    PROVE  Evaluating'
<1> DEFINE n == Len(frames)
           c == look.leaf
           d == MaxDepth - n
<1>1. Stacked' /\ Behind' /\ Under(Len(frames))' = c
  BY StackKept
<1>2. n \in Nat /\ d \in Nat /\ c \in Checks /\ CheckSchema[d][c]
  BY StackLevels DEF Stacked
<1>3. ASSUME ~o.unsupported, NEW g \in SUBSET Checks, Sure(g, looks')
      PROVE  Truth[d][c][g] = o.passed
  <2>1. look.whole /\ ((c \in g) <=> LeafTruth(c, look.view))
    BY <1>3 DEF Sure, Agrees
  <2>2. (c \in g) <=> o.passed
    BY <1>3, <2>1
  <2>3. Truth[d][c][g] = (c \in g)
    BY <1>2, LeafLevel
  <2> HIDE DEF c, d
  <2>4. o.passed \in BOOLEAN
    BY OutcomeBoolean
  <2> QED
    BY <2>2, <2>3, <2>4
<1>4. o.unsupported => \E a \in looks' : a.said = "unsupported"
  OBVIOUS
<1>5. task'.at = "given" /\ task'.outcome = o
  BY DEF Given
<1>6. Offered'
  <2>1. /\ MaxDepth - Len(frames') = d /\ Under(Len(frames))' = c
    BY <1>1
  <2> HIDE DEF d, c
  <2>2. \A g \in SUBSET Checks : ~o.unsupported /\ Sure(g, looks') => Truth[d][c][g] = o.passed
    BY <1>3
  <2> QED
    BY <1>4, <1>5, <2>1, <2>2 DEF Offered, Sure, Agrees
<1> QED
  BY <1>1, <1>5, <1>6 DEF Evaluating

LEMMA AskStep == ASSUME Evaluating, AskLeaf PROVE Evaluating'
<1> DEFINE c == Under(Len(frames))
           o == SingleRead(c, repo)
           look == Look(c, repo, Available(c, repo), Answered(o))
<1>1. Stacked /\ Behind /\ task = EvaluateNode(c)
  BY DEF Evaluating, AskLeaf
<1>2. c \in Checks /\ task.check = c /\ c.type \in Dependency \cup Others
  BY <1>1, StackLevels DEF Stacked, EvaluateNode, AskLeaf
<1>3. task' = Given(o) /\ looks' = looks \cup {look} /\ UNCHANGED <<rule, frames>>
  BY <1>2 DEF AskLeaf, Give
<1>4. /\ o \in Outcome
      /\ Available(c, repo) /\ ~o.unsupported => LeafTruth(c, repo) = o.passed
  BY <1>2, SingleMeaning
<1>5. /\ look.leaf = c /\ look.view = repo /\ look.whole = Available(c, repo)
      /\ o.unsupported => look.said = "unsupported"
      /\ ~o.unsupported => look.said = "answer"
  BY DEF Look, Answered
<1>6. c.type \notin Composite
  BY <1>2 DEF Composite, Dependency, Others
<1> HIDE DEF c, o, look
<1> QED
  BY <1>1, <1>3, <1>4, <1>5, <1>6, LeafGives DEF c

LEMMA ConcludeStep == ASSUME Evaluating, Conclude PROVE Evaluating'
<1> DEFINE c == task.check
           view == [files |-> task.files]
           b == Concludes(c, task.listed, task.passing, task.failing)
           o == Verdict(b)
           look == Look(c, view, task.whole, "answer")
<1>1. Stacked /\ Behind /\ Sorted
  BY DEF Evaluating, Conclude
<1>2. c = Under(Len(frames)) /\ c \in Checks /\ c.type \in Contents
  BY <1>1, StackLevels DEF Stacked, Sorted
<1>3. task' = Given(o) /\ looks' = looks \cup {look} /\ UNCHANGED <<rule, frames>>
  BY DEF Conclude, Give
<1>4. b \in BOOLEAN
  BY <1>2 DEF Concludes, Contents
<1>5. o \in Outcome /\ o.passed = b /\ o.unsupported = FALSE
  BY <1>4, VerdictPassed
<1>6. look.leaf = c /\ look.view = view /\ look.whole = task.whole /\ look.said = "answer"
  BY DEF Look
<1>7. ASSUME task.whole PROVE LeafTruth(c, view) <=> b
  <2>1. task.listed = Present(view, c.glob) /\ task.passing \cup task.failing = Present(view, c.glob)
    BY <1>1, <1>7 DEF Sorted, Conclude
  <2>2. \A f \in Present(view, c.glob) : view.files[f].hits \in Nat
    BY <1>1 DEF Sorted, Present, Paths
  <2>3. (\A f \in task.passing : Meets(c, view.files[f])) /\ (\A f \in task.failing : ~Meets(c, view.files[f]))
    BY <1>1 DEF Sorted
  <2> DEFINE passing == task.passing
             failing == task.failing
  <2> HIDE DEF c, view
  <2>4. b = Concludes(c, Present(view, c.glob), passing, failing)
    BY <2>1
  <2> HIDE DEF passing, failing, b
  <2> QED
    BY <1>2, <2>1, <2>2, <2>3, <2>4, ReadingMeaning DEF passing, failing
<1>8. c.type \notin Composite
  BY <1>2 DEF Composite, Contents
<1> HIDE DEF c, view, b, o, look
<1> QED
  BY <1>1, <1>2, <1>3, <1>5, <1>6, <1>7, <1>8, LeafGives

LEMMA RepositoryFiles ==
    ASSUME NEW w \in Repositories
    PROVE  /\ \E S : w.files \in [Paths -> S]
           /\ \A f \in Paths : w.files[f] # Unreadable => w.files[f].hits \in Nat
           /\ \A glob : Present([files |-> w.files], glob) = Present(w, glob)
<1>1. w.files \in [Paths -> {w.files[Order[i]] : i \in DOMAIN Order}]
  BY EnforcementAssumption DEF Paths
<1>2. \A f \in Paths : w.files[f] # Unreadable => w.files[f].hits \in Nat
  BY EnforcementAssumption DEF Paths
<1>3. \A glob : Present([files |-> w.files], glob) = Present(w, glob)
  BY DEF Present
<1> QED
  BY <1>1, <1>2, <1>3

LEMMA ListStep == ASSUME Evaluating, repo \in Repositories, ListFiles PROVE Evaluating'
<1> DEFINE c == task.check
<1>1. Stacked /\ Behind /\ task = EvaluateNode(Under(Len(frames)))
  BY DEF Evaluating, ListFiles
<1>2. c = Under(Len(frames)) /\ c \in Checks /\ UNCHANGED <<rule, frames>>
  BY <1>1, StackLevels DEF Stacked, EvaluateNode, ListFiles
<1>3. PICK fs \in globFiles(repo, c.glob) :
          \/ /\ c.type \in Listing
             /\ Give(Verdict((fs # {}) = (c.type = "file-exists")), Look(c, repo, TRUE, "answer"))
          \/ /\ c.type \in Contents
             /\ task' = [at |-> "files", check |-> c, listed |-> fs, left |-> fs, used |-> 0,
                         passing |-> {}, failing |-> {}, files |-> repo.files,
                         whole |-> fs = Present(repo, c.glob)]
             /\ looks' = looks
  BY DEF ListFiles
<1>4. fs \subseteq Present(repo, c.glob) /\ (fs = {} <=> Present(repo, c.glob) = {})
  BY FilesListed
<1>5. CASE c.type \in Listing /\ Give(Verdict((fs # {}) = (c.type = "file-exists")), Look(c, repo, TRUE, "answer"))
  <2> DEFINE b == (fs # {}) = (c.type = "file-exists")
             o == Verdict(b)
             look == Look(c, repo, TRUE, "answer")
  <2>1. o \in Outcome /\ o.passed = b /\ o.unsupported = FALSE
    BY VerdictPassed
  <2>2. look.leaf = c /\ look.view = repo /\ look.said = "answer"
    BY DEF Look
  <2>3. LeafTruth(c, repo) <=> b
    <3>1. CASE c.type = "file-exists"
      BY <1>4, <3>1 DEF LeafTruth
    <3>2. CASE c.type = "file-absent"
      BY <1>4, <3>2 DEF LeafTruth
    <3> QED
      BY <1>5, <3>1, <3>2 DEF Listing
  <2>4. task' = Given(o) /\ looks' = looks \cup {look}
    BY <1>5 DEF Give
  <2>5. c.type \notin Composite
    BY <1>5 DEF Composite, Listing
  <2> HIDE DEF c, b, o, look
  <2> QED
    BY <1>1, <1>2, <2>1, <2>2, <2>3, <2>4, <2>5, LeafGives
<1>6. CASE /\ c.type \in Contents
           /\ task' = [at |-> "files", check |-> c, listed |-> fs, left |-> fs, used |-> 0,
                       passing |-> {}, failing |-> {}, files |-> repo.files,
                       whole |-> fs = Present(repo, c.glob)]
           /\ looks' = looks
  <2>1. Stacked' /\ Behind' /\ Under(Len(frames))' = c
    BY <1>1, <1>2, <1>6, StackKept
  <2> DEFINE whole == fs = Present(repo, c.glob)
  <2>2. /\ task'.at = "files" /\ task'.check = c /\ task'.listed = fs /\ task'.left = fs /\ task'.used = 0
        /\ task'.passing = {} /\ task'.failing = {} /\ task'.files = repo.files /\ task'.whole = whole
        /\ DOMAIN task' = Fields
    BY <1>6 DEF Fields
  <2>3. whole \in BOOLEAN /\ (whole => fs = Present(repo, c.glob))
    OBVIOUS
  <2>4. /\ \E S : repo.files \in [Paths -> S]
        /\ \A f \in Paths : repo.files[f] # Unreadable => repo.files[f].hits \in Nat
        /\ Present([files |-> repo.files], c.glob) = Present(repo, c.glob)
    BY RepositoryFiles
  <2> HIDE DEF whole, c
  <2>5. Sorted'
    BY <1>4, <1>6, <2>1, <2>2, <2>3, <2>4 DEF Sorted
  <2> QED
    BY <2>1, <2>2, <2>5 DEF Evaluating
<1> QED
  BY <1>3, <1>5, <1>6

\* A file is dropped from a listing unread.
LEMMA Dropped ==
    ASSUME Evaluating, task.at \in {"files", "opened"}, UNCHANGED <<rule, frames, looks>>, NEW f,
           task' = [task EXCEPT !.at = "files", !.left = task.left \ {f}, !.whole = FALSE]
    PROVE  Evaluating'
<1>1. Stacked /\ Behind /\ Sorted
  BY DEF Evaluating
<1>2. Stacked' /\ Behind' /\ Under(Len(frames))' = Under(Len(frames))
  BY <1>1, StackKept
<1>3. DOMAIN task = Fields
  BY <1>1 DEF Sorted
<1>4. /\ task'.at = "files" /\ task'.check = task.check /\ task'.listed = task.listed
      /\ task'.left = task.left \ {f} /\ task'.used = task.used
      /\ task'.passing = task.passing /\ task'.failing = task.failing /\ task'.files = task.files
      /\ task'.whole = FALSE
      /\ DOMAIN task' = Fields
  BY <1>3 DEF Fields
<1>5. Sorted'
  BY <1>1, <1>2, <1>4 DEF Sorted
<1> QED
  BY <1>2, <1>4, <1>5 DEF Evaluating

LEMMA StatStep == ASSUME Evaluating, StatFile PROVE Evaluating'
<1>1. PICK i \in DOMAIN Order :
         task' = IF Skips(repo, Order[i])
                 THEN [task EXCEPT !.left = @ \ {Order[i]}, !.whole = FALSE]
                 ELSE [task EXCEPT !.at = "opened", !.used = @ + repo.files[Order[i]].size]
  BY DEF StatFile
<1>2. Stacked /\ Behind /\ Sorted /\ task.at = "files" /\ UNCHANGED <<rule, frames, looks>>
  BY DEF Evaluating, StatFile
<1>3. DOMAIN task = Fields
  BY <1>2 DEF Sorted
<1>4. CASE Skips(repo, Order[i])
  <2>1. task' = [task EXCEPT !.at = "files", !.left = task.left \ {Order[i]}, !.whole = FALSE]
    BY <1>1, <1>2, <1>3, <1>4
  <2> QED
    BY <1>2, <2>1, Dropped
<1>5. CASE ~Skips(repo, Order[i])
  <2>1. Stacked' /\ Behind' /\ Under(Len(frames))' = Under(Len(frames))
    BY <1>2, StackKept
  <2> DEFINE u == task.used + repo.files[Order[i]].size
  <2>2. task' = [task EXCEPT !.at = "opened", !.used = u]
    BY <1>1, <1>3, <1>5
  <2> HIDE DEF u
  <2>3. /\ task'.at = "opened" /\ task'.check = task.check /\ task'.listed = task.listed
        /\ task'.left = task.left /\ task'.used = u
        /\ task'.passing = task.passing /\ task'.failing = task.failing /\ task'.files = task.files
        /\ task'.whole = task.whole
        /\ DOMAIN task' = Fields
    BY <1>3, <2>2 DEF Fields
  <2>4. Sorted'
    BY <1>2, <2>1, <2>3 DEF Sorted
  <2> QED
    BY <2>1, <2>3, <2>4 DEF Evaluating
<1> QED
  BY <1>4, <1>5

LEMMA ReadFileStep == ASSUME Evaluating, repo \in Repositories, ReadFile PROVE Evaluating'
<1>1. PICK i \in DOMAIN Order :
         /\ Order[i] \in task.left
         /\ LET f == Order[i]
                file == repo.files[f]
            IN  task' = IF file = Unreadable \/ ~file.readable
                        THEN [task EXCEPT !.at = "files", !.left = @ \ {f}, !.whole = FALSE]
                        ELSE [task EXCEPT !.at = "files", !.left = @ \ {f}, !.files[f] = file,
                                          !.passing = IF Meets(task.check, file) THEN @ \cup {f} ELSE @,
                                          !.failing = IF Meets(task.check, file) THEN @ ELSE @ \cup {f}]
  BY DEF ReadFile
<1>2. Stacked /\ Behind /\ Sorted /\ task.at = "opened" /\ UNCHANGED <<rule, frames, looks>>
  BY DEF Evaluating, ReadFile
<1> DEFINE p == Order[i]
           file == repo.files[p]
           glob == task.check.glob
<1>3. CASE file = Unreadable \/ ~file.readable
  <2>1. task' = [task EXCEPT !.at = "files", !.left = task.left \ {p}, !.whole = FALSE]
    BY <1>1, <1>3
  <2> QED
    BY <1>2, <2>1, Dropped
<1>4. CASE ~(file = Unreadable \/ ~file.readable)
  <2> DEFINE meets == Meets(task.check, file)
             passing == IF meets THEN task.passing \cup {p} ELSE task.passing
             failing == IF meets THEN task.failing ELSE task.failing \cup {p}
             files == [task.files EXCEPT ![p] = file]
  <2>1. DOMAIN task = Fields
    BY <1>2 DEF Sorted
  <2>2. Stacked' /\ Behind' /\ Under(Len(frames))' = Under(Len(frames))
    BY <1>2, StackKept
  <2>3. task' = [task EXCEPT !.at = "files", !.left = task.left \ {p}, !.files = files,
                             !.passing = passing, !.failing = failing]
    BY <1>1, <1>4, <2>1
  <2>4. /\ p \in Paths /\ p \in task.left /\ p \in task.listed /\ task.listed \subseteq Present([files |-> task.files], glob)
        /\ file # Unreadable /\ file.hits \in Nat
    BY <1>1, <1>2, <1>4, RepositoryFiles DEF Sorted, Paths
  <2>5. PICK S : task.files \in [Paths -> S]
    BY <1>2 DEF Sorted
  <2>6. /\ files \in [Paths -> S \cup {file}]
        /\ files[p] = file /\ \A f \in Paths : f # p => files[f] = task.files[f]
    BY <2>4, <2>5
  <2> HIDE DEF files, passing, failing
  <2>7. /\ task'.at = "files" /\ task'.check = task.check /\ task'.listed = task.listed
        /\ task'.left = task.left \ {p} /\ task'.used = task.used
        /\ task'.passing = passing /\ task'.failing = failing /\ task'.files = files
        /\ task'.whole = task.whole
        /\ DOMAIN task' = Fields
    BY <2>1, <2>3 DEF Fields
  <2>8. Present([files |-> files], glob) = Present([files |-> task.files], glob)
    <3>1. p \in Present([files |-> task.files], glob)
      BY <2>4
    <3>2. task.files[p] # Unreadable /\ p \in glob
      BY <3>1 DEF Present
    <3>3. \A f \in Paths : files[f] # Unreadable <=> task.files[f] # Unreadable
      BY <2>4, <2>6, <3>2
    <3>4. \A w : Present(w, glob) = {f \in glob : f \in Paths /\ w.files[f] # Unreadable}
      BY DEF Present, Paths
    <3> HIDE DEF glob
    <3> QED
      BY <3>3, <3>4
  <2>9. /\ passing \cup failing \subseteq task.listed \ (task.left \ {p})
        /\ passing \cup failing = task.passing \cup task.failing \cup {p}
    <3>1. task.passing \cup task.failing \subseteq task.listed \ task.left
      BY <1>2 DEF Sorted
    <3> QED
      BY <2>4, <3>1 DEF passing, failing
  <2>10. \A f \in (task.passing \cup task.failing) : files[f] = task.files[f]
    <3>1. task.passing \cup task.failing \subseteq task.listed \ task.left
      BY <1>2 DEF Sorted
    <3>2. task.listed \subseteq Paths
      BY <2>4 DEF Present, Paths
    <3> QED
      BY <2>4, <2>6, <3>1, <3>2
  <2>11. /\ \A f \in task.passing : Meets(task.check, files[f])
         /\ \A f \in task.failing : ~Meets(task.check, files[f])
    <3>1. /\ \A f \in task.passing : Meets(task.check, task.files[f])
          /\ \A f \in task.failing : ~Meets(task.check, task.files[f])
      BY <1>2 DEF Sorted
    <3> QED
      BY <2>10, <3>1
  <2>12. /\ \A f \in passing : Meets(task.check, files[f])
         /\ \A f \in failing : ~Meets(task.check, files[f])
    <3>1. Meets(task.check, files[p]) <=> meets
      BY <2>6
    <3> HIDE DEF meets
    <3> QED
      BY <2>11, <3>1 DEF passing, failing
  <2>13. \A f \in Paths : files[f] # Unreadable => files[f].hits \in Nat
    <3>1. \A f \in Paths : task.files[f] # Unreadable => task.files[f].hits \in Nat
      BY <1>2 DEF Sorted
    <3> QED
      BY <2>4, <2>6, <3>1
  <2>14. task.whole => /\ task.listed = Present([files |-> files], glob)
                       /\ task.listed \ (task.left \ {p}) \subseteq passing \cup failing
    <3>1. task.whole => /\ task.listed = Present([files |-> task.files], glob)
                        /\ task.listed \ task.left \subseteq task.passing \cup task.failing
      BY <1>2 DEF Sorted
    <3> QED
      BY <2>8, <2>9, <3>1
  <2>15. /\ task.check.type \in Contents /\ task.whole \in BOOLEAN /\ task.check = Under(Len(frames))
         /\ task.left \ {p} \subseteq task.listed
         /\ task.listed \subseteq Present([files |-> files], glob)
    BY <1>2, <2>4, <2>8 DEF Sorted
  <2>16. \E T : files \in [Paths -> T]
    BY <2>6
  <2> HIDE DEF p, file, meets
  <2>17. Sorted'
    BY <2>2, <2>7, <2>9, <2>12, <2>13, <2>14, <2>15, <2>16 DEF Sorted
  <2> QED
    BY <2>2, <2>7, <2>17 DEF Evaluating
<1> QED
  BY <1>3, <1>4

LEMMA EnterStep == ASSUME Evaluating, EnterComposite PROVE Evaluating'
<1> SUFFICES ASSUME NEW n, n = Len(frames), NEW c, c = task.check PROVE Evaluating'
  OBVIOUS
<1> DEFINE new == [check |-> c, done |-> 0]
<1>1. Stacked /\ Behind /\ task = EvaluateNode(Under(n)) /\ c.type \in Composite
  BY DEF Evaluating, EnterComposite
<1>2. n \in Nat /\ MaxDepth - n \in Nat /\ c = Under(n) /\ c \in Checks /\ CheckSchema[MaxDepth - n][c]
  BY <1>1, StackLevels DEF Stacked, EvaluateNode
<1>3. frames' = Append(frames, new) /\ task' = EvaluateNode(c.checks[1]) /\ UNCHANGED <<rule, looks>>
  BY DEF EnterComposite
<1>4. /\ (MaxDepth - n) - 1 \in Nat /\ Len(c.checks) >= 1 /\ c.checks[1] \in Checks
      /\ CheckSchema[(MaxDepth - n) - 1][c.checks[1]]
  <2>1. Len(c.checks) \in Nat
    BY <1>1, <1>2, ChecksKnown
  <2> DEFINE d == MaxDepth - n
  <2>2. d \in Nat /\ CheckSchema[d][c]
    BY <1>2
  <2> HIDE DEF d
  <2>3. /\ d - 1 \in Nat /\ Len(c.checks) >= 1
        /\ \A i \in 1..Len(c.checks) : c.checks[i] \in Checks /\ CheckSchema[d - 1][c.checks[i]]
    BY <1>1, <1>2, <2>2, CompositeLevel
  <2>4. 1 \in 1..Len(c.checks)
    BY <2>1, <2>3
  <2> QED
    BY <2>3, <2>4 DEF d
<1>5. MaxDepth \in Nat /\ (MaxDepth - n) - 1 = MaxDepth - (n + 1) /\ n + 1 <= MaxDepth
  BY <1>2, <1>4, EnforcementAssumption
<1>6. new \in [check : Checks, done : Nat] /\ new.check = c /\ new.done = 0
  BY <1>2
<1> HIDE DEF new
<1>7. /\ frames' \in Seq([check : Checks, done : Nat]) /\ Len(frames') = n + 1
      /\ frames'[n + 1] = new /\ \A k \in 1..n : frames'[k] = frames[k]
  <2>1. frames \in Seq([check : Checks, done : Nat])
    BY <1>1 DEF Stacked
  <2> QED
    BY <1>3, <1>6, <2>1
<1>8. Under(n + 1)' = c.checks[1] /\ \A k \in 0..n : Under(k)' = Under(k)
  <2>1. Under(n + 1)' = c.checks[1]
    BY <1>2, <1>6, <1>7 DEF Under
  <2>2. ASSUME NEW k \in 0..n PROVE Under(k)' = Under(k)
    <3>1. CASE k = 0
      BY <1>3, <3>1 DEF Under
    <3>2. CASE k # 0
      <4>1. k \in 1..n
        BY <1>2, <3>2
      <4>2. frames'[k] = frames[k]
        BY <1>7, <4>1
      <4> QED
        BY <3>2, <4>2 DEF Under
    <3> QED
      BY <3>1, <3>2
  <2> QED
    BY <2>1, <2>2
<1>9. Stacked'
  <2>1. ASSUME NEW k \in 1..(n + 1)
        PROVE  /\ frames'[k].check = Under(k - 1)' /\ frames'[k].check.type \in Composite
               /\ frames'[k].done < Len(frames'[k].check.checks)
               /\ frames'[k].check.type = "not" => frames'[k].done = 0
    <3>1. CASE k = n + 1
      <4>1. k - 1 = n /\ n \in 0..n
        BY <1>2, <3>1
      <4>2. Under(k - 1)' = c
        BY <1>2, <1>8, <4>1
      <4>3. Len(c.checks) \in Nat
        BY <1>1, <1>2, ChecksKnown
      <4>4. 0 < Len(c.checks)
        BY <1>4, <4>3
      <4> QED
        BY <1>1, <1>6, <1>7, <3>1, <4>2, <4>4
    <3>2. CASE k # n + 1
      <4>1. k \in 1..n /\ k - 1 \in 0..n
        BY <1>2, <3>2
      <4> QED
        BY <1>1, <1>7, <1>8, <4>1 DEF Stacked
    <3> QED
      BY <3>1, <3>2
  <2>2. ASSUME NEW k \in 0..(n + 1) PROVE Under(k)' \in Checks /\ CheckSchema[MaxDepth - k][Under(k)']
    <3>1. CASE k = n + 1
      BY <1>4, <1>5, <1>8, <3>1
    <3>2. CASE k # n + 1
      <4>1. k \in 0..n
        BY <1>2, <3>2
      <4> QED
        BY <1>1, <1>8, <4>1 DEF Stacked
    <3> QED
      BY <3>1, <3>2
  <2>3. rule'.check \in Checks /\ rule'.severity \in {"hard", "soft"}
    BY <1>1, <1>3 DEF Stacked
  <2> QED
    BY <1>5, <1>7, <2>1, <2>2, <2>3 DEF Stacked
<1>10. Behind'
  <2>1. ASSUME NEW g \in SUBSET Checks, Sure(g, looks), NEW k \in 1..(n + 1), NEW j \in 1..frames'[k].done
        PROVE  Truth[MaxDepth - k][frames'[k].check.checks[j]][g] = (frames'[k].check.type = "allOf")
    <3>1. k # n + 1
      BY <1>6, <1>7
    <3>2. k \in 1..n /\ frames'[k] = frames[k]
      BY <1>2, <1>7, <3>1
    <3> QED
      BY <1>1, <2>1, <3>2 DEF Behind
  <2>2. UNCHANGED looks /\ Len(frames') = n + 1
    BY <1>3, <1>7
  <2> QED
    BY <2>1, <2>2 DEF Behind, Sure, Agrees
<1>11. task' = EvaluateNode(Under(Len(frames))') /\ task'.at = "node"
  BY <1>3, <1>7, <1>8 DEF EvaluateNode
<1> QED
  BY <1>9, <1>10, <1>11 DEF Evaluating

\* What the innermost composite is, and what it knows of its children.
TopComposite(n, c, m, d) ==
    /\ n \in Nat \ {0} /\ d \in Nat /\ MaxDepth - (n - 1) \in Nat /\ (MaxDepth - (n - 1)) - 1 = d
    /\ c \in Checks /\ c.type \in Composite /\ c = Under(n - 1)
    /\ Len(c.checks) \in Nat /\ m \in 1..Len(c.checks) /\ (c.type = "not" => m = 1)
    /\ CheckSchema[MaxDepth - (n - 1)][c] /\ Under(n) = c.checks[m]
    /\ \A i \in 1..Len(c.checks) : c.checks[i] \in Checks /\ CheckSchema[d][c.checks[i]]
    /\ \A g \in SUBSET Checks : Sure(g, looks) =>
          /\ \A j \in 1..(m - 1) : Truth[d][c.checks[j]][g] = (c.type = "allOf")
          /\ ~task.outcome.unsupported => Truth[d][c.checks[m]][g] = task.outcome.passed

LEMMA InnermostComposite ==
    ASSUME Evaluating, task.at = "given", frames # <<>>,
           NEW n, n = Len(frames), NEW c, c = frames[n].check, NEW m, m = frames[n].done + 1,
           NEW d, d = MaxDepth - n
    PROVE  TopComposite(n, c, m, d)
<1>1. Stacked /\ Behind /\ Offered
  BY DEF Evaluating
<1>2. /\ n \in Nat /\ \A k \in 1..n : frames[k] \in [check : Checks, done : Nat]
      /\ \A k \in 0..n : MaxDepth - k \in Nat
  BY <1>1, StackLevels
<1>3. n # 0
  BY <1>1 DEF Stacked
<1>4. n \in 1..n /\ n - 1 \in 0..n
  BY <1>2, <1>3
<1>5. /\ frames[n] \in [check : Checks, done : Nat] /\ d \in Nat /\ MaxDepth - (n - 1) \in Nat
      /\ (MaxDepth - (n - 1)) - 1 = d
  BY <1>2, <1>4, EnforcementAssumption
<1>6. /\ c = Under(n - 1) /\ c.type \in Composite /\ frames[n].done < Len(c.checks)
      /\ c.type = "not" => frames[n].done = 0
      /\ c \in Checks /\ CheckSchema[MaxDepth - (n - 1)][c]
  BY <1>1, <1>4 DEF Stacked
<1>7. Len(c.checks) \in Nat /\ m \in 1..Len(c.checks) /\ (c.type = "not" => m = 1) /\ m - 1 = frames[n].done
  <2> DEFINE done == frames[n].done
             len == Len(c.checks)
  <2>1. done \in Nat /\ len \in Nat /\ m = done + 1 /\ done < len /\ (c.type = "not" => done = 0)
    BY <1>5, <1>6, ChecksKnown
  <2> HIDE DEF done, len
  <2>2. m \in 1..len /\ m - 1 = done /\ (c.type = "not" => m = 1)
    BY <2>1
  <2> QED
    BY <2>1, <2>2 DEF done, len
<1>8. Under(n) = c.checks[m]
  BY <1>3 DEF Under
<1>9. \A i \in 1..Len(c.checks) : c.checks[i] \in Checks /\ CheckSchema[d][c.checks[i]]
  <2> DEFINE e == MaxDepth - (n - 1)
  <2>1. e \in Nat /\ CheckSchema[e][c] /\ e - 1 = d
    BY <1>5, <1>6
  <2> HIDE DEF e
  <2>2. \A i \in 1..Len(c.checks) : c.checks[i] \in Checks /\ CheckSchema[e - 1][c.checks[i]]
    BY <1>6, <2>1, CompositeLevel
  <2> QED
    BY <2>1, <2>2
<1>10. ASSUME NEW g \in SUBSET Checks, Sure(g, looks)
       PROVE  /\ \A j \in 1..(m - 1) : Truth[d][c.checks[j]][g] = (c.type = "allOf")
              /\ ~task.outcome.unsupported => Truth[d][c.checks[m]][g] = task.outcome.passed
  <2>1. \A j \in 1..(m - 1) : Truth[d][c.checks[j]][g] = (c.type = "allOf")
    BY <1>1, <1>4, <1>7, <1>10 DEF Behind
  <2>2. ~task.outcome.unsupported => Truth[d][c.checks[m]][g] = task.outcome.passed
    BY <1>1, <1>8, <1>10 DEF Offered
  <2> QED
    BY <2>1, <2>2
<1> QED
  BY <1>2, <1>3, <1>5, <1>6, <1>7, <1>8, <1>9, <1>10 DEF TopComposite

LEMMA NextStep == ASSUME Evaluating, NextChild PROVE Evaluating'
<1> SUFFICES ASSUME NEW n, n = Len(frames), NEW c, c = frames[n].check, NEW m, m = frames[n].done + 1,
                    NEW d, d = MaxDepth - n
             PROVE  Evaluating'
  OBVIOUS
<1> DEFINE new == [check |-> c, done |-> m]
<1>1. /\ task.at = "given" /\ frames # <<>> /\ c.type # "not" /\ ~Decides(c.type, task.outcome)
      /\ m < Len(c.checks) /\ frames' = [frames EXCEPT ![n] = new]
      /\ task' = EvaluateNode(c.checks[m + 1]) /\ UNCHANGED <<rule, looks>>
  BY DEF NextChild
<1>2. Stacked /\ Behind /\ Offered
  BY <1>1 DEF Evaluating
<1>3. /\ n \in Nat \ {0} /\ d \in Nat
      /\ c \in Checks /\ c.type \in Composite /\ c = Under(n - 1)
      /\ Len(c.checks) \in Nat /\ m \in 1..Len(c.checks)
      /\ \A i \in 1..Len(c.checks) : c.checks[i] \in Checks /\ CheckSchema[d][c.checks[i]]
      /\ \A g \in SUBSET Checks : Sure(g, looks) =>
            /\ \A j \in 1..(m - 1) : Truth[d][c.checks[j]][g] = (c.type = "allOf")
            /\ ~task.outcome.unsupported => Truth[d][c.checks[m]][g] = task.outcome.passed
  <2>1. TopComposite(n, c, m, d)
    BY <1>1, InnermostComposite
  <2> QED
    BY <2>1 DEF TopComposite
<1>4. m + 1 \in 1..Len(c.checks) /\ m \in Nat
  BY <1>1, <1>3
<1>5. new \in [check : Checks, done : Nat] /\ new.check = c /\ new.done = m
  BY <1>3, <1>4
<1> HIDE DEF new
<1>6. /\ frames' \in Seq([check : Checks, done : Nat]) /\ Len(frames') = n
      /\ frames'[n] = new /\ \A k \in 1..n : k # n => frames'[k] = frames[k]
  <2>1. frames \in Seq([check : Checks, done : Nat]) /\ n = Len(frames)
    BY <1>2 DEF Stacked
  <2> QED
    BY <1>1, <1>3, <1>5, <2>1
<1>7. Under(n)' = c.checks[m + 1] /\ \A k \in 0..(n - 1) : Under(k)' = Under(k)
  <2>1. Under(n)' = c.checks[m + 1]
    BY <1>3, <1>5, <1>6 DEF Under
  <2>2. ASSUME NEW k \in 0..(n - 1) PROVE Under(k)' = Under(k)
    <3>1. CASE k = 0
      BY <1>1, <3>1 DEF Under
    <3>2. CASE k # 0
      <4>1. k \in 1..n /\ k # n
        BY <1>3, <3>2
      <4>2. frames'[k] = frames[k]
        BY <1>6, <4>1
      <4> QED
        BY <3>2, <4>2 DEF Under
    <3> QED
      BY <3>1, <3>2
  <2> QED
    BY <2>1, <2>2
<1>8. Stacked'
  <2>1. ASSUME NEW k \in 1..n
        PROVE  /\ frames'[k].check = Under(k - 1)' /\ frames'[k].check.type \in Composite
               /\ frames'[k].done < Len(frames'[k].check.checks)
               /\ frames'[k].check.type = "not" => frames'[k].done = 0
    <3>0. k - 1 \in 0..(n - 1)
      BY <1>3
    <3>1. CASE k = n
      <4>1. frames'[k] = new /\ Under(k - 1)' = Under(n - 1)
        BY <1>6, <1>7, <3>0, <3>1
      <4>2. Under(k - 1)' = c
        BY <1>3, <4>1
      <4> QED
        BY <1>1, <1>3, <1>5, <4>1, <4>2
    <3>2. CASE k # n
      BY <1>2, <1>6, <1>7, <3>0, <3>2 DEF Stacked
    <3> QED
      BY <3>1, <3>2
  <2>2. ASSUME NEW k \in 0..n PROVE Under(k)' \in Checks /\ CheckSchema[MaxDepth - k][Under(k)']
    <3>1. CASE k = n
      BY <1>3, <1>4, <1>7, <3>1
    <3>2. CASE k # n
      <4>1. k \in 0..(n - 1)
        BY <1>3, <3>2
      <4> QED
        BY <1>2, <1>7, <4>1 DEF Stacked
    <3> QED
      BY <3>1, <3>2
  <2>3. rule'.check \in Checks /\ rule'.severity \in {"hard", "soft"} /\ n <= MaxDepth
    BY <1>1, <1>2 DEF Stacked
  <2> QED
    BY <1>6, <2>1, <2>2, <2>3 DEF Stacked
<1>9. Behind'
  <2>1. ASSUME NEW g \in SUBSET Checks, Sure(g, looks), NEW k \in 1..n, NEW j \in 1..frames'[k].done
        PROVE  Truth[MaxDepth - k][frames'[k].check.checks[j]][g] = (frames'[k].check.type = "allOf")
    <3>1. CASE k # n
      BY <1>2, <1>6, <2>1, <3>1 DEF Behind
    <3>2. CASE k = n
      <4>1. frames'[k].check = c /\ j \in 1..m /\ MaxDepth - k = d
        BY <1>5, <1>6, <3>2
      <4>2. CASE j # m
        <5>1. j \in 1..(m - 1)
          BY <1>4, <4>1, <4>2
        <5>2. \A i \in 1..(m - 1) : Truth[d][c.checks[i]][g] = (c.type = "allOf")
          BY <1>3, <2>1
        <5>3. Truth[d][c.checks[j]][g] = (c.type = "allOf")
          BY <5>1, <5>2
        <5> QED
          BY <4>1, <5>3
      <4>3. CASE j = m
        <5>1. ~task.outcome.unsupported /\ task.outcome.passed # (c.type = "anyOf") /\ task.outcome.passed \in BOOLEAN
          BY <1>1, <1>2, OutcomeBoolean DEF Decides, Offered
        <5>2. (c.type = "allOf") = (c.type # "anyOf")
          BY <1>1, <1>3 DEF Composite
        <5>3. task.outcome.passed = (c.type = "allOf")
          BY <5>1, <5>2
        <5> QED
          BY <1>3, <2>1, <4>1, <4>3, <5>1, <5>3
      <4> QED
        BY <4>2, <4>3
    <3> QED
      BY <3>1, <3>2
  <2>2. UNCHANGED looks /\ Len(frames') = n
    BY <1>1, <1>6
  <2> QED
    BY <2>1, <2>2 DEF Behind, Sure, Agrees
<1>10. task' = EvaluateNode(Under(Len(frames))') /\ task'.at = "node"
  BY <1>1, <1>6, <1>7 DEF EvaluateNode
<1> QED
  BY <1>8, <1>9, <1>10 DEF Evaluating

\* What a composite makes of the answer it leaves with.
LEMMA Composed ==
    ASSUME NEW c \in Checks, c.type \in Composite, NEW o \in Outcome
    PROVE  /\ evaluateComposite(c.type, o) \in Outcome
           /\ evaluateComposite(c.type, o).unsupported = o.unsupported
           /\ c.type # "not" => evaluateComposite(c.type, o) = o
           /\ c.type = "not" /\ ~o.unsupported => evaluateComposite(c.type, o).passed = ~o.passed
<1>1. o.passed \in BOOLEAN /\ o.unsupported \in BOOLEAN
  BY OutcomeBoolean
<1>2. CASE c.type # "not"
  BY <1>2 DEF evaluateComposite
<1>3. CASE c.type = "not"
  <2>1. evaluateComposite(c.type, o) = IF o.unsupported THEN Unsupported ELSE Verdict(~o.passed)
    BY <1>3 DEF evaluateComposite, Invert
  <2>2. Unsupported \in Outcome /\ Unsupported.unsupported = TRUE
    BY DEF Unsupported, Outcome
  <2>3. CASE o.unsupported
    <3>1. evaluateComposite(c.type, o) = Unsupported /\ o.unsupported = TRUE
      BY <1>1, <2>1, <2>3
    <3> QED
      BY <1>3, <2>2, <3>1
  <2>4. CASE ~o.unsupported
    <3>1. evaluateComposite(c.type, o) = Verdict(~o.passed) /\ o.unsupported = FALSE
      BY <1>1, <2>1, <2>4
    <3>2. (~o.passed) \in BOOLEAN
      OBVIOUS
    <3>3. /\ Verdict(~o.passed) \in Outcome /\ Verdict(~o.passed).passed = ~o.passed
          /\ Verdict(~o.passed).unsupported = FALSE
      BY <3>2, VerdictPassed
    <3> QED
      BY <1>3, <3>1, <3>3
  <2> QED
    BY <2>3, <2>4
<1> QED
  BY <1>2, <1>3

LEMMA LeaveStep == ASSUME Evaluating, LeaveComposite PROVE Evaluating'
<1> SUFFICES ASSUME NEW n, n = Len(frames), NEW c, c = frames[n].check, NEW m, m = frames[n].done + 1,
                    NEW d, d = MaxDepth - n, NEW o, o = task.outcome,
                    NEW p, p = evaluateComposite(c.type, o), NEW e, e = MaxDepth - (n - 1)
             PROVE  Evaluating'
  OBVIOUS
<1>1. /\ task.at = "given" /\ frames # <<>>
      /\ c.type = "not" \/ Decides(c.type, o) \/ m = Len(c.checks)
      /\ frames' = SubSeq(frames, 1, n - 1) /\ task' = Given(p) /\ UNCHANGED <<rule, looks>>
  BY DEF LeaveComposite
<1>2. Stacked /\ Behind /\ Offered
  BY <1>1 DEF Evaluating
<1>3. TopComposite(n, c, m, d)
  BY <1>1, InnermostComposite
<1>4. /\ n \in Nat \ {0} /\ e \in Nat /\ e - 1 = d
      /\ c \in Checks /\ c.type \in Composite /\ c = Under(n - 1)
      /\ Len(c.checks) \in Nat /\ m \in 1..Len(c.checks) /\ (c.type = "not" => m = 1)
      /\ CheckSchema[e][c]
  BY <1>3 DEF TopComposite
<1>5. o \in Outcome /\ o.passed \in BOOLEAN /\ o.unsupported \in BOOLEAN
  BY <1>2, OutcomeBoolean DEF Offered
<1>6. /\ p \in Outcome /\ p.unsupported = o.unsupported /\ (c.type # "not" => p = o)
      /\ c.type = "not" /\ ~o.unsupported => p.passed = ~o.passed
  BY <1>4, <1>5, Composed
<1>7. /\ frames' \in Seq([check : Checks, done : Nat]) /\ Len(frames') = n - 1
      /\ \A k \in 1..(n - 1) : frames'[k] = frames[k]
  <2>1. frames \in Seq([check : Checks, done : Nat])
    BY <1>2 DEF Stacked
  <2>2. n - 1 \in 0..Len(frames)
    BY <1>4
  <2>3. /\ SubSeq(frames, 1, n - 1) \in Seq([check : Checks, done : Nat])
        /\ Len(SubSeq(frames, 1, n - 1)) = n - 1
        /\ \A k \in 1..(n - 1) : SubSeq(frames, 1, n - 1)[k] = frames[k]
    BY ONLY <2>1, <2>2, Shrunk
  <2>4. frames' = SubSeq(frames, 1, n - 1)
    BY <1>1
  <2> QED
    BY ONLY <2>3, <2>4
<1>8. ASSUME NEW k \in 0..(n - 1) PROVE Under(k)' = Under(k)
  <2>1. CASE k = 0
    BY <1>1, <2>1 DEF Under
  <2>2. CASE k # 0
    <3>1. k \in 1..(n - 1)
      BY <1>4, <2>2
    <3>2. frames'[k] = frames[k]
      BY <1>7, <3>1
    <3> QED
      BY <2>2, <3>2 DEF Under
  <2> QED
    BY <2>1, <2>2
<1>9. Stacked'
  <2>1. ASSUME NEW k \in 1..(n - 1)
        PROVE  /\ frames'[k].check = Under(k - 1)' /\ frames'[k].check.type \in Composite
               /\ frames'[k].done < Len(frames'[k].check.checks)
               /\ frames'[k].check.type = "not" => frames'[k].done = 0
    <3>1. k \in 1..n /\ k - 1 \in 0..(n - 1)
      BY <1>4
    <3> QED
      BY <1>2, <1>7, <1>8, <3>1 DEF Stacked
  <2>2. ASSUME NEW k \in 0..(n - 1) PROVE Under(k)' \in Checks /\ CheckSchema[MaxDepth - k][Under(k)']
    <3>1. k \in 0..n
      BY <1>4
    <3> QED
      BY <1>2, <1>8, <3>1 DEF Stacked
  <2>3. rule'.check \in Checks /\ rule'.severity \in {"hard", "soft"} /\ n - 1 <= MaxDepth
    BY <1>1, <1>2, <1>4, EnforcementAssumption DEF Stacked
  <2> QED
    BY <1>7, <2>1, <2>2, <2>3 DEF Stacked
<1>10. Behind'
  <2>1. ASSUME NEW g \in SUBSET Checks, Sure(g, looks), NEW k \in 1..(n - 1), NEW j \in 1..frames'[k].done
        PROVE  Truth[MaxDepth - k][frames'[k].check.checks[j]][g] = (frames'[k].check.type = "allOf")
    <3>1. k \in 1..n /\ frames'[k] = frames[k]
      BY <1>4, <1>7
    <3> QED
      BY <1>2, <2>1, <3>1 DEF Behind
  <2>2. UNCHANGED looks /\ Len(frames') = n - 1
    BY <1>1, <1>7
  <2> QED
    BY <2>1, <2>2 DEF Behind, Sure, Agrees
<1>11. ASSUME ~o.unsupported, NEW g \in SUBSET Checks, Sure(g, looks)
       PROVE  Truth[e][c][g] = p.passed
  <2>1. /\ c.type = "not" => Truth[e][c][g] = ~Truth[d][c.checks[1]][g]
        /\ c.type = "allOf" => Truth[e][c][g] = \A i \in 1..Len(c.checks) : Truth[d][c.checks[i]][g]
        /\ c.type = "anyOf" => Truth[e][c][g] = \E i \in 1..Len(c.checks) : Truth[d][c.checks[i]][g]
    <3>1. \A h \in SUBSET Checks :
             /\ c.type = "not" => Truth[e][c][h] = ~Truth[e - 1][c.checks[1]][h]
             /\ c.type = "allOf" =>
                   Truth[e][c][h] = \A i \in 1..Len(c.checks) : Truth[e - 1][c.checks[i]][h]
             /\ c.type = "anyOf" =>
                   Truth[e][c][h] = \E i \in 1..Len(c.checks) : Truth[e - 1][c.checks[i]][h]
      <4>1. e \in Nat /\ c \in Checks /\ c.type \in Composite /\ CheckSchema[e][c]
        BY <1>4
      <4> QED
        <5>1. Connects(e, c)
          BY <4>1, CompositeLevel
        <5> QED
          BY <5>1 DEF Connects
    <3>2. e - 1 = d
      BY <1>4
    <3> QED
      BY <3>1, <3>2
  <2>2. /\ \A j \in 1..(m - 1) : Truth[d][c.checks[j]][g] = (c.type = "allOf")
        /\ Truth[d][c.checks[m]][g] = o.passed
    BY <1>3, <1>11 DEF TopComposite
  <2>3. \A i \in 1..m : i = m \/ i \in 1..(m - 1)
    BY <1>4
  <2>4. c.type # "not" /\ o.passed # (c.type = "anyOf") => m = Len(c.checks)
    BY <1>1, <1>5, <1>11 DEF Decides
  <2>5. CASE c.type = "not"
    BY <1>4, <1>6, <1>11, <2>1, <2>2, <2>5
  <2>6. CASE c.type = "allOf"
    <3>1. CASE o.passed = TRUE
      <4>1. m = Len(c.checks)
        BY <2>4, <2>6, <3>1
      <4>2. \A i \in 1..Len(c.checks) : Truth[d][c.checks[i]][g]
        BY <2>2, <2>3, <2>6, <3>1, <4>1
      <4> QED
        BY <1>6, <2>1, <2>6, <3>1, <4>2
    <3>2. CASE o.passed = FALSE
      <4>1. ~\A i \in 1..Len(c.checks) : Truth[d][c.checks[i]][g]
        BY <1>4, <2>2, <3>2
      <4> QED
        BY <1>6, <2>1, <2>6, <3>2, <4>1
    <3> QED
      BY <1>5, <3>1, <3>2
  <2>7. CASE c.type = "anyOf"
    <3>1. CASE o.passed = TRUE
      <4>1. \E i \in 1..Len(c.checks) : Truth[d][c.checks[i]][g]
        BY <1>4, <2>2, <3>1
      <4> QED
        BY <1>6, <2>1, <2>7, <3>1, <4>1
    <3>2. CASE o.passed = FALSE
      <4>1. m = Len(c.checks)
        BY <2>4, <2>7, <3>2
      <4>2. ~\E i \in 1..Len(c.checks) : Truth[d][c.checks[i]][g]
        BY <2>2, <2>3, <2>7, <3>2, <4>1
      <4> QED
        BY <1>6, <2>1, <2>7, <3>2, <4>2
    <3> QED
      BY <1>5, <3>1, <3>2
  <2> QED
    BY <1>4, <2>5, <2>6, <2>7 DEF Composite
<1>12. Offered'
  <2>1. task' = Given(p) /\ task'.outcome = p /\ task' = Given(task'.outcome)
    BY <1>1 DEF Given
  <2>2. MaxDepth - Len(frames') = e /\ Under(Len(frames))' = c
    <3>1. n - 1 \in 0..(n - 1)
      BY <1>4
    <3>2. Under(n - 1)' = c
      BY <1>4, <1>8, <3>1
    <3> QED
      BY <1>7, <3>2
  <2>3. p.unsupported => \E a \in looks : a.said = "unsupported"
    BY <1>2, <1>6 DEF Offered
  <2>4. \A g \in SUBSET Checks : ~p.unsupported /\ Sure(g, looks) => Truth[e][c][g] = p.passed
    BY <1>6, <1>11
  <2> QED
    BY <1>1, <1>6, <2>1, <2>2, <2>3, <2>4 DEF Offered, Sure, Agrees
<1>13. task'.at = "given"
  BY <1>1 DEF Given
<1> QED
  BY <1>9, <1>10, <1>12, <1>13 DEF Evaluating

\* A check that answered, or failed, is reported and leaves nothing behind.
LEMMA EndRuleStep ==
    ASSUME EnforcementInv, Stacked, NEW status \in Answer, NEW grounds,
           Sound(rule.check, status, grounds), EndRule(status, grounds), UNCHANGED <<repo, rules>>
    PROVE  EnforcementInv'
<1>1. rule.check \in Checks \cup {None, Malformed} /\ rule.severity \in {"hard", "soft"}
  BY DEF Stacked
<1>2. Report(rule, status, grounds) /\ task' = Idle /\ frames' = <<>> /\ looks' = {}
  BY DEF EndRule
<1>3. EnforcementTypes' /\ Judged' /\ Counted'
  BY <1>1, <1>2, Reporting
<1>4. Evaluating'
  BY <1>2 DEF Evaluating, Idle
<1> QED
  BY <1>3, <1>4 DEF EnforcementInv

LEMMA FinishRuleStep == ASSUME EnforcementInv, FinishRule PROVE EnforcementInv'
<1> SUFFICES ASSUME NEW o, o = task.outcome, NEW status,
                    status = IF o.unsupported THEN "manual" ELSE IF o.passed THEN "pass" ELSE "fail"
             PROVE  EnforcementInv'
  OBVIOUS
<1>1. task.at = "given" /\ frames = <<>> /\ EndRule(status, looks) /\ UNCHANGED <<repo, rules>>
  BY DEF FinishRule
<1>2. Stacked /\ Offered
  BY <1>1 DEF EnforcementInv, Evaluating
<1>3. o \in Outcome /\ o.passed \in BOOLEAN /\ o.unsupported \in BOOLEAN
  BY <1>2, OutcomeBoolean DEF Offered
<1>4. Len(frames) = 0 /\ MaxDepth - 0 = MaxDepth /\ Under(0) = rule.check /\ rule.check \in Checks
  BY <1>1, <1>2, EnforcementAssumption DEF Under, Stacked
<1>5. \A g \in SUBSET Checks : ~o.unsupported /\ Sure(g, looks) => Truth[MaxDepth][rule.check][g] = o.passed
  BY <1>2, <1>4 DEF Offered
<1>6. /\ o.unsupported => \E a \in looks : a.said = "unsupported"
      /\ status = "manual" <=> o.unsupported
      /\ ~o.unsupported => o.passed = (status = "pass")
      /\ status \in Answer
  BY <1>2, <1>3 DEF Offered, Answer
<1>7. Sound(rule.check, status, looks)
  BY <1>4, <1>5, <1>6 DEF Sound
<1> QED
  BY <1>1, <1>2, <1>6, <1>7, EndRuleStep

LEMMA FailRuleStep == ASSUME EnforcementInv, FailRule PROVE EnforcementInv'
<1> DEFINE look == Look(task.check, repo, FALSE, "threw")
           grounds == looks \cup {look}
<1>1. task.at = "node" /\ EndRule("fail", grounds) /\ UNCHANGED <<repo, rules>>
  BY DEF FailRule
<1>2. Stacked
  BY <1>1 DEF EnforcementInv, Evaluating
<1>3. rule.check \in Checks
  BY <1>2 DEF Stacked
<1>4. \A g : ~Sure(g, grounds)
  <2>1. look \in grounds /\ look.whole = FALSE
    BY DEF Look
  <2> HIDE DEF look, grounds
  <2> QED
    BY <2>1 DEF Sure
<1> HIDE DEF grounds
<1>5. Sound(rule.check, "fail", grounds)
  BY <1>3, <1>4 DEF Sound
<1> QED
  BY <1>1, <1>2, <1>5, EndRuleStep DEF Answer

\* A rule file that is there has a check that may be none, and a severity.
LEMMA RuleRead ==
    ASSUME EnforcementInv, NEW i \in DOMAIN RuleOrder, rules[RuleOrder[i]] # Unreadable
    PROVE  /\ rules[RuleOrder[i]].check \in Checks \cup {None, Malformed}
           /\ rules[RuleOrder[i]].severity \in {"hard", "soft"}
<1>1. rules[RuleOrder[i]] \in RuleFiles
  BY DEF EnforcementInv, EnforcementTypes
<1> QED
  BY <1>1, EnforcementAssumption

LEMMA SkipRuleStep == ASSUME EnforcementInv, NEW i, SkipRule(i) PROVE EnforcementInv'
<1>1. UNCHANGED <<repo, rules, rule, frames, task, looks, reports>>
  BY DEF SkipRule, reports
<1>2. EnforcementTypes' /\ Judged' /\ Counted'
  BY <1>1, Unreported DEF EnforcementInv, EnforcementTypes
<1>3. task = Idle /\ task.at = "idle"
  BY DEF SkipRule, Upcoming, Idle
<1>4. Evaluating'
  BY <1>1, <1>3 DEF EnforcementInv, Evaluating
<1> QED
  BY <1>2, <1>4 DEF EnforcementInv

LEMMA SettleRuleStep == ASSUME EnforcementInv, NEW i \in DOMAIN RuleOrder, SettleRule(i) PROVE EnforcementInv'
<1> SUFFICES ASSUME NEW x, x = rules[RuleOrder[i]], NEW status,
                    status = IF x.check = None THEN "manual" ELSE "invalid"
             PROVE  EnforcementInv'
  OBVIOUS
<1>1. /\ task = Idle /\ x # Unreadable /\ Report(x, status, {})
      /\ UNCHANGED <<repo, rules, rule, frames, task, looks>>
  BY DEF SettleRule, Upcoming
<1>2. x.check \in Checks \cup {None, Malformed} /\ x.severity \in {"hard", "soft"}
  BY <1>1, RuleRead
<1>3. status \in Answer /\ Sound(x.check, status, {})
  BY DEF Answer, Sound
<1>4. EnforcementTypes' /\ Judged' /\ Counted'
  BY <1>1, <1>2, <1>3, Reporting
<1>5. task.at = "idle"
  BY <1>1 DEF Idle
<1>6. Evaluating'
  BY <1>1, <1>5 DEF EnforcementInv, Evaluating
<1> QED
  BY <1>4, <1>6 DEF EnforcementInv

LEMMA BeginRuleStep == ASSUME EnforcementInv, NEW i \in DOMAIN RuleOrder, BeginRule(i) PROVE EnforcementInv'
<1> SUFFICES ASSUME NEW x, x = rules[RuleOrder[i]] PROVE EnforcementInv'
  OBVIOUS
<1>1. /\ task = Idle /\ x # Unreadable /\ Evaluable(x.check)
      /\ rule' = x /\ task' = EvaluateNode(x.check) /\ UNCHANGED <<repo, rules, frames, looks, reports>>
  BY DEF BeginRule, Upcoming, reports
<1>2. x.check \in Checks /\ CheckSchema[MaxDepth][x.check] /\ x.severity \in {"hard", "soft"}
  BY <1>1, RuleRead DEF Evaluable
<1>3. EnforcementTypes' /\ Judged' /\ Counted'
  BY <1>1, Unreported DEF EnforcementInv, EnforcementTypes
<1>4. frames = <<>> /\ looks = {}
  BY <1>1 DEF EnforcementInv, Evaluating, Idle
<1>5. frames' = <<>> /\ Len(frames') = 0 /\ MaxDepth - 0 = MaxDepth /\ MaxDepth \in Nat /\ Under(0)' = x.check
  BY <1>1, <1>4, EnforcementAssumption DEF Under
<1>6. Stacked'
  <2>1. \A k \in 0..0 : Under(k)' \in Checks /\ CheckSchema[MaxDepth - k][Under(k)']
    <3>1. \A k \in 0..0 : k = 0
      OBVIOUS
    <3> QED
      BY <1>2, <1>5, <3>1
  <2> QED
    BY <1>1, <1>2, <1>5, <2>1 DEF Stacked
<1>7. Behind'
  BY <1>5 DEF Behind
<1>8. task'.at = "node" /\ task' = EvaluateNode(Under(Len(frames))')
  BY <1>1, <1>5 DEF EvaluateNode
<1>9. Evaluating'
  BY <1>6, <1>7, <1>8 DEF Evaluating
<1> QED
  BY <1>3, <1>9 DEF EnforcementInv

\* A step of an evaluation reports nothing, and changes neither the rules nor the repository.
LEMMA EvaluationStep ==
    ASSUME EnforcementInv,
           EnterComposite \/ AskLeaf \/ ListFiles \/ StatFile \/ ReadFile \/ Conclude \/ NextChild \/ LeaveComposite
    PROVE  EnforcementInv'
<1>1. UNCHANGED <<repo, rules, reports>>
  BY DEF EnterComposite, AskLeaf, ListFiles, StatFile, ReadFile, Conclude, NextChild, LeaveComposite, reports
<1>2. EnforcementTypes' /\ Judged' /\ Counted'
  BY <1>1, Unreported DEF EnforcementInv, EnforcementTypes
<1>3. Evaluating /\ repo \in Repositories
  BY DEF EnforcementInv, EnforcementTypes
<1>4. Evaluating'
  BY <1>3, EnterStep, AskStep, ListStep, StatStep, ReadFileStep, ConcludeStep, NextStep, LeaveStep
<1> QED
  BY <1>2, <1>4 DEF EnforcementInv

LEMMA EvaluatingKept == ASSUME Evaluating, UNCHANGED <<rule, frames, task, looks>> PROVE Evaluating'
<1>1. \A g : Sure(g, looks') <=> Sure(g, looks)
  OBVIOUS
<1>2. CASE task.at = "idle"
  BY <1>2 DEF Evaluating
<1>3. CASE task.at # "idle"
  <2>1. Stacked' /\ Behind' /\ Under(Len(frames))' = Under(Len(frames))
    BY <1>3, StackKept DEF Evaluating
  <2>2. task.at \in {"files", "opened"} => Sorted'
    BY <2>1 DEF Evaluating, Sorted
  <2>3. task.at = "given" => Offered'
    BY <1>1, <2>1 DEF Evaluating, Offered, Sure, Agrees
  <2> QED
    BY <1>3, <2>1, <2>2, <2>3 DEF Evaluating
<1> QED
  BY <1>2, <1>3

\* The world changes, and nothing that was seen of it does.
LEMMA RepositoryStep ==
    ASSUME EnforcementInv, EditRepository \/ \E i \in DOMAIN RuleOrder : EditRule(i)
    PROVE  EnforcementInv'
<1>1. UNCHANGED <<rule, frames, task, looks, reports>>
  BY DEF EditRepository, EditRule, reports
<1>2. repo' \in Repositories /\ rules' \in [{RuleOrder[k] : k \in DOMAIN RuleOrder} -> RuleFiles]
  <2>1. repo \in Repositories /\ rules \in [{RuleOrder[k] : k \in DOMAIN RuleOrder} -> RuleFiles]
    BY DEF EnforcementInv, EnforcementTypes
  <2>2. CASE EditRepository
    BY <2>1, <2>2 DEF EditRepository
  <2>3. CASE \E i \in DOMAIN RuleOrder : EditRule(i)
    BY <2>1, <2>3 DEF EditRule
  <2> QED
    BY <2>2, <2>3
<1>3. EnforcementTypes' /\ Judged' /\ Counted'
  BY <1>1, <1>2, Unreported
<1>4. Evaluating'
  <2>1. UNCHANGED <<rule, frames, task, looks>> /\ Evaluating
    BY <1>1 DEF EnforcementInv
  <2> QED
    BY <2>1, EvaluatingKept
<1> QED
  BY <1>3, <1>4 DEF EnforcementInv

LEMMA NextEnforcement == EnforcementInv /\ [EnforcementNext]_enforcement => EnforcementInv'
<1> SUFFICES ASSUME EnforcementInv, [EnforcementNext]_enforcement PROVE EnforcementInv'
  OBVIOUS
<1>1. CASE UNCHANGED enforcement
  <2>1. UNCHANGED <<repo, rules, rule, frames, task, looks, reports>>
    BY <1>1 DEF enforcement, reports
  <2>2. EnforcementTypes' /\ Judged' /\ Counted'
    BY <2>1, Unreported DEF EnforcementInv, EnforcementTypes
  <2>3. Evaluating'
    BY <2>1, EvaluatingKept DEF EnforcementInv
  <2> QED
    BY <2>2, <2>3 DEF EnforcementInv
<1>2. CASE EnforcementNext
  BY <1>2, EvaluationStep, FinishRuleStep, FailRuleStep, RepositoryStep, SkipRuleStep, SettleRuleStep, BeginRuleStep DEF EnforcementNext
<1> QED
  BY <1>1, <1>2

\* The enforcement level's verdicts are true and its report accounts for every rule, however the
\* rules and the repository change between any two of the reads that an evaluation awaits.
THEOREM ChecksEnforced == EnforcementSpec => []Enforced
<1>1. EnforcementInv => Enforced
  <2> SUFFICES ASSUME EnforcementInv PROVE Enforced
    OBVIOUS
  <2>1. \A status : Reported(status) = OfStatus(outcomes, status)
    BY DEF Reported, OfStatus
  <2>2. outcomes \in Seq(Evaluated) /\ \A i \in DOMAIN outcomes : Sound(outcomes[i].check, outcomes[i].status, basis[i])
    BY DEF EnforcementInv, EnforcementTypes, Judged
  <2>3. VerdictTrue
    <3> SUFFICES ASSUME NEW i \in Reported({"pass", "fail"}), \A a \in basis[i] : a.whole,
                        NEW g \in SUBSET Leaves[MaxDepth][outcomes[i].check], Agrees(g, basis[i])
                 PROVE  Truth[MaxDepth][outcomes[i].check][g] = (outcomes[i].status = "pass")
      BY DEF VerdictTrue
    <3> DEFINE c == outcomes[i].check
               grounds == basis[i]
    <3>1. i \in DOMAIN outcomes /\ outcomes[i].status \in {"pass", "fail"}
      BY DEF Reported
    <3>2. /\ c \in Checks
          /\ \A h \in SUBSET Checks : Sure(h, grounds) => Truth[MaxDepth][c][h] = (outcomes[i].status = "pass")
      BY <2>2, <3>1 DEF Sound
    <3>3. Leaves[MaxDepth][c] \subseteq Checks
      <4>1. Leaves[MaxDepth] \in [Checks -> SUBSET Checks]
        BY LeavesUnfold, EnforcementAssumption
      <4> HIDE DEF c
      <4> QED
        BY <3>2, <4>1
    <3>4. g \in SUBSET Checks /\ Sure(g, grounds)
      BY <3>3 DEF Sure
    <3> QED
      BY <3>2, <3>4
  <2>4. Tallied
    <3>1. ASSUME NEW i \in Reported({"manual"})
          PROVE  outcomes[i].check = None \/ \E a \in basis[i] : a.said = "unsupported"
      BY <2>2 DEF Reported, Sound
    <3> QED
      BY <2>1, <3>1 DEF EnforcementInv, Counted, Tallied, Serious
  <2> QED
    BY <2>3, <2>4 DEF Enforced
<1> QED
  BY <1>1, InitEnforcement, NextEnforcement, PTL DEF EnforcementSpec

-----------------------------------------------------------------------------
(* The searches for cycles.  Nothing here is an induction over paths: that  *)
(* n reaches m says that every set closed under the dependencies that has   *)
(* those of n has m, so a search shows that something is not reached by     *)
(* the set of the nodes it is done with.                                    *)

\* The node itself counts as well.
Leads(g, n, m) == n = m \/ Reaches(g, n, m)
Gray == {calls[i] : i \in DOMAIN calls}

(* What the three searches share: the calls, and what they have looked at. *)
CyclesTypes ==
    /\ graph \in Graphs /\ validator \in {"hooks", "skills", "chain"}
    /\ from \in 1..Len(Nodes) + 1 /\ calls \in Seq(Node) /\ looked \in [Node -> Nat] /\ entered \subseteq Node
    /\ parent \in [Node -> Node \cup {Null}] /\ black \subseteq Node /\ cyclePath \in Seq(Node)
    /\ cur \in Node \cup {Null}
    /\ index \in [Node -> Nat] /\ lowlink \in [Node -> Nat] /\ counter \in Nat /\ stack \in Seq(Node)
    /\ sccs \subseteq SUBSET Node
    /\ recStack \subseteq Node /\ involved \subseteq Node
\* Every call but the innermost waits for the next one.
CallsNested ==
    /\ \A i, j \in DOMAIN calls : calls[i] = calls[j] => i = j
    /\ Gray \subseteq entered
    /\ \A i \in DOMAIN calls : i < Len(calls) =>
          looked[calls[i]] > 0 /\ calls[i + 1] = graph[calls[i]][looked[calls[i]]]
    /\ \A i, j \in DOMAIN calls : i < j => Reaches(graph, calls[i], calls[j])
    /\ calls # <<>> => from <= Len(Nodes) /\ calls[1] = Nodes[from]
LookedInto ==
    /\ \A n \in Node : looked[n] <= Len(graph[n]) /\ (n \notin entered => looked[n] = 0)
    /\ \A n \in Node : \A p \in 1..looked[n] : graph[n][p] \in entered
LoopDone == cyclePath = <<>> => \A k \in 1..from - 1 : Nodes[k] \in entered
ControlInv == CyclesTypes /\ CallsNested /\ LookedInto /\ LoopDone

\* The call for cs[i] waits for the one it has made for its p-th dependency.
Waits(cs, lk, i, p) == i < Len(cs) /\ p = lk[cs[i]]
\* Whatever the calls under way have looked at is in S.
AllIn(g, cs, lk, S) ==
    \A i \in DOMAIN cs : \A p \in 1..lk[cs[i]] : Waits(cs, lk, i, p) \/ g[cs[i]][p] \in S
\* Nothing in S lies on a cycle, and nothing outside is needed there.
Harmless(g, S) == Closed(g, S) /\ \A n \in S : ~OnCycle(g, n)

ParentsCalled ==
    \A i \in DOMAIN calls : (i = 1 => parent[calls[i]] = Null) /\ (i > 1 => parent[calls[i]] = calls[i - 1])
\* Until a cycle is found: the black nodes need only black nodes, and lie on no cycle.
HooksSearch ==
    /\ black = entered \ Gray /\ Harmless(graph, black) /\ AllIn(graph, calls, looked, black)
    /\ ParentsCalled
\* Afterwards: the path so far and the calls back to the node it closes at are one cycle.
HooksFound ==
    /\ Len(cyclePath) > 1
    /\ \A i, j \in DOMAIN cyclePath : Reaches(graph, cyclePath[i], cyclePath[j])
    /\ ParentsCalled
    /\ calls = <<>> => from = Len(Nodes) + 1
    /\ calls # <<>> => \E k, i \in DOMAIN calls :
          /\ k <= i /\ cur = calls[i] /\ cyclePath[Len(cyclePath) - 1] = calls[k]
          /\ \A j \in DOMAIN calls : k <= j => \A m \in DOMAIN cyclePath :
                Reaches(graph, calls[j], cyclePath[m]) /\ Reaches(graph, cyclePath[m], calls[j])
HooksInv == validator = "hooks" => IF cyclePath = <<>> THEN HooksSearch ELSE HooksFound
NotHooks == validator # "hooks" => cyclePath = <<>>

\* What a chain has taken off its recursion stack is harmless; what an
\* abandoned search has left on it leads into a cycle.
ChainInv ==
    validator = "chain" =>
        /\ Gray \subseteq recStack /\ recStack \subseteq entered
        /\ Harmless(graph, entered \ recStack) /\ AllIn(graph, calls, looked, entered \ recStack)
        /\ \A n \in (recStack \ Gray) \cup involved : LeadsToCycle(graph, n)
        /\ involved = {} => recStack = Gray

(* Tarjan's: the stack and the calls are in the order of the indexes, and   *)
(* what is entered is on the stack or in a component.                       *)
OnStack(n) == \E i \in DOMAIN stack : stack[i] = n
Indexed ==
    /\ \A n \in entered : index[n] < counter
    /\ \A n, m \in entered : index[n] = index[m] => n = m
    /\ \A i, j \in DOMAIN stack : i < j => index[stack[i]] < index[stack[j]]
    /\ \A i, j \in DOMAIN calls : i < j => index[calls[i]] < index[calls[j]]
    /\ \A n \in Node : n \in entered <=> OnStack(n) \/ n \in UNION sccs
    /\ \A n \in Node : OnStack(n) => n \notin UNION sccs
    /\ \A n \in Gray : OnStack(n)
    /\ \A n \in entered \ Gray : looked[n] = Len(graph[n])
\* The components need only each other, and each is the largest of its kind.
Components ==
    /\ Closed(graph, UNION sccs)
    /\ \A c \in sccs : \A n \in c, m \in Node :
          m \in c <=> Leads(graph, n, m) /\ Leads(graph, m, n)
\* A call reaches all that came after it, and all on the stack reach an earlier call.
StackTied ==
    /\ \A n \in Gray, m \in Node : OnStack(m) /\ index[n] <= index[m] => Leads(graph, n, m)
    /\ \A m \in Node : OnStack(m) => \E n \in Gray : index[n] <= index[m] /\ Leads(graph, m, n)
\* A low link is the index of a node on the stack that the call reaches ...
LowlinksTied ==
    \A n \in Gray : \E m \in Node :
        OnStack(m) /\ lowlink[n] = index[m] /\ lowlink[n] <= index[n] /\ Leads(graph, n, m)
\* ... and no node entered since, before the next call, is known to need an earlier one.
LowlinksLow ==
    \A k \in DOMAIN calls : \A n \in Node :
        OnStack(n) /\ index[calls[k]] <= index[n] /\ (k < Len(calls) => index[n] < index[calls[k + 1]]) =>
            \A p \in 1..looked[n] :
                \/ n = calls[k] /\ Waits(calls, looked, k, p)
                \/ OnStack(graph[n][p]) => lowlink[calls[k]] <= index[graph[n][p]]
SkillsInv ==
    validator = "skills" => Indexed /\ Components /\ StackTied /\ LowlinksTied /\ LowlinksLow

SearchInv == ControlInv /\ HooksInv /\ NotHooks /\ ChainInv /\ SkillsInv

USE DEF control, hooks, skills, chain

-----------------------------------------------------------------------------
(* What follows from what: being reached is taken one step at a time.      *)
LEMMA SuccNodes ==
    ASSUME NEW g \in Graphs, NEW n \in Node PROVE Succ(g, n) \subseteq Node /\ g[n] \in Seq(Node)
BY CyclesAssumption DEF Succ

LEMMA ReachesNext ==
    ASSUME NEW g \in Graphs, NEW n \in Node, NEW p \in 1..Len(g[n])
    PROVE  g[n][p] \in Node /\ g[n][p] \in Succ(g, n) /\ Reaches(g, n, g[n][p])
<1>1. g[n] \in Seq(Node)
  BY CyclesAssumption
<1>2. g[n][p] \in Node /\ p \in DOMAIN g[n]
  BY <1>1
<1> QED
  BY <1>2 DEF Reaches, Succ

LEMMA ReachesOn ==
    ASSUME NEW g, NEW n, NEW m, NEW k \in Node, Reaches(g, n, k), Reaches(g, k, m)
    PROVE  Reaches(g, n, m)
BY DEF Reaches, Closed

LEMMA LeadsOn ==
    ASSUME NEW g, NEW n, NEW m, NEW k \in Node, Leads(g, n, k), Leads(g, k, m)
    PROVE  Leads(g, n, m)
BY ReachesOn DEF Leads

LEMMA StaysIn ==
    ASSUME NEW g, NEW S \in SUBSET Node, Closed(g, S), NEW n \in S, NEW m, Reaches(g, n, m)
    PROVE  m \in S
BY DEF Reaches, Closed

LEMMA NotReached ==
    ASSUME NEW g, NEW S \in SUBSET Node, Closed(g, S), NEW n, n \notin S, Succ(g, n) \subseteq S
    PROVE  ~OnCycle(g, n)
BY DEF Reaches, OnCycle

-----------------------------------------------------------------------------
(* Sequences that grow and shrink at their end.                            *)
LEMMA Grown ==
    ASSUME NEW S, NEW s \in Seq(S), NEW v \in S
    PROVE  /\ Append(s, v) \in Seq(S) /\ Len(Append(s, v)) = Len(s) + 1
           /\ DOMAIN Append(s, v) = 1..Len(s) + 1 /\ DOMAIN s = 1..Len(s) /\ Len(s) \in Nat
           /\ \A i \in 1..Len(s) : Append(s, v)[i] = s[i]
           /\ Append(s, v)[Len(s) + 1] = v
OBVIOUS

LEMMA Emptied == ASSUME NEW S, NEW s \in Seq(S) PROVE s = <<>> <=> Len(s) = 0
OBVIOUS

LEMMA LastOrBefore ==
    \A n \in Nat : \A i \in 1..n : (i = n \/ i < n) /\ (i < n => i < n - 1 \/ i + 1 = n)
OBVIOUS

LEMMA Graph == CyclesTypes => graph \in Graphs /\ \A n \in Node : graph[n] \in Seq(Node)
BY CyclesAssumption DEF CyclesTypes

(* The innermost call and its next dependency.                             *)
LEMMA Innermost ==
    ASSUME ControlInv, calls # <<>>
    PROVE  /\ Len(calls) \in Nat /\ Len(calls) > 0 /\ DOMAIN calls = 1..Len(calls)
           /\ \A i \in 1..Len(calls) : calls[i] \in Node
           /\ Here \in Node /\ Here = calls[Len(calls)] /\ Here \in Gray /\ Here \in entered
           /\ graph[Here] \in Seq(Node) /\ looked[Here] \in Nat
           /\ \A i \in 1..Len(calls) : Leads(graph, calls[i], Here)
<1>1. calls \in Seq(Node) /\ looked \in [Node -> Nat]
  BY DEF ControlInv, CyclesTypes
<1>2. Len(calls) \in Nat /\ Len(calls) > 0 /\ DOMAIN calls = 1..Len(calls)
      /\ \A i \in 1..Len(calls) : calls[i] \in Node
  BY <1>1
<1>3. Here = calls[Len(calls)] /\ Here \in Node /\ Here \in Gray
  BY <1>2 DEF Here, Gray
<1>4. \A i \in 1..Len(calls) : i = Len(calls) \/ i < Len(calls)
  BY <1>2, LastOrBefore
<1>5. \A i \in 1..Len(calls) : Leads(graph, calls[i], Here)
  <2> SUFFICES ASSUME NEW i \in 1..Len(calls) PROVE Leads(graph, calls[i], Here)
    OBVIOUS
  <2>1. CASE i = Len(calls)
    BY <1>3, <2>1 DEF Leads
  <2>2. CASE i < Len(calls)
    BY <1>2, <1>3, <2>2 DEF ControlInv, CallsNested, Leads
  <2> QED
    BY <1>4, <2>1, <2>2
<1>6. graph[Here] \in Seq(Node) /\ Here \in entered
  BY <1>3, Graph DEF ControlInv, CallsNested
<1> QED
  BY <1>1, <1>2, <1>3, <1>5, <1>6

LEMMA OnlyInnermost ==
    ASSUME ControlInv, calls # <<>>
    PROVE  \A i \in 1..Len(calls) : calls[i] = Here => i = Len(calls)
<1>1. Len(calls) \in 1..Len(calls) /\ DOMAIN calls = 1..Len(calls) /\ Here = calls[Len(calls)]
  BY Innermost
<1> QED
  BY <1>1 DEF ControlInv, CallsNested

LEMMA NextTarget ==
    ASSUME ControlInv, calls # <<>>, More
    PROVE  /\ looked[Here] + 1 \in 1..Len(graph[Here]) /\ Target = graph[Here][looked[Here] + 1]
           /\ Target \in Node /\ Target \in Succ(graph, Here) /\ Reaches(graph, Here, Target)
           /\ \A i \in 1..Len(calls) : Reaches(graph, calls[i], Target)
<1>1. looked[Here] + 1 \in 1..Len(graph[Here])
  BY Innermost DEF More
<1>2. Target \in Node /\ Target \in Succ(graph, Here) /\ Reaches(graph, Here, Target)
  BY <1>1, Innermost, Graph, ReachesNext DEF Target, ControlInv
<1>3. \A i \in 1..Len(calls) : Reaches(graph, calls[i], Target)
  BY <1>2, Innermost, ReachesOn DEF Leads
<1> QED
  BY <1>1, <1>2, <1>3 DEF Target

LEMMA NodesListed == Nodes \in Seq(Node) /\ Len(Nodes) \in Nat /\ \A k \in 1..Len(Nodes) : Nodes[k] \in Node
BY CyclesAssumption

-----------------------------------------------------------------------------
(* The calls, step by step.                                                *)
LEMMA InitControl == CyclesInit => ControlInv
<1> SUFFICES ASSUME CyclesInit PROVE ControlInv
  OBVIOUS
<1>1. calls = <<>> /\ from = 1 /\ entered = {} /\ looked = [n \in Node |-> 0]
  BY DEF CyclesInit, NothingCalled
<1>2. CyclesTypes
  BY NodesListed DEF CyclesInit, NothingCalled, CyclesTypes
<1>3. CallsNested
  BY <1>1 DEF CallsNested, Gray
<1>4. LookedInto
  BY <1>1, <1>2, Graph DEF LookedInto
<1>5. LoopDone
  BY <1>1 DEF LoopDone
<1> QED
  BY <1>2, <1>3, <1>4, <1>5 DEF ControlInv

LEMMA SkipControl ==
    ASSUME ControlInv, SkipNode
    PROVE  CyclesTypes' /\ CallsNested' /\ LookedInto' /\ LoopDone'
<1>1. calls = <<>> /\ calls' = <<>> /\ from \in 1..Len(Nodes) /\ from' = from + 1 /\ entered' = entered
      /\ looked' = looked /\ graph' = graph /\ cyclePath' = cyclePath /\ Nodes[from] \in entered
  BY DEF SkipNode, ControlInv, CyclesTypes
<1>2. CyclesTypes'
  <2>1. from' \in 1..Len(Nodes) + 1
    BY <1>1, NodesListed
  <2> QED
    BY <2>1 DEF SkipNode, ControlInv, CyclesTypes
<1>3. CallsNested'
  BY <1>1 DEF CallsNested, Gray
<1>4. LookedInto'
  BY <1>1 DEF LookedInto, ControlInv
<1>5. \A k \in 1..from' - 1 : k = from \/ k \in 1..from - 1
  BY <1>1, NodesListed
<1>6. LoopDone'
  BY <1>1, <1>5 DEF LoopDone, ControlInv
<1> QED
  BY <1>2, <1>3, <1>4, <1>6

LEMMA EnterTypes ==
    ASSUME ControlInv, NEW v \in Node, NEW c \in Node \cup {Null}, Enter(v, c),
           UNCHANGED <<control, from>>, looked' \in [Node -> Nat]
    PROVE  CyclesTypes'
<1>1. calls' \in Seq(Node) /\ entered' \subseteq Node
  BY Grown DEF Enter, ControlInv, CyclesTypes
<1>2. CASE validator = "hooks"
  BY <1>1, <1>2 DEF Enter, ControlInv, CyclesTypes
<1>3. CASE validator = "skills"
  <2>1. /\ index' = [index EXCEPT ![v] = counter] /\ lowlink' = [lowlink EXCEPT ![v] = counter]
        /\ counter' = counter + 1 /\ stack' = Append(stack, v)
    BY <1>3 DEF Enter
  <2>2. stack \in Seq(Node) /\ counter \in Nat /\ index \in [Node -> Nat] /\ lowlink \in [Node -> Nat]
    BY DEF ControlInv, CyclesTypes
  <2>3. stack' \in Seq(Node) /\ counter' \in Nat /\ index' \in [Node -> Nat] /\ lowlink' \in [Node -> Nat]
    BY <2>1, <2>2
  <2> QED
    BY <1>1, <1>3, <2>3 DEF Enter, ControlInv, CyclesTypes
<1>4. CASE validator = "chain"
  BY <1>1, <1>4 DEF Enter, ControlInv, CyclesTypes
<1> QED
  BY <1>2, <1>3, <1>4 DEF ControlInv, CyclesTypes

LEMMA RootControl ==
    ASSUME ControlInv, CallRoot
    PROVE  CyclesTypes' /\ CallsNested' /\ LookedInto' /\ LoopDone'
<1>1. calls = <<>> /\ from \in 1..Len(Nodes) /\ from' = from /\ looked' = looked /\ graph' = graph
  BY DEF CallRoot, ControlInv, CyclesTypes
<1>2. calls' = <<Nodes[from]>> /\ entered' = entered \cup {Nodes[from]} /\ Nodes[from] \in Node
  BY <1>1, NodesListed DEF CallRoot, Enter
<1>3. cyclePath' = cyclePath
  BY DEF CallRoot, Enter
<1>4. CyclesTypes'
  <2>1. looked' \in [Node -> Nat]
    BY <1>1 DEF ControlInv, CyclesTypes
  <2> QED
    BY <1>2, <2>1, EnterTypes DEF CallRoot
<1>5. CallsNested'
  BY <1>1, <1>2 DEF CallsNested, Gray
<1>6. LookedInto'
  BY <1>1, <1>2 DEF LookedInto, ControlInv
<1>7. LoopDone'
  BY <1>1, <1>2, <1>3 DEF LoopDone, ControlInv
<1> QED
  BY <1>4, <1>5, <1>6, <1>7

LEMMA LookedFurther ==
    ASSUME ControlInv, calls # <<>>, LookedAt
    PROVE  looked' \in [Node -> Nat] /\ looked'[Here] = looked[Here] + 1
           /\ \A n \in Node : n # Here => looked'[n] = looked[n]
<1>1. looked \in [Node -> Nat] /\ Here \in Node /\ looked' = [looked EXCEPT ![Here] = @ + 1]
  BY Innermost DEF LookedAt, ControlInv, CyclesTypes
<1> QED
  BY <1>1

LEMMA LookControl ==
    ASSUME ControlInv, calls # <<>>, More, LookedAt, graph' = graph, entered \subseteq entered', Target \in entered'
    PROVE  LookedInto'
<1> SUFFICES ASSUME NEW n \in Node
             PROVE  /\ looked'[n] <= Len(graph[n]) /\ (n \notin entered' => looked'[n] = 0)
                    /\ \A p \in 1..looked'[n] : graph[n][p] \in entered'
  BY DEF LookedInto
<1>1. CASE n = Here
  <2>1. looked'[n] = looked[Here] + 1 /\ looked[Here] + 1 <= Len(graph[n]) /\ n \in entered
    BY <1>1, LookedFurther, NextTarget, Innermost
  <2>2. \A p \in 1..looked[Here] + 1 : p \in 1..looked[Here] \/ p = looked[Here] + 1
    BY Innermost
  <2>3. \A p \in 1..looked[Here] : graph[n][p] \in entered
    BY <1>1 DEF ControlInv, LookedInto
  <2>4. graph[n][looked[Here] + 1] = Target
    BY <1>1, NextTarget
  <2> QED
    BY <2>1, <2>2, <2>3, <2>4
<1>2. CASE n # Here
  BY <1>2, LookedFurther DEF ControlInv, LookedInto
<1> QED
  BY <1>1, <1>2

LEMMA CallControl ==
    ASSUME ControlInv, Call
    PROVE  /\ CyclesTypes' /\ CallsNested' /\ LookedInto' /\ LoopDone'
<1> DEFINE L == Len(calls)
<1>1. calls # <<>> /\ More /\ LookedAt /\ Target \notin entered /\ cyclePath = <<>>
      /\ calls' = Append(calls, Target) /\ entered' = entered \cup {Target} /\ graph' = graph /\ from' = from
      /\ cyclePath' = cyclePath
  BY DEF Call, Searching, Enter
<1>2. CyclesTypes'
  BY <1>1, EnterTypes, Innermost, NextTarget, LookedFurther DEF Call
<1>3. DOMAIN calls' = 1..L + 1 /\ Len(calls') = L + 1 /\ calls'[L + 1] = Target
      /\ \A i \in 1..L : calls'[i] = calls[i]
  BY <1>1, Grown, NextTarget DEF ControlInv, CyclesTypes
<1>4. L \in Nat /\ L > 0 /\ DOMAIN calls = 1..L /\ Here = calls[L] /\ \A i \in 1..L : calls[i] \in Node
  BY <1>1, Innermost
<1> HIDE DEF L
<1>5. \A i \in 1..L + 1 : i \in 1..L \/ i = L + 1
  BY <1>4
<1>6. \A i \in 1..L : calls[i] \in entered /\ calls[i] # Target
  BY <1>1, <1>4 DEF ControlInv, CallsNested, Gray
<1>7. \A i, j \in 1..L + 1 : calls'[i] = calls'[j] => i = j
  BY <1>3, <1>4, <1>5, <1>6 DEF ControlInv, CallsNested
<1>8. Gray' \subseteq entered'
  BY <1>1, <1>3, <1>5, <1>6 DEF Gray
<1>9. \A i \in 1..L + 1 : i < L + 1 =>
          looked'[calls'[i]] > 0 /\ calls'[i + 1] = graph[calls'[i]][looked'[calls'[i]]]
  <2> SUFFICES ASSUME NEW i \in 1..L
               PROVE  looked'[calls'[i]] > 0 /\ calls'[i + 1] = graph[calls'[i]][looked'[calls'[i]]]
    BY <1>4
  <2>1. CASE i = L
    BY <1>1, <1>3, <1>4, <2>1, LookedFurther, Innermost, NextTarget
  <2>2. CASE i < L
    <3>1. calls[i] # Here /\ calls'[i] = calls[i] /\ calls'[i + 1] = calls[i + 1]
      BY <1>3, <1>4, <2>2 DEF ControlInv, CallsNested
    <3>2. looked[calls[i]] > 0 /\ calls[i + 1] = graph[calls[i]][looked[calls[i]]]
      BY <1>4, <2>2 DEF ControlInv, CallsNested, L
    <3> QED
      BY <1>1, <1>4, <3>1, <3>2, LookedFurther
  <2> QED
    BY <1>4, <2>1, <2>2
<1>10. \A i, j \in 1..L + 1 : i < j => Reaches(graph, calls'[i], calls'[j])
  <2> SUFFICES ASSUME NEW i \in 1..L + 1, NEW j \in 1..L + 1, i < j
               PROVE  Reaches(graph, calls'[i], calls'[j])
    OBVIOUS
  <2>1. i \in 1..L
    BY <1>4
  <2>2. CASE j = L + 1
    BY <1>1, <1>3, <2>1, <2>2, NextTarget DEF L
  <2>3. CASE j \in 1..L
    BY <1>3, <1>4, <2>1, <2>3 DEF ControlInv, CallsNested
  <2> QED
    BY <1>5, <2>2, <2>3
<1>11. CallsNested'
  <2>1. from' <= Len(Nodes) /\ calls'[1] = Nodes[from']
    BY <1>1, <1>3, <1>4 DEF ControlInv, CallsNested
  <2> QED
    BY <1>1, <1>3, <1>7, <1>8, <1>9, <1>10, <2>1 DEF CallsNested
<1>12. LookedInto'
  BY <1>1, LookControl
<1>13. LoopDone'
  BY <1>1 DEF LoopDone, ControlInv
<1> QED
  BY <1>2, <1>11, <1>12, <1>13

LEMMA StillNested ==
    ASSUME ControlInv, calls # <<>>, LookedAt, UNCHANGED <<graph, from, calls, entered>>
    PROVE  CallsNested'
<1>1. \A i \in DOMAIN calls : i < Len(calls) => looked'[calls[i]] = looked[calls[i]]
  BY Innermost, LookedFurther DEF ControlInv, CallsNested
<1>2. Gray' = Gray
  BY DEF Gray
<1> QED
  BY <1>1, <1>2 DEF ControlInv, CallsNested

LEMMA EndNested ==
    ASSUME ControlInv, calls # <<>>, UNCHANGED <<graph, from, looked, entered>>,
           calls' = SubSeq(calls, 1, Len(calls) - 1)
    PROVE  /\ CallsNested' /\ LookedInto' /\ calls' \in Seq(Node)
           /\ Len(calls') = Len(calls) - 1 /\ DOMAIN calls' = 1..Len(calls) - 1
           /\ \A i \in 1..Len(calls) - 1 : calls'[i] = calls[i]
           /\ Gray = Gray' \cup {Here} /\ Here \notin Gray'
<1> DEFINE L == Len(calls)
<1>1. L \in Nat /\ L > 0 /\ L - 1 \in 0..L /\ calls \in Seq(Node) /\ DOMAIN calls = 1..L /\ Here = calls[L]
  <2>1. calls \in Seq(Node)
    BY DEF ControlInv, CyclesTypes
  <2>2. L \in Nat /\ L > 0 /\ DOMAIN calls = 1..L /\ Here = calls[L]
    BY Innermost
  <2>3. \A n \in Nat : n > 0 => n - 1 \in 0..n
    OBVIOUS
  <2> QED
    BY <2>1, <2>2, <2>3
<1>2. /\ Len(calls') = L - 1 /\ DOMAIN calls' = 1..L - 1 /\ calls' \in Seq(Node)
      /\ \A i \in 1..L - 1 : calls'[i] = calls[i]
  BY <1>1, Shrunk
<1> HIDE DEF L
<1>3. \A i \in 1..L : i = L \/ i \in 1..L - 1
  BY <1>1
<1>4. \A i \in 1..L - 1 : i \in 1..L /\ i < L /\ i + 1 \in 1..L /\ (i < L - 1 => i + 1 \in 1..L - 1)
  BY <1>1
<1>5. \A i, j \in 1..L : calls[i] = calls[j] => i = j
  BY <1>1 DEF ControlInv, CallsNested
<1>6. Gray = Gray' \cup {Here} /\ Here \notin Gray'
  <2>1. Gray = {calls[i] : i \in 1..L} /\ Gray' = {calls'[i] : i \in 1..L - 1}
    BY <1>1, <1>2 DEF Gray
  <2>2. L \in 1..L
    BY <1>1
  <2>3. Here \notin Gray'
    BY <1>1, <1>2, <1>4, <1>5, <2>1, <2>2
  <2>4. Gray \subseteq Gray' \cup {Here} /\ Gray' \subseteq Gray /\ Here \in Gray
    BY <1>1, <1>2, <1>3, <1>4, <2>1, <2>2
  <2> QED
    BY <2>3, <2>4
<1>7. CallsNested'
  <2>1. \A i \in 1..L - 1 : i < L - 1 =>
            looked[calls'[i]] > 0 /\ calls'[i + 1] = graph[calls'[i]][looked[calls'[i]]]
    BY <1>1, <1>2, <1>4 DEF ControlInv, CallsNested, L
  <2>2. \A i, j \in 1..L - 1 : i < j => Reaches(graph, calls'[i], calls'[j])
    BY <1>1, <1>2, <1>4 DEF ControlInv, CallsNested
  <2>3. \A i, j \in 1..L - 1 : calls'[i] = calls'[j] => i = j
    BY <1>2, <1>4, <1>5
  <2>4. Gray' \subseteq entered
    BY <1>6 DEF ControlInv, CallsNested
  <2>5. calls' # <<>> => 1 \in 1..L - 1
    BY <1>1, <1>2, Emptied
  <2>6. calls' # <<>> => from <= Len(Nodes) /\ calls'[1] = Nodes[from]
    BY <1>2, <2>5 DEF ControlInv, CallsNested
  <2> QED
    BY <1>2, <2>1, <2>2, <2>3, <2>4, <2>6 DEF CallsNested
<1>8. LookedInto'
  BY DEF ControlInv, LookedInto
<1> QED
  BY <1>2, <1>6, <1>7, <1>8 DEF L

LEMMA StoppedNested == ASSUME calls' = <<>> PROVE CallsNested'
BY DEF CallsNested, Gray

-----------------------------------------------------------------------------
(* The nodes whose calls have ended, of hooks and of chains: a harmless set *)
(* that grows by one node at a time.                                       *)
LEMMA RootIn ==
    ASSUME ControlInv, CallRoot, NEW S PROVE AllIn(graph', calls', looked', S)
<1>1. calls' = <<Nodes[from]>> /\ looked' = looked /\ looked[Nodes[from]] = 0
  BY NodesListed DEF CallRoot, Enter, ControlInv, CyclesTypes, LookedInto
<1> QED
  BY <1>1 DEF AllIn

LEMMA CallIn ==
    ASSUME ControlInv, Call, NEW S, AllIn(graph, calls, looked, S) PROVE AllIn(graph', calls', looked', S)
<1> DEFINE L == Len(calls)
<1>1. calls # <<>> /\ More /\ LookedAt /\ Target \notin entered /\ calls' = Append(calls, Target) /\ graph' = graph
  BY DEF Call, Searching, Enter
<1>2. DOMAIN calls' = 1..L + 1 /\ Len(calls') = L + 1 /\ calls'[L + 1] = Target
      /\ \A i \in 1..L : calls'[i] = calls[i]
  BY <1>1, Grown, NextTarget DEF ControlInv, CyclesTypes
<1>3. L \in Nat /\ L > 0 /\ DOMAIN calls = 1..L /\ Here = calls[L] /\ looked[Here] \in Nat
      /\ \A i \in 1..L : calls[i] \in Node
  BY <1>1, Innermost
<1>4. Target \in Node /\ looked'[Target] = 0
  <2>1. Here # Target
    BY <1>1, Innermost
  <2> QED
    BY <1>1, <2>1, NextTarget, LookedFurther DEF ControlInv, LookedInto
<1>5. \A i \in 1..L : calls[i] = Here => i = L
  BY <1>1, OnlyInnermost
<1> HIDE DEF L
<1> SUFFICES ASSUME NEW i \in 1..L, NEW p \in 1..looked'[calls[i]], ~(p = looked'[calls[i]])
             PROVE  graph[calls[i]][p] \in S
  BY <1>1, <1>2, <1>3, <1>4 DEF AllIn, Waits
<1>6. CASE i = L
  <2>1. looked'[Here] = looked[Here] + 1 /\ calls[i] = Here
    BY <1>1, <1>3, <1>6, LookedFurther
  <2>2. p \in 1..looked[Here]
    BY <1>3, <2>1
  <2> QED
    BY <1>3, <1>6, <2>1, <2>2 DEF AllIn, Waits, L
<1>7. CASE i # L
  <2>1. looked'[calls[i]] = looked[calls[i]]
    BY <1>1, <1>3, <1>5, <1>7, LookedFurther
  <2> QED
    BY <1>3, <2>1 DEF AllIn, Waits
<1> QED
  BY <1>6, <1>7

LEMMA LookIn ==
    ASSUME ControlInv, calls # <<>>, More, LookedAt, UNCHANGED <<graph, calls>>,
           NEW S, AllIn(graph, calls, looked, S), Target \in S
    PROVE  AllIn(graph', calls', looked', S)
<1> DEFINE L == Len(calls)
<1>3. L \in Nat /\ L > 0 /\ DOMAIN calls = 1..L /\ Here = calls[L] /\ looked[Here] \in Nat
      /\ \A i \in 1..L : calls[i] \in Node
  BY Innermost
<1>5. \A i \in 1..L : calls[i] = Here => i = L
  BY OnlyInnermost
<1> HIDE DEF L
<1> SUFFICES ASSUME NEW i \in 1..L, NEW p \in 1..looked'[calls[i]], ~(i < L /\ p = looked'[calls[i]])
             PROVE  graph[calls[i]][p] \in S
  BY <1>3 DEF AllIn, Waits, L
<1>6. CASE i = L
  <2>1. looked'[Here] = looked[Here] + 1 /\ calls[i] = Here
    BY <1>3, <1>6, LookedFurther
  <2>2. p \in 1..looked[Here] \/ p = looked[Here] + 1
    BY <1>3, <2>1
  <2> QED
    BY <1>3, <1>6, <2>1, <2>2, NextTarget DEF AllIn, Waits, L
<1>7. CASE i # L
  <2>1. looked'[calls[i]] = looked[calls[i]]
    BY <1>3, <1>5, <1>7, LookedFurther
  <2> QED
    BY <1>3, <2>1 DEF AllIn, Waits, L
<1> QED
  BY <1>6, <1>7

LEMMA LeaveIn ==
    ASSUME ControlInv, calls # <<>>, ~More, UNCHANGED <<graph, from, looked, entered>>,
           calls' = SubSeq(calls, 1, Len(calls) - 1),
           NEW S \in SUBSET Node, Here \notin S, Harmless(graph, S), AllIn(graph, calls, looked, S)
    PROVE  Harmless(graph', S \cup {Here}) /\ AllIn(graph', calls', looked', S \cup {Here})
<1> DEFINE L == Len(calls)
<1>1. L \in Nat /\ L > 0 /\ DOMAIN calls = 1..L /\ Here = calls[L] /\ Here \in Node /\ looked[Here] \in Nat
      /\ graph[Here] \in Seq(Node)
  BY Innermost
<1>2. Len(calls') = L - 1 /\ DOMAIN calls' = 1..L - 1 /\ \A i \in 1..L - 1 : calls'[i] = calls[i]
  BY EndNested
<1>3. looked[Here] = Len(graph[Here])
  BY <1>1 DEF More, ControlInv, LookedInto
<1>4. Succ(graph, Here) \subseteq S
  <2>1. \A p \in 1..looked[Here] : graph[Here][p] \in S
    BY <1>1 DEF AllIn, Waits
  <2> QED
    BY <1>1, <1>3, <2>1 DEF Succ
<1>5. ~OnCycle(graph, Here)
  BY <1>4, NotReached DEF Harmless
<1>6. Harmless(graph, S \cup {Here})
  BY <1>4, <1>5 DEF Harmless, Closed
<1>7. AllIn(graph, calls', looked, S \cup {Here})
  <2> SUFFICES ASSUME NEW i \in 1..L - 1, NEW p \in 1..looked[calls[i]], ~(i < L - 1 /\ p = looked[calls[i]])
               PROVE  graph[calls[i]][p] \in S \cup {Here}
    BY <1>2 DEF AllIn, Waits
  <2>1. i \in 1..L /\ i < L
    BY <1>1
  <2>2. CASE p = looked[calls[i]]
    <3>1. i + 1 = L
      BY <1>1, <2>1, <2>2, LastOrBefore
    <3>2. calls[i + 1] = graph[calls[i]][looked[calls[i]]]
      BY <1>1, <2>1 DEF ControlInv, CallsNested
    <3> QED
      BY <1>1, <2>2, <3>1, <3>2
  <2>3. CASE p # looked[calls[i]]
    BY <1>1, <2>1, <2>3 DEF AllIn, Waits
  <2> QED
    BY <2>2, <2>3
<1> QED
  BY <1>6, <1>7

-----------------------------------------------------------------------------
(* The search between hooks.                                               *)
LEMMA Round ==
    ASSUME NEW g, NEW a, NEW b, NEW v \in Node, NEW w \in Node,
           Leads(g, a, v), Reaches(g, v, w), Leads(g, w, b)
    PROVE  Reaches(g, a, b)
BY ReachesOn DEF Leads

LEMMA SkipHooks ==
    ASSUME ControlInv, HooksInv, SkipNode PROVE HooksInv'
BY DEF SkipNode, HooksInv, HooksSearch, HooksFound, ParentsCalled, ControlInv, CyclesTypes, Gray

LEMMA RootHooks ==
    ASSUME ControlInv, HooksInv, validator = "hooks", CallRoot PROVE HooksInv'
<1> DEFINE v == Nodes[from]
<1>1. calls = <<>> /\ calls' = <<v>> /\ v \notin entered /\ entered' = entered \cup {v} /\ graph' = graph
      /\ from <= Len(Nodes) /\ from \in Nat /\ v \in Node
  BY NodesListed DEF CallRoot, Enter, ControlInv, CyclesTypes
<1>2. parent' = [parent EXCEPT ![v] = Null] /\ black' = black /\ cyclePath' = cyclePath /\ parent \in [Node -> Node \cup {Null}]
  BY DEF CallRoot, Enter, ControlInv, CyclesTypes
<1>3. cyclePath = <<>> /\ HooksSearch
  BY <1>1, NodesListed DEF HooksInv, HooksFound
<1>4. AllIn(graph', calls', looked', black)
  BY RootIn
<1>5. black' = entered' \ Gray'
  BY <1>1, <1>2, <1>3 DEF Gray, HooksSearch
<1>6. ParentsCalled'
  BY <1>1, <1>2 DEF ParentsCalled
<1> QED
  BY <1>1, <1>2, <1>3, <1>4, <1>5, <1>6 DEF HooksInv, HooksSearch

LEMMA CallHooks ==
    ASSUME ControlInv, HooksInv, validator = "hooks", Call PROVE HooksInv'
<1> DEFINE L == Len(calls)
<1>1. calls # <<>> /\ More /\ cyclePath = <<>> /\ Target \notin entered
      /\ calls' = Append(calls, Target) /\ graph' = graph /\ entered' = entered \cup {Target}
      /\ parent' = [parent EXCEPT ![Target] = Here] /\ black' = black /\ cyclePath' = cyclePath
  BY DEF Call, Searching, Enter
<1>2. HooksSearch
  BY <1>1 DEF HooksInv
<1>3. DOMAIN calls' = 1..L + 1 /\ Len(calls') = L + 1 /\ calls'[L + 1] = Target
      /\ \A i \in 1..L : calls'[i] = calls[i]
  BY <1>1, Grown, NextTarget DEF ControlInv, CyclesTypes
<1>4. L \in Nat /\ L > 0 /\ DOMAIN calls = 1..L /\ Here = calls[L] /\ \A i \in 1..L : calls[i] \in Node
  BY <1>1, Innermost
<1>5. AllIn(graph', calls', looked', black)
  BY <1>2, CallIn DEF HooksSearch
<1> HIDE DEF L
<1>6. \A i \in 1..L + 1 : i \in 1..L \/ i = L + 1
  BY <1>4
<1>7. Gray' = Gray \cup {Target}
  BY <1>3, <1>4, <1>6 DEF Gray
<1>8. black' = entered' \ Gray'
  BY <1>1, <1>2, <1>7 DEF HooksSearch
<1>9. \A i \in 1..L : parent'[calls[i]] = parent[calls[i]]
  <2>1. parent \in [Node -> Node \cup {Null}]
    BY DEF ControlInv, CyclesTypes
  <2>2. \A i \in 1..L : calls[i] \in entered
    BY <1>4 DEF ControlInv, CallsNested, Gray
  <2> QED
    BY <1>1, <1>4, <2>1, <2>2
<1>10. parent'[Target] = Here
  BY <1>1, NextTarget DEF ControlInv, CyclesTypes
<1>11. ParentsCalled'
  <2> SUFFICES ASSUME NEW i \in 1..L + 1
               PROVE  (i = 1 => parent'[calls'[i]] = Null) /\ (i > 1 => parent'[calls'[i]] = calls'[i - 1])
    BY <1>3 DEF ParentsCalled
  <2>1. CASE i = L + 1
    BY <1>3, <1>4, <1>10, <2>1
  <2>2. CASE i \in 1..L
    <3>1. i > 1 => i - 1 \in 1..L
      BY <1>4, <2>2
    <3> QED
      BY <1>2, <1>3, <1>4, <1>9, <2>2, <3>1 DEF HooksSearch, ParentsCalled
  <2> QED
    BY <1>6, <2>1, <2>2
<1> QED
  BY <1>1, <1>2, <1>5, <1>8, <1>11 DEF HooksInv, HooksSearch

LEMMA LookHooks ==
    ASSUME ControlInv, HooksInv, LookHook PROVE HooksInv'
<1> DEFINE L == Len(calls)
<1>1. calls # <<>> /\ More /\ LookedAt /\ cyclePath = <<>> /\ Target \in entered /\ graph' = graph /\ calls' = calls
      /\ entered' = entered /\ parent' = parent /\ black' = black /\ validator = "hooks" /\ from' = from
  BY DEF LookHook, Searching
<1>2. HooksSearch
  BY <1>1 DEF HooksInv
<1>3. ParentsCalled'
  BY <1>1, <1>2 DEF HooksSearch, ParentsCalled
<1>4. CASE Target \in black
  <2>1. AllIn(graph', calls', looked', black)
    BY <1>1, <1>2, <1>4, LookIn DEF HooksSearch
  <2>2. cyclePath' = cyclePath
    BY <1>4 DEF LookHook
  <2> QED
    BY <1>1, <1>2, <1>3, <2>1, <2>2 DEF HooksInv, HooksSearch, Gray
<1>5. CASE Target \notin black
  <2>1. cyclePath' = <<Target, Here>> /\ cur' = Here
    BY <1>5 DEF LookHook
  <2>2. L \in Nat /\ L > 0 /\ L \in 1..L /\ DOMAIN calls = 1..L /\ Here = calls[L] /\ Here \in Node
        /\ \A i \in 1..L : calls[i] \in Node /\ Leads(graph, calls[i], Here)
    BY <1>1, Innermost
  <2> HIDE DEF L
  <2>3. PICK k \in 1..L : calls[k] = Target
    BY <1>1, <1>2, <1>5, <2>2 DEF HooksSearch, Gray
  <2>4. Reaches(graph, Here, Target) /\ Target \in Node
    BY <1>1, NextTarget
  <2> DEFINE Z == {calls[j] : j \in k..L}
  <2>5. \A j \in 1..L : k <= j => Leads(graph, Target, calls[j]) /\ Leads(graph, calls[j], Here)
    BY <2>2, <2>3 DEF ControlInv, CallsNested, Leads
  <2>6. Leads(graph, Target, Target) /\ Leads(graph, Here, Here) /\ Leads(graph, Target, Here)
    BY <2>2, <2>3 DEF Leads
  <2>7. \A i, j \in 1..2 : Reaches(graph, cyclePath'[i], cyclePath'[j])
    BY <2>1, <2>2, <2>4, <2>6, Round
  <2>8. \A j \in 1..L : k <= j => \A m \in 1..2 :
            Reaches(graph, calls[j], cyclePath'[m]) /\ Reaches(graph, cyclePath'[m], calls[j])
    <3> SUFFICES ASSUME NEW j \in 1..L, k <= j
                 PROVE  /\ Reaches(graph, calls[j], Target) /\ Reaches(graph, Target, calls[j])
                        /\ Reaches(graph, calls[j], Here) /\ Reaches(graph, Here, calls[j])
      BY <2>1
    <3>1. Leads(graph, Target, calls[j]) /\ Leads(graph, calls[j], Here)
      BY <2>5
    <3> QED
      BY <2>2, <2>4, <2>6, <3>1, Round
  <2>9. Len(cyclePath') = 2 /\ DOMAIN cyclePath' = 1..2 /\ cyclePath'[2 - 1] = Target /\ cyclePath' # <<>>
    BY <2>1
  <2>10. k <= L /\ calls # <<>>
    BY <1>1, <2>2
  <2>11. HooksFound'
    BY <1>1, <1>3, <2>1, <2>2, <2>3, <2>7, <2>8, <2>9, <2>10 DEF HooksFound
  <2> QED
    BY <2>9, <2>11 DEF HooksInv
<1> QED
  BY <1>4, <1>5

LEMMA LeaveHooks ==
    ASSUME ControlInv, HooksInv, LeaveHook PROVE HooksInv'
<1>1. calls # <<>> /\ ~More /\ cyclePath = <<>> /\ graph' = graph /\ calls' = SubSeq(calls, 1, Len(calls) - 1)
      /\ looked' = looked /\ cyclePath' = cyclePath /\ from' = from
      /\ entered' = entered /\ parent' = parent /\ black' = black \cup {Here} /\ validator = "hooks"
  BY DEF LeaveHook, Searching
<1>2. HooksSearch /\ black \subseteq Node
  BY <1>1 DEF HooksInv, ControlInv, CyclesTypes
<1>3. Gray = Gray' \cup {Here} /\ Here \notin Gray' /\ DOMAIN calls' = 1..Len(calls) - 1
      /\ \A i \in 1..Len(calls) - 1 : calls'[i] = calls[i]
  BY <1>1, EndNested
<1>4. Here \in entered /\ Here \in Gray /\ Len(calls) \in Nat /\ DOMAIN calls = 1..Len(calls)
  BY <1>1, Innermost
<1>5. black' = entered' \ Gray' /\ Here \notin black
  BY <1>1, <1>2, <1>3, <1>4 DEF HooksSearch
<1>6. Harmless(graph', black') /\ AllIn(graph', calls', looked', black')
  BY <1>1, <1>2, <1>5, LeaveIn DEF HooksSearch
<1>7. ParentsCalled'
  <2>1. \A i \in 1..Len(calls) - 1 : i \in 1..Len(calls) /\ (i > 1 => i - 1 \in 1..Len(calls) - 1)
    BY <1>4
  <2> QED
    BY <1>1, <1>2, <1>3, <1>4, <2>1 DEF HooksSearch, ParentsCalled
<1> QED
  BY <1>1, <1>5, <1>6, <1>7 DEF HooksInv, HooksSearch

LEMMA Prefixed ==
    ASSUME NEW S, NEW s \in Seq(S), NEW v \in S
    PROVE  /\ <<v>> \o s \in Seq(S) /\ Len(<<v>> \o s) = Len(s) + 1 /\ Len(s) \in Nat
           /\ DOMAIN (<<v>> \o s) = 1..Len(s) + 1 /\ DOMAIN s = 1..Len(s)
           /\ (<<v>> \o s)[1] = v /\ \A i \in 1..Len(s) : (<<v>> \o s)[i + 1] = s[i]
OBVIOUS

LEMMA TraceHooks ==
    ASSUME ControlInv, HooksInv, NotHooks, TraceBack
    PROVE  HooksInv' /\ cyclePath' \in Seq(Node) /\ cur' \in Node \cup {Null} /\ cyclePath' # <<>>
<1>1. calls # <<>> /\ cyclePath # <<>> /\ validator = "hooks" /\ validator' = validator /\ graph' = graph
      /\ looked' = looked /\ entered' = entered /\ parent' = parent /\ black' = black
  BY DEF TraceBack, NotHooks
<1>2. HooksFound /\ cyclePath \in Seq(Node) /\ cur \in Node \cup {Null} /\ Len(cyclePath) \in Nat
  BY <1>1 DEF HooksInv, ControlInv, CyclesTypes
<1>3. CASE AtEnd
  <2>1. calls' = <<>> /\ from' = Len(Nodes) + 1 /\ cyclePath' = cyclePath /\ cur' = cur
    BY <1>3 DEF TraceBack
  <2>2. HooksFound'
    BY <1>1, <1>2, <2>1 DEF HooksFound, ParentsCalled
  <2> QED
    BY <1>1, <1>2, <2>1, <2>2 DEF HooksInv
<1>4. CASE ~AtEnd
  <2> DEFINE P == Len(cyclePath)
  <2>1. PICK k, i \in DOMAIN calls :
          /\ k <= i /\ cur = calls[i] /\ cyclePath[P - 1] = calls[k]
          /\ \A j \in DOMAIN calls : k <= j => \A m \in DOMAIN cyclePath :
                Reaches(graph, calls[j], cyclePath[m]) /\ Reaches(graph, cyclePath[m], calls[j])
    BY <1>1, <1>2 DEF HooksFound
  <2>2. DOMAIN calls = 1..Len(calls) /\ Len(calls) \in Nat /\ \A j \in 1..Len(calls) : calls[j] \in Node
    BY <1>1, Innermost
  <2>3. cur # calls[k] /\ parent[cur] # Null
    BY <1>4, <2>1 DEF AtEnd
  <2>4. k < i /\ i > 1 /\ i - 1 \in 1..Len(calls) /\ k <= i - 1
    BY <2>1, <2>2, <2>3
  <2> DEFINE u == calls[i - 1]
  <2>5. parent[cur] = u /\ u \in Node
    BY <1>2, <2>1, <2>2, <2>4 DEF HooksFound, ParentsCalled
  <2>6. cyclePath' = <<u>> \o cyclePath /\ cur' = u /\ calls' = calls /\ from' = from
    BY <1>4, <2>5 DEF TraceBack
  <2> HIDE DEF u, P
  <2>7. /\ cyclePath' \in Seq(Node) /\ Len(cyclePath') = P + 1 /\ DOMAIN cyclePath' = 1..P + 1
        /\ DOMAIN cyclePath = 1..P /\ P \in Nat
        /\ cyclePath'[1] = u /\ \A m \in 1..P : cyclePath'[m + 1] = cyclePath[m]
    BY <1>2, <2>5, <2>6, Prefixed DEF P
  <2>8. P > 1 /\ P - 1 \in 1..P /\ 1 \in 1..P /\ P + 1 - 1 = P - 1 + 1
    BY <1>2, <2>7 DEF HooksFound, P
  <2>9. cyclePath'[Len(cyclePath') - 1] = calls[k]
    BY <2>1, <2>7, <2>8
  <2>10. \A m \in 1..P + 1 : m = 1 \/ \E l \in 1..P : m = l + 1
    <3> SUFFICES ASSUME NEW m \in 1..P + 1, m # 1 PROVE m - 1 \in 1..P /\ m = (m - 1) + 1
      OBVIOUS
    <3> QED
      BY <2>7
  <2>11. \A m \in 1..P : cyclePath[m] \in Node
    BY <1>2, <2>7
  <2>12. \A m \in 1..P : Reaches(graph, u, cyclePath[m]) /\ Reaches(graph, cyclePath[m], u)
    BY <2>1, <2>2, <2>4, <2>7 DEF u
  <2>13. \A j \in 1..Len(calls) : k <= j => Reaches(graph, calls[j], u) /\ Reaches(graph, u, calls[j])
    <3> SUFFICES ASSUME NEW j \in 1..Len(calls), k <= j
                 PROVE  Reaches(graph, calls[j], u) /\ Reaches(graph, u, calls[j])
      OBVIOUS
    <3>1. Reaches(graph, calls[j], cyclePath[1]) /\ Reaches(graph, cyclePath[1], calls[j])
      BY <2>1, <2>2, <2>7, <2>8
    <3> QED
      BY <2>8, <2>11, <2>12, <3>1, ReachesOn
  <2>14. Reaches(graph, u, u)
    BY <2>8, <2>11, <2>12, ReachesOn
  <2>15. \A l, m \in 1..P + 1 : Reaches(graph, cyclePath'[l], cyclePath'[m])
    <3>1. \A l, m \in 1..P : Reaches(graph, cyclePath[l], cyclePath[m])
      BY <1>2, <2>7 DEF HooksFound
    <3> QED
      BY <2>7, <2>10, <2>12, <2>14, <3>1
  <2>16. \A j \in 1..Len(calls) : k <= j => \A m \in 1..P + 1 :
             Reaches(graph, calls[j], cyclePath'[m]) /\ Reaches(graph, cyclePath'[m], calls[j])
    <3>1. \A j \in 1..Len(calls) : k <= j => \A m \in 1..P :
             Reaches(graph, calls[j], cyclePath[m]) /\ Reaches(graph, cyclePath[m], calls[j])
      BY <2>1, <2>2, <2>7
    <3> QED
      BY <2>7, <2>10, <2>13, <3>1
  <2>17. ParentsCalled'
    BY <1>1, <1>2, <2>6 DEF HooksFound, ParentsCalled
  <2>18. \E a, b \in DOMAIN calls :
          /\ a <= b /\ cur' = calls[b] /\ cyclePath'[Len(cyclePath') - 1] = calls[a]
          /\ \A j \in DOMAIN calls : a <= j => \A m \in 1..P + 1 :
                Reaches(graph, calls[j], cyclePath'[m]) /\ Reaches(graph, cyclePath'[m], calls[j])
    BY <2>1, <2>2, <2>4, <2>6, <2>9, <2>16 DEF u
  <2>19. HooksFound'
    <3>1. Len(cyclePath') > 1 /\ calls' # <<>> /\ DOMAIN calls' = DOMAIN calls /\ DOMAIN cyclePath' = 1..P + 1
      BY <1>1, <2>6, <2>7, <2>8
    <3>2. \A l, m \in DOMAIN cyclePath' : Reaches(graph', cyclePath'[l], cyclePath'[m])
      BY <1>1, <2>15, <3>1
    <3>3. \E a, b \in DOMAIN calls' :
          /\ a <= b /\ cur' = calls'[b] /\ cyclePath'[Len(cyclePath') - 1] = calls'[a]
          /\ \A j \in DOMAIN calls' : a <= j => \A m \in DOMAIN cyclePath' :
                Reaches(graph', calls'[j], cyclePath'[m]) /\ Reaches(graph', cyclePath'[m], calls'[j])
      BY <1>1, <2>6, <2>18, <3>1
    <3> QED
      BY <2>17, <3>1, <3>2, <3>3 DEF HooksFound
  <2>20. cyclePath' # <<>>
    BY <2>7, <2>8, Emptied
  <2> QED
    BY <1>1, <2>5, <2>6, <2>7, <2>19, <2>20 DEF HooksInv
<1> QED
  BY <1>3, <1>4

-----------------------------------------------------------------------------
(* The search of a chain.                                                  *)
LEMMA LeadsToFound ==
    ASSUME NEW g, NEW n, NEW m \in Node, Leads(g, n, m), LeadsToCycle(g, m)
    PROVE  LeadsToCycle(g, n)
<1>1. PICK c \in Node : OnCycle(g, c) /\ Leads(g, m, c)
  BY DEF LeadsToCycle, Leads
<1>2. Leads(g, n, c)
  BY <1>1, LeadsOn
<1> QED
  BY <1>1, <1>2 DEF LeadsToCycle, Leads

LEMMA SkipChain ==
    ASSUME ChainInv, SkipNode PROVE ChainInv'
BY DEF SkipNode, ChainInv, Gray

LEMMA RootChain ==
    ASSUME ControlInv, ChainInv, validator = "chain", CallRoot PROVE ChainInv'
<1> DEFINE v == Nodes[from]
<1>1. calls = <<>> /\ calls' = <<v>> /\ v \notin entered /\ entered' = entered \cup {v} /\ graph' = graph
      /\ recStack' = recStack \cup {v} /\ involved' = involved
  BY DEF CallRoot, Enter
<1>2. entered' \ recStack' = entered \ recStack
  BY <1>1
<1>3. Gray = {} /\ Gray' = {v}
  BY <1>1 DEF Gray
<1>4. AllIn(graph', calls', looked', entered \ recStack)
  BY RootIn
<1> QED
  BY <1>1, <1>2, <1>3, <1>4 DEF ChainInv

LEMMA CallChain ==
    ASSUME ControlInv, ChainInv, validator = "chain", Call PROVE ChainInv'
<1> DEFINE L == Len(calls)
<1>1. calls # <<>> /\ More /\ Target \notin entered
      /\ calls' = Append(calls, Target) /\ graph' = graph /\ entered' = entered \cup {Target}
      /\ recStack' = recStack \cup {Target} /\ involved' = involved
  BY DEF Call, Searching, Enter
<1>2. entered' \ recStack' = entered \ recStack
  BY <1>1
<1>3. DOMAIN calls' = 1..L + 1 /\ calls'[L + 1] = Target
      /\ \A i \in 1..L : calls'[i] = calls[i]
  BY <1>1, Grown, NextTarget DEF ControlInv, CyclesTypes
<1>4. L \in Nat /\ DOMAIN calls = 1..L
  BY <1>1, Innermost
<1> HIDE DEF L
<1>5. \A i \in 1..L + 1 : i \in 1..L \/ i = L + 1
  BY <1>4
<1>6. Gray' = Gray \cup {Target}
  BY <1>3, <1>4, <1>5 DEF Gray
<1>7. AllIn(graph', calls', looked', entered \ recStack)
  BY CallIn DEF ChainInv
<1> QED
  BY <1>1, <1>2, <1>6, <1>7 DEF ChainInv

LEMMA LookChain ==
    ASSUME ControlInv, ChainInv, LookAgent PROVE ChainInv'
<1>1. calls # <<>> /\ More /\ LookedAt /\ Target \in entered /\ graph' = graph
      /\ entered' = entered /\ recStack' = recStack /\ validator = "chain"
  BY DEF LookAgent, Searching
<1>2. CASE Target \notin recStack
  <2>1. calls' = calls /\ involved' = involved
    BY <1>2 DEF LookAgent
  <2>2. AllIn(graph', calls', looked', entered \ recStack)
    BY <1>1, <1>2, <2>1, LookIn DEF ChainInv
  <2> QED
    BY <1>1, <2>1, <2>2 DEF ChainInv, Gray
<1>3. CASE Target \in recStack
  <2>1. calls' = <<>> /\ involved' = involved \cup {Nodes[from]}
    BY <1>3 DEF LookAgent
  <2>2. DOMAIN calls = 1..Len(calls) /\ Len(calls) \in Nat /\ Len(calls) > 0 /\ calls[1] = Nodes[from]
        /\ \A i \in 1..Len(calls) : calls[i] \in Node /\ Leads(graph, calls[i], Here)
    BY <1>1, Innermost DEF ControlInv, CallsNested
  <2>3. Target \in Node /\ Reaches(graph, Here, Target) /\ Here \in Node
        /\ \A i \in 1..Len(calls) : Reaches(graph, calls[i], Target)
    BY <1>1, NextTarget, Innermost
  <2>4. LeadsToCycle(graph, Target)
    <3>1. CASE Target \in Gray
      <4>1. PICK k \in 1..Len(calls) : Target = calls[k]
        BY <2>2, <3>1 DEF Gray
      <4>2. OnCycle(graph, Target)
        BY <2>3, <4>1 DEF OnCycle
      <4> QED
        BY <2>3, <4>2 DEF LeadsToCycle
    <3>2. CASE Target \notin Gray
      BY <1>1, <1>3, <3>2 DEF ChainInv
    <3> QED
      BY <3>1, <3>2
  <2>5. \A i \in 1..Len(calls) : LeadsToCycle(graph, calls[i])
    BY <2>3, <2>4, LeadsToFound DEF Leads
  <2>6. \A n \in Gray \cup {Nodes[from]} : LeadsToCycle(graph, n)
    BY <2>2, <2>5 DEF Gray
  <2>7. Gray' = {} /\ AllIn(graph', calls', looked', entered \ recStack)
    BY <2>1 DEF Gray, AllIn
  <2> QED
    BY <1>1, <2>1, <2>6, <2>7 DEF ChainInv
<1> QED
  BY <1>2, <1>3

LEMMA LeaveChain ==
    ASSUME ControlInv, ChainInv, LeaveAgent PROVE ChainInv'
<1>1. calls # <<>> /\ ~More /\ graph' = graph /\ calls' = SubSeq(calls, 1, Len(calls) - 1)
      /\ looked' = looked /\ from' = from
      /\ entered' = entered /\ recStack' = recStack \ {Here} /\ involved' = involved /\ validator = "chain"
  BY DEF LeaveAgent, Searching
<1>2. Gray = Gray' \cup {Here} /\ Here \notin Gray'
  BY <1>1, EndNested
<1>3. Here \in entered /\ Here \in recStack /\ entered \ recStack \in SUBSET Node
  BY <1>1, Innermost DEF ChainInv, ControlInv, CyclesTypes
<1>4. entered' \ recStack' = (entered \ recStack) \cup {Here} /\ Here \notin entered \ recStack
  BY <1>1, <1>3
<1>5. Harmless(graph', entered' \ recStack') /\ AllIn(graph', calls', looked', entered' \ recStack')
  BY <1>1, <1>3, <1>4, LeaveIn DEF ChainInv
<1> QED
  BY <1>1, <1>2, <1>3, <1>5 DEF ChainInv

-----------------------------------------------------------------------------
(* The components of skills.                                               *)
LEMMA SkillTypes ==
    ASSUME ControlInv
    PROVE  /\ index \in [Node -> Nat] /\ lowlink \in [Node -> Nat] /\ counter \in Nat /\ stack \in Seq(Node)
           /\ calls \in Seq(Node) /\ DOMAIN calls = 1..Len(calls) /\ Len(calls) \in Nat
           /\ DOMAIN stack = 1..Len(stack) /\ Len(stack) \in Nat
           /\ \A i \in 1..Len(stack) : stack[i] \in Node
           /\ \A i \in 1..Len(calls) : calls[i] \in Node /\ calls[i] \in Gray
           /\ Gray \subseteq entered /\ entered \subseteq Node /\ looked \in [Node -> Nat]
<1>1. /\ index \in [Node -> Nat] /\ lowlink \in [Node -> Nat] /\ counter \in Nat /\ stack \in Seq(Node)
      /\ calls \in Seq(Node) /\ entered \subseteq Node /\ looked \in [Node -> Nat]
  BY DEF ControlInv, CyclesTypes
<1>2. DOMAIN calls = 1..Len(calls) /\ Len(calls) \in Nat /\ \A i \in 1..Len(calls) : calls[i] \in Node
  BY <1>1
<1>3. DOMAIN stack = 1..Len(stack) /\ Len(stack) \in Nat /\ \A i \in 1..Len(stack) : stack[i] \in Node
  BY <1>1
<1>4. \A i \in 1..Len(calls) : calls[i] \in Gray
  BY <1>2 DEF Gray
<1> QED
  BY <1>1, <1>2, <1>3, <1>4 DEF ControlInv, CallsNested

LEMMA SkipSkills ==
    ASSUME SkillsInv, SkipNode PROVE SkillsInv'
<1>1. UNCHANGED <<graph, validator, calls, looked, entered, index, lowlink, counter, stack, sccs>>
  BY DEF SkipNode
<1> QED
  BY <1>1 DEF SkillsInv, Indexed, Components, StackTied, LowlinksTied, LowlinksLow, OnStack, Gray

\* What the call for v changes.
Entering(v) ==
    /\ v \in Node /\ v \notin entered /\ UNCHANGED <<graph, validator, sccs>> /\ entered' = entered \cup {v}
    /\ index'[v] = counter /\ lowlink'[v] = counter /\ counter' = counter + 1
    /\ \A n \in Node : n # v => index'[n] = index[n] /\ lowlink'[n] = lowlink[n]
    /\ stack' = Append(stack, v) /\ calls' = Append(calls, v)
    /\ \A n \in Gray : Reaches(graph, n, v)
    /\ looked'[v] = 0
    /\ \A n \in Node : \/ looked'[n] = looked[n]
                       \/ calls # <<>> /\ n = Here /\ looked'[n] = looked[n] + 1

LEMMA EntersSkill ==
    ASSUME ControlInv, validator = "skills", CallRoot \/ Call PROVE \E v \in Node : Entering(v)
<1>1. CASE CallRoot
  <2> DEFINE v == Nodes[from]
  <2>1. v \in Node /\ v \notin entered /\ calls = <<>> /\ looked' = looked /\ UNCHANGED <<graph, validator>>
    BY <1>1, NodesListed DEF CallRoot, ControlInv, CyclesTypes
  <2>2. /\ sccs' = sccs /\ entered' = entered \cup {v} /\ index' = [index EXCEPT ![v] = counter]
        /\ lowlink' = [lowlink EXCEPT ![v] = counter] /\ counter' = counter + 1
        /\ stack' = Append(stack, v) /\ calls' = Append(calls, v)
    BY <1>1 DEF CallRoot, Enter
  <2>3. Gray = {} /\ looked[v] = 0
    BY <2>1 DEF Gray, ControlInv, LookedInto
  <2> QED
    BY <2>1, <2>2, <2>3, SkillTypes DEF Entering
<1>2. CASE Call
  <2> DEFINE v == Target
  <2>1. /\ calls # <<>> /\ More /\ LookedAt /\ v \notin entered /\ UNCHANGED <<graph, validator>>
        /\ sccs' = sccs /\ entered' = entered \cup {v} /\ index' = [index EXCEPT ![v] = counter]
        /\ lowlink' = [lowlink EXCEPT ![v] = counter] /\ counter' = counter + 1
        /\ stack' = Append(stack, v) /\ calls' = Append(calls, v)
    BY <1>2 DEF Call, Searching, Enter
  <2>2. v \in Node /\ Here \in entered /\ Here \in Node
    BY <2>1, NextTarget, Innermost
  <2>3. \A n \in Gray : Reaches(graph, n, v)
    BY <2>1, NextTarget, SkillTypes DEF Gray
  <2>4. looked'[v] = 0 /\ looked'[Here] = looked[Here] + 1 /\ \A n \in Node : n # Here => looked'[n] = looked[n]
    BY <2>1, <2>2, LookedFurther DEF ControlInv, LookedInto
  <2>5. \A n \in Node : n # v => index'[n] = index[n] /\ lowlink'[n] = lowlink[n]
    BY <2>1, <2>2, SkillTypes
  <2>6. index'[v] = counter /\ lowlink'[v] = counter
    BY <2>1, <2>2, SkillTypes
  <2> HIDE DEF v
  <2> QED
    BY <2>1, <2>2, <2>3, <2>4, <2>5, <2>6 DEF Entering
<1> QED
  BY <1>1, <1>2

LEMMA OnStackEntered ==
    ASSUME ControlInv, Indexed
    PROVE  /\ \A n \in Node : OnStack(n) => n \in entered /\ index[n] \in Nat /\ index[n] < counter
           /\ \A n \in Gray : n \in Node /\ OnStack(n)
BY SkillTypes DEF Indexed

LEMMA EnterSkills ==
    ASSUME ControlInv, Indexed, Components, StackTied, LowlinksTied, LowlinksLow, NEW v, Entering(v)
    PROVE  Indexed' /\ Components' /\ StackTied' /\ LowlinksTied' /\ LowlinksLow'
<1> DEFINE L == Len(calls)
           H == Len(stack)
<1>1. /\ v \in Node /\ v \notin entered /\ UNCHANGED <<graph, validator, sccs>> /\ entered' = entered \cup {v}
      /\ index'[v] = counter /\ lowlink'[v] = counter /\ counter' = counter + 1
      /\ \A n \in Node : n # v => index'[n] = index[n] /\ lowlink'[n] = lowlink[n]
  BY DEF Entering
<1>2. /\ DOMAIN calls' = 1..L + 1 /\ Len(calls') = L + 1 /\ calls'[L + 1] = v /\ DOMAIN calls = 1..L /\ L \in Nat
      /\ \A i \in 1..L : calls'[i] = calls[i] /\ calls[i] \in Gray /\ calls[i] \in Node /\ calls[i] # v
      /\ \A i \in 1..L + 1 : i \in 1..L \/ i = L + 1
  <2>1. calls \in Seq(Node) /\ calls' = Append(calls, v)
    BY SkillTypes DEF Entering
  <2>2. DOMAIN calls' = 1..L + 1 /\ Len(calls') = L + 1 /\ calls'[L + 1] = v /\ DOMAIN calls = 1..L /\ L \in Nat
        /\ \A i \in 1..L : calls'[i] = calls[i]
    BY <1>1, <2>1, Grown
  <2>3. \A i \in 1..L : calls[i] \in Gray /\ calls[i] \in Node /\ calls[i] # v
    BY <1>1, SkillTypes
  <2>4. \A n \in Nat : \A i \in 1..n + 1 : i \in 1..n \/ i = n + 1
    OBVIOUS
  <2> QED
    BY <2>2, <2>3, <2>4
<1>3. /\ DOMAIN stack' = 1..H + 1 /\ stack'[H + 1] = v /\ DOMAIN stack = 1..H /\ H \in Nat
      /\ \A i \in 1..H : stack'[i] = stack[i] /\ OnStack(stack[i]) /\ stack[i] \in Node
      /\ \A i \in 1..H + 1 : i \in 1..H \/ i = H + 1
  <2>1. stack \in Seq(Node) /\ stack' = Append(stack, v)
    BY SkillTypes DEF Entering
  <2>2. DOMAIN stack' = 1..H + 1 /\ stack'[H + 1] = v /\ DOMAIN stack = 1..H /\ H \in Nat
        /\ \A i \in 1..H : stack'[i] = stack[i]
    BY <1>1, <2>1, Grown
  <2>3. \A i \in 1..H : OnStack(stack[i]) /\ stack[i] \in Node
    BY <2>2, SkillTypes DEF OnStack
  <2>4. \A n \in Nat : \A i \in 1..n + 1 : i \in 1..n \/ i = n + 1
    OBVIOUS
  <2> QED
    BY <2>2, <2>3, <2>4
<1>4. \A n \in Gray : Reaches(graph, n, v)
  BY DEF Entering
<1>5. /\ looked'[v] = 0
      /\ \A n \in Node : looked'[n] # looked[n] => L > 0 /\ n = calls[L] /\ looked'[n] = looked[n] + 1
  <2>1. calls # <<>> => L > 0
    BY <1>2, SkillTypes, Emptied
  <2>2. /\ looked'[v] = 0
        /\ \A n \in Node : \/ looked'[n] = looked[n]
                           \/ calls # <<>> /\ n = Here /\ looked'[n] = looked[n] + 1
    BY DEF Entering
  <2>3. Here = calls[L]
    BY DEF Here
  <2> HIDE DEF L
  <2>4. ASSUME NEW n \in Node, looked'[n] # looked[n]
        PROVE  L > 0 /\ n = calls[L] /\ looked'[n] = looked[n] + 1
    BY <2>1, <2>2, <2>3, <2>4
  <2> QED
    BY <2>2, <2>4
<1> HIDE DEF L, H
<1>6. \A n : OnStack(n)' <=> OnStack(n) \/ n = v
  <2>1. ASSUME NEW i \in 1..H + 1 PROVE OnStack(stack'[i]) \/ stack'[i] = v
    BY <1>3
  <2>2. \A i \in 1..H : i \in 1..H + 1
    BY <1>3
  <2>3. H + 1 \in 1..H + 1
    BY <1>3
  <2>4. ASSUME NEW n, OnStack(n) \/ n = v PROVE \E i \in 1..H + 1 : stack'[i] = n
    BY <1>3, <2>2, <2>3, <2>4 DEF OnStack
  <2> QED
    BY <1>3, <2>1, <2>4 DEF OnStack
<1>7. Gray' = Gray \cup {v}
  <2>1. Gray' = {calls'[i] : i \in 1..L + 1} /\ Gray = {calls[i] : i \in 1..L}
    BY <1>2 DEF Gray
  <2>2. L + 1 \in 1..L + 1 /\ \A i \in 1..L : i \in 1..L + 1
    BY <1>2
  <2>3. Gray' \subseteq Gray \cup {v}
    BY <1>2, <2>1
  <2>4. Gray \subseteq Gray' /\ v \in Gray'
    BY <1>2, <2>1, <2>2
  <2> QED
    BY <2>3, <2>4
<1>8. \A n \in Node : OnStack(n) => n \in entered /\ n # v /\ index[n] \in Nat /\ index[n] < counter
  BY <1>1, OnStackEntered
<1>9. \A n \in Gray : n \in Node /\ n # v /\ OnStack(n) /\ n \in entered
  BY <1>1, <1>8, OnStackEntered
<1>10. counter \in Nat /\ entered \subseteq Node /\ looked \in [Node -> Nat] /\ \A n \in Node : index[n] \in Nat /\ lowlink[n] \in Nat
  BY SkillTypes
<1>11. Indexed'
  <2>1. \A n \in entered' : index'[n] < counter'
    BY <1>1, <1>10 DEF Indexed
  <2>2. \A n, m \in entered' : index'[n] = index'[m] => n = m
    <3>1. \A n \in entered : n # v /\ n \in Node /\ index[n] # counter
      BY <1>1, <1>10 DEF Indexed
    <3> QED
      BY <1>1, <3>1 DEF Indexed
  <2>3. \A i, j \in 1..H + 1 : i < j => index'[stack'[i]] < index'[stack'[j]]
    <3> SUFFICES ASSUME NEW i \in 1..H + 1, NEW j \in 1..H + 1, i < j
                 PROVE  index'[stack'[i]] < index'[stack'[j]]
      OBVIOUS
    <3>1. i \in 1..H /\ index'[stack'[i]] = index[stack[i]] /\ index[stack[i]] < counter
      <4>1. i \in 1..H
        BY <1>3
      <4> QED
        BY <1>1, <1>3, <1>8, <4>1
    <3>2. CASE j = H + 1
      BY <1>1, <1>3, <3>1, <3>2
    <3>3. CASE j \in 1..H
      BY <1>1, <1>3, <1>8, <3>1, <3>3 DEF Indexed
    <3> QED
      BY <1>3, <3>2, <3>3
  <2>4. \A i, j \in 1..L + 1 : i < j => index'[calls'[i]] < index'[calls'[j]]
    <3> SUFFICES ASSUME NEW i \in 1..L + 1, NEW j \in 1..L + 1, i < j
                 PROVE  index'[calls'[i]] < index'[calls'[j]]
      OBVIOUS
    <3>1. i \in 1..L /\ index'[calls'[i]] = index[calls[i]] /\ index[calls[i]] < counter
      <4>1. i \in 1..L
        BY <1>2
      <4> QED
        BY <1>1, <1>2, <1>8, <1>9, <4>1
    <3>2. CASE j = L + 1
      BY <1>1, <1>2, <3>1, <3>2
    <3>3. CASE j \in 1..L
      BY <1>1, <1>2, <1>9, <3>1, <3>3 DEF Indexed
    <3> QED
      BY <1>2, <3>2, <3>3
  <2>5. \A n \in Node : n \in entered' <=> OnStack(n)' \/ n \in UNION sccs'
    BY <1>1, <1>6 DEF Indexed
  <2>6. \A n \in Node : OnStack(n)' => n \notin UNION sccs'
    BY <1>1, <1>6 DEF Indexed
  <2>7. \A n \in Gray' : OnStack(n)'
    BY <1>6, <1>7 DEF Indexed
  <2>8. \A n \in entered' \ Gray' : looked'[n] = Len(graph'[n])
    <3> SUFFICES ASSUME NEW n \in entered, n \notin Gray, n # v PROVE looked'[n] = Len(graph[n])
      BY <1>1, <1>7
    <3>1. looked'[n] = looked[n]
      <4>1. L > 0 => calls[L] \in Gray
        BY <1>2
      <4> QED
        BY <1>5, <1>10, <4>1
    <3> QED
      BY <3>1 DEF Indexed
  <2> QED
    BY <1>2, <1>3, <2>1, <2>2, <2>3, <2>4, <2>5, <2>6, <2>7, <2>8 DEF Indexed
<1>12. Components'
  BY <1>1 DEF Components
<1>13. StackTied'
  <2>1. ASSUME NEW n \in Gray', NEW m \in Node, OnStack(m)', index'[n] <= index'[m]
        PROVE  Leads(graph', n, m)
    <3>1. CASE n = v
      BY <1>1, <1>6, <1>8, <1>10, <2>1, <3>1 DEF Leads
    <3>2. CASE n # v /\ m = v
      BY <1>1, <1>4, <1>7, <2>1, <3>2 DEF Leads
    <3>3. CASE n # v /\ m # v
      BY <1>1, <1>6, <1>7, <1>9, <2>1, <3>3 DEF StackTied
    <3> QED
      BY <3>1, <3>2, <3>3
  <2>2. ASSUME NEW m \in Node, OnStack(m)'
        PROVE  \E n \in Gray' : index'[n] <= index'[m] /\ Leads(graph', m, n)
    <3>1. CASE m = v
      BY <1>1, <1>7, <1>10, <3>1 DEF Leads
    <3>2. CASE m # v
      <4>1. PICK n \in Gray : index[n] <= index[m] /\ Leads(graph, m, n)
        BY <1>6, <2>2, <3>2 DEF StackTied
      <4> QED
        BY <1>1, <1>7, <1>9, <3>2, <4>1
    <3> QED
      BY <3>1, <3>2
  <2> QED
    BY <2>1, <2>2 DEF StackTied
<1>14. LowlinksTied'
  <2> SUFFICES ASSUME NEW n \in Gray'
               PROVE  \E m \in Node :
                          OnStack(m)' /\ lowlink'[n] = index'[m] /\ lowlink'[n] <= index'[n] /\ Leads(graph', n, m)
    BY DEF LowlinksTied
  <2>1. CASE n = v
    BY <1>1, <1>6, <1>10, <2>1 DEF Leads
  <2>2. CASE n # v
    <3>1. PICK m \in Node : OnStack(m) /\ lowlink[n] = index[m] /\ lowlink[n] <= index[n] /\ Leads(graph, n, m)
      BY <1>7, <2>2 DEF LowlinksTied
    <3>2. m # v /\ n \in Node
      BY <1>7, <1>8, <1>9, <2>2, <3>1
    <3> QED
      BY <1>1, <1>6, <2>2, <3>1, <3>2
  <2> QED
    BY <2>1, <2>2
<1>15. LowlinksLow'
  <2> SUFFICES ASSUME NEW k \in 1..L + 1, NEW n \in Node, OnStack(n)', index'[calls'[k]] <= index'[n],
                      k < L + 1 => index'[n] < index'[calls'[k + 1]], NEW p \in 1..looked'[n],
                      OnStack(graph[n][p])', ~(n = calls'[k] /\ k < L + 1 /\ p = looked'[calls'[k]])
               PROVE  lowlink'[calls'[k]] <= index'[graph[n][p]]
    BY <1>1, <1>2 DEF LowlinksLow, Waits
  <2>1. n # v
    BY <1>5
  <2>2. OnStack(n) /\ index'[n] = index[n] /\ index[n] < counter
    BY <1>1, <1>6, <1>8, <2>1
  <2>3. k \in 1..L
    <3>1. k # L + 1
      BY <1>1, <1>2, <1>10, <2>2
    <3> QED
      BY <1>2, <3>1
  <2>4. calls'[k] = calls[k] /\ calls[k] # v /\ calls[k] \in Node /\ index'[calls[k]] = index[calls[k]]
        /\ lowlink'[calls[k]] = lowlink[calls[k]]
    BY <1>1, <1>2, <2>3
  <2>5. k < L => index[n] < index[calls[k + 1]]
    <3> SUFFICES ASSUME k < L PROVE index[n] < index[calls[k + 1]]
      OBVIOUS
    <3>1. k + 1 \in 1..L /\ k < L + 1
      BY <1>2, <2>3
    <3>2. index'[calls'[k + 1]] = index[calls[k + 1]]
      BY <1>1, <1>2, <3>1
    <3> QED
      BY <2>2, <3>1, <3>2
  <2>6. p \in 1..looked[n] /\ ~(n = calls[k] /\ k < L /\ p = looked[calls[k]])
    <3>1. CASE looked'[n] = looked[n]
      BY <1>2, <2>3, <2>4, <3>1
    <3>2. CASE looked'[n] # looked[n]
      <4>1. L > 0 /\ n = calls[L] /\ looked'[n] = looked[n] + 1
        BY <1>5, <3>2
      <4>2. ~(k < L)
        <5> SUFFICES ASSUME k < L PROVE FALSE
          OBVIOUS
        <5>1. k + 1 \in 1..L /\ L \in 1..L /\ (k + 1 = L \/ k + 1 < L)
          BY <1>2, <2>3, <4>1
        <5>2. index[calls[k + 1]] <= index[calls[L]]
          <6>1. k + 1 < L => index[calls[k + 1]] < index[calls[L]]
            BY <1>2, <5>1 DEF Indexed
          <6>2. index[calls[k + 1]] \in Nat /\ index[calls[L]] \in Nat
            BY <1>2, <1>10, <5>1
          <6> QED
            BY <5>1, <6>1, <6>2
        <5> QED
          BY <1>2, <1>10, <2>5, <4>1, <5>1, <5>2
      <4>3. k = L /\ k < L + 1
        BY <1>2, <2>3, <4>2
      <4>4. p # looked[n] + 1 /\ looked[n] \in Nat
        BY <1>10, <2>4, <4>1, <4>3
      <4> QED
        BY <4>1, <4>2, <4>4
    <3> QED
      BY <3>1, <3>2
  <2>7. graph[n][p] \in entered /\ graph[n][p] # v
    BY <1>1, <2>6 DEF ControlInv, LookedInto
  <2>8. OnStack(graph[n][p]) /\ index'[graph[n][p]] = index[graph[n][p]]
    BY <1>1, <1>6, <1>10, <2>7
  <2>9. lowlink[calls[k]] <= index[graph[n][p]]
    BY <1>1, <1>2, <2>2, <2>3, <2>4, <2>5, <2>6, <2>8 DEF LowlinksLow, Waits, L
  <2> QED
    BY <2>4, <2>8, <2>9
<1> QED
  BY <1>11, <1>12, <1>13, <1>14, <1>15

LEMMA SmallerOf ==
    \A a, b \in Nat : Smaller(a, b) \in {a, b} /\ Smaller(a, b) <= a /\ Smaller(a, b) <= b
BY DEF Smaller

LEMMA LookSkills ==
    ASSUME ControlInv, Indexed, Components, StackTied, LowlinksTied, LowlinksLow, LookSkill
    PROVE  Indexed' /\ Components' /\ StackTied' /\ LowlinksTied' /\ LowlinksLow' /\ lowlink' \in [Node -> Nat]
<1> DEFINE L == Len(calls)
           low == Lowlink(Here, Target)
<1>1. /\ calls # <<>> /\ More /\ LookedAt /\ Target \in entered
      /\ UNCHANGED <<graph, validator, calls, entered, index, counter, stack, sccs>>
      /\ lowlink' = [lowlink EXCEPT ![Here] = low]
  BY DEF LookSkill, Searching
<1>2. L \in Nat /\ L > 0 /\ L \in 1..L /\ DOMAIN calls = 1..L /\ Here = calls[L] /\ Here \in Node /\ Here \in Gray
      /\ \A i \in 1..L : calls[i] = Here => i = L
  <2>1. L \in Nat /\ L > 0 /\ DOMAIN calls = 1..L /\ Here = calls[L] /\ Here \in Node /\ Here \in Gray
    BY <1>1, Innermost
  <2>2. \A n \in Nat : n > 0 => n \in 1..n
    OBVIOUS
  <2> QED
    BY <1>1, <2>1, <2>2, OnlyInnermost
<1>3. Target \in Node /\ Reaches(graph, Here, Target) /\ Target = graph[Here][looked[Here] + 1]
  BY <1>1, NextTarget
<1>4. looked'[Here] = looked[Here] + 1 /\ looked[Here] \in Nat /\ \A n \in Node : n # Here => looked'[n] = looked[n]
  BY <1>1, LookedFurther, Innermost
<1>5. /\ counter \in Nat /\ lowlink \in [Node -> Nat] /\ \A n \in Node : index[n] \in Nat /\ lowlink[n] \in Nat
      /\ \A i \in 1..L : calls[i] \in Node /\ calls[i] \in Gray
  BY SkillTypes
<1>6. low \in {index[Target], lowlink[Here]} /\ low <= lowlink[Here] /\ low \in Nat
      /\ (OnStack(Target) => low <= index[Target]) /\ (low # lowlink[Here] => low = index[Target] /\ OnStack(Target))
  <2>1. index[Target] \in Nat /\ lowlink[Here] \in Nat
    BY <1>2, <1>3, <1>5
  <2>2. CASE OnStack(Target)
    <3>1. low = Smaller(index[Target], lowlink[Here])
      BY <2>2 DEF Lowlink, OnStack
    <3> QED
      BY <2>1, <2>2, <3>1, SmallerOf
  <2>3. CASE ~OnStack(Target)
    <3>1. low = lowlink[Here]
      BY <2>3 DEF Lowlink, OnStack
    <3> QED
      BY <2>1, <2>3, <3>1
  <2> QED
    BY <2>2, <2>3
<1> HIDE DEF low, L
<1>7. lowlink' \in [Node -> Nat] /\ lowlink'[Here] = low /\ \A n \in Node : n # Here => lowlink'[n] = lowlink[n]
  BY <1>1, <1>2, <1>5, <1>6
<1>8. Gray' = Gray /\ \A n : OnStack(n)' <=> OnStack(n)
  BY <1>1 DEF Gray, OnStack
<1>9. Indexed'
  <2>1. \A n \in entered \ Gray : n # Here /\ n \in Node
    BY <1>2, SkillTypes
  <2>2. \A n \in entered \ Gray : looked'[n] = Len(graph[n])
    BY <1>4, <2>1 DEF Indexed
  <2> QED
    BY <1>1, <1>8, <2>2 DEF Indexed
<1>10. Components'
  BY <1>1 DEF Components
<1>11. StackTied'
  BY <1>1, <1>8 DEF StackTied
<1>12. LowlinksTied'
  <2> SUFFICES ASSUME NEW n \in Gray
               PROVE  \E m \in Node : OnStack(m) /\ lowlink'[n] = index[m] /\ lowlink'[n] <= index[n] /\ Leads(graph, n, m)
    BY <1>1, <1>8 DEF LowlinksTied
  <2>1. PICK m \in Node : OnStack(m) /\ lowlink[n] = index[m] /\ lowlink[n] <= index[n] /\ Leads(graph, n, m)
    BY DEF LowlinksTied
  <2>2. CASE n = Here /\ low # lowlink[Here]
    <3>1. lowlink'[n] = index[Target] /\ OnStack(Target) /\ lowlink'[n] <= index[n]
      BY <1>2, <1>3, <1>5, <1>6, <1>7, <2>1, <2>2
    <3> QED
      BY <1>3, <2>2, <3>1 DEF Leads
  <2>3. CASE ~(n = Here /\ low # lowlink[Here])
    <3>1. n \in Node
      BY SkillTypes
    <3>2. lowlink'[n] = lowlink[n]
      BY <1>7, <2>3, <3>1
    <3> QED
      BY <2>1, <3>2
  <2> QED
    BY <2>2, <2>3
<1>13. LowlinksLow'
  <2> SUFFICES ASSUME NEW k \in 1..L, NEW n \in Node, OnStack(n), index[calls[k]] <= index[n],
                      k < L => index[n] < index[calls[k + 1]], NEW p \in 1..looked'[n],
                      OnStack(graph[n][p]), ~(n = calls[k] /\ k < L /\ p = looked'[calls[k]])
               PROVE  lowlink'[calls[k]] <= index[graph[n][p]]
    BY <1>1, <1>2, <1>8 DEF LowlinksLow, Waits, L
  <2>1. CASE n = Here /\ p = looked[Here] + 1
    <3>1. ~(k < L)
      <4> SUFFICES ASSUME k < L PROVE FALSE
        OBVIOUS
      <4>1. k + 1 \in 1..L /\ (k + 1 = L \/ k + 1 < L)
        BY <1>2
      <4>2. k + 1 < L => index[calls[k + 1]] < index[calls[L]]
        BY <1>2, <4>1 DEF Indexed
      <4>3. index[calls[k + 1]] \in Nat /\ index[calls[L]] \in Nat
        BY <1>2, <1>5, <4>1
      <4> QED
        BY <1>2, <2>1, <4>1, <4>2, <4>3
    <3>2. calls[k] = Here /\ graph[n][p] = Target
      BY <1>2, <1>3, <2>1, <3>1
    <3> QED
      BY <1>6, <1>7, <3>2
  <2>2. CASE ~(n = Here /\ p = looked[Here] + 1)
    <3>1. p \in 1..looked[n]
      BY <1>4, <2>2
    <3>2. ~(n = calls[k] /\ k < L /\ p = looked[calls[k]])
      <4> SUFFICES ASSUME n = calls[k], k < L, p = looked[calls[k]] PROVE FALSE
        OBVIOUS
      <4>1. calls[k] # Here
        BY <1>2
      <4> QED
        BY <1>4, <4>1
    <3>3. lowlink[calls[k]] <= index[graph[n][p]]
      BY <1>2, <3>1, <3>2 DEF LowlinksLow, Waits, L
    <3>4. lowlink'[calls[k]] <= lowlink[calls[k]] /\ lowlink'[calls[k]] \in Nat /\ lowlink[calls[k]] \in Nat
      BY <1>5, <1>6, <1>7
    <3>5. graph[n][p] \in Node /\ index[graph[n][p]] \in Nat
      <4>1. graph[n][p] \in entered
        BY <3>1 DEF ControlInv, LookedInto
      <4> QED
        BY <1>5, <4>1, SkillTypes
    <3> QED
      BY <3>3, <3>4, <3>5
  <2> QED
    BY <2>1, <2>2
<1> QED
  BY <1>7, <1>9, <1>10, <1>11, <1>12, <1>13

LEMMA LeavesSkill ==
    ASSUME ControlInv, Indexed, LeaveSkill
    PROVE  /\ Len(calls) \in Nat /\ Len(calls) > 0 /\ Len(calls) \in 1..Len(calls) /\ DOMAIN calls = 1..Len(calls)
           /\ Here = calls[Len(calls)] /\ Here \in Node /\ Here \in Gray /\ looked[Here] = Len(graph[Here])
           /\ \A i \in 1..Len(calls) : calls[i] \in Node /\ calls[i] \in Gray /\ Leads(graph, calls[i], Here)
           /\ Len(calls') = Len(calls) - 1 /\ DOMAIN calls' = 1..Len(calls) - 1
           /\ \A i \in 1..Len(calls) - 1 : /\ i \in 1..Len(calls) /\ calls'[i] = calls[i] /\ calls[i] # Here
                                           /\ index[calls[i]] < index[Here]
           /\ Gray = Gray' \cup {Here} /\ Here \notin Gray'
           /\ UNCHANGED <<graph, validator, looked, entered, index, counter>>
           /\ lowlink' \in [Node -> Nat] /\ \A n \in Node : lowlink'[n] <= lowlink[n]
           /\ \A n \in Node : lowlink'[n] # lowlink[n] =>
                 Len(calls) > 1 /\ n = calls[Len(calls) - 1] /\ lowlink'[n] = lowlink[Here]
           /\ Len(calls) > 1 => lowlink'[calls[Len(calls) - 1]] <= lowlink[Here]
<1> DEFINE L == Len(calls)
<1>1. /\ calls # <<>> /\ ~More /\ calls' = SubSeq(calls, 1, L - 1)
      /\ UNCHANGED <<graph, validator, from, looked, entered, index, counter>>
      /\ lowlink' = IF L = 1 THEN lowlink ELSE [lowlink EXCEPT ![calls[L - 1]] = Smaller(lowlink[Here], @)]
  BY DEF LeaveSkill, Searching
<1>2. /\ L \in Nat /\ L > 0 /\ DOMAIN calls = 1..L /\ Here = calls[L] /\ Here \in Node /\ Here \in Gray
      /\ looked[Here] \in Nat /\ graph[Here] \in Seq(Node)
  BY <1>1, Innermost
<1>3. \A i \in 1..L : calls[i] \in Node /\ calls[i] \in Gray /\ Leads(graph, calls[i], Here)
  BY <1>1, Innermost, SkillTypes
<1>4. /\ Len(calls') = L - 1 /\ DOMAIN calls' = 1..L - 1 /\ \A i \in 1..L - 1 : calls'[i] = calls[i]
      /\ Gray = Gray' \cup {Here} /\ Here \notin Gray'
  BY <1>1, EndNested
<1>5. looked[Here] = Len(graph[Here])
  <2>1. looked[Here] <= Len(graph[Here]) /\ ~(looked[Here] < Len(graph[Here]))
    BY <1>1, <1>2 DEF More, ControlInv, LookedInto
  <2> QED
    BY <1>2, <2>1
<1>6. lowlink \in [Node -> Nat]
  BY SkillTypes
<1> HIDE DEF L
<1>7. L \in 1..L /\ \A i \in 1..L - 1 : i \in 1..L /\ i < L
  BY <1>2
<1>8. \A i \in 1..L - 1 : calls[i] # Here /\ index[calls[i]] < index[Here]
  <2>1. \A i \in 1..L - 1 : index[calls[i]] < index[Here]
    BY <1>2, <1>7 DEF Indexed
  <2>2. \A i \in 1..L - 1 : calls[i] # Here
    BY <1>1, <1>7, OnlyInnermost DEF L
  <2> QED
    BY <2>1, <2>2
<1>9. CASE L = 1
  BY <1>1, <1>2, <1>3, <1>4, <1>5, <1>6, <1>7, <1>8, <1>9 DEF L
<1>10. CASE L # 1
  <2> DEFINE c == calls[L - 1]
             low == Smaller(lowlink[Here], lowlink[c])
  <2>1. L > 1 /\ L - 1 \in 1..L /\ c \in Node
    BY <1>2, <1>3, <1>10
  <2>2. lowlink' = [lowlink EXCEPT ![c] = low]
    BY <1>1, <1>10
  <2>3. low \in {lowlink[Here], lowlink[c]} /\ low <= lowlink[Here] /\ low <= lowlink[c] /\ low \in Nat
    BY <1>2, <1>6, <2>1, SmallerOf
  <2> HIDE DEF c, low
  <2>4. lowlink' \in [Node -> Nat] /\ lowlink'[c] = low /\ \A n \in Node : n # c => lowlink'[n] = lowlink[n]
    BY <1>6, <2>1, <2>2, <2>3
  <2>5. \A n \in Node : lowlink'[n] <= lowlink[n]
    BY <1>6, <2>3, <2>4
  <2>6. \A n \in Node : lowlink'[n] # lowlink[n] => n = c /\ lowlink'[n] = lowlink[Here]
    BY <2>3, <2>4
  <2>7. /\ \A n \in Node : lowlink'[n] # lowlink[n] => L > 1 /\ n = calls[L - 1] /\ lowlink'[n] = lowlink[Here]
        /\ L > 1 => lowlink'[calls[L - 1]] <= lowlink[Here]
    BY <2>1, <2>3, <2>4, <2>6 DEF c
  <2> QED
    BY <1>1, <1>2, <1>3, <1>4, <1>5, <1>7, <1>8, <2>4, <2>5, <2>7 DEF L
<1> QED
  BY <1>9, <1>10

(* A node whose low link is not its own index stays on the stack: it        *)
(* reaches an earlier call.                                                *)
LEMMA LeaveInner ==
    ASSUME ControlInv, Indexed, Components, StackTied, LowlinksTied, LowlinksLow, LeaveSkill,
           lowlink[Here] # index[Here]
    PROVE  Indexed' /\ Components' /\ StackTied' /\ LowlinksTied' /\ LowlinksLow'
<1> DEFINE L == Len(calls)
<1>1. UNCHANGED <<stack, sccs>>
  BY DEF LeaveSkill
<1>2. /\ L \in Nat /\ L > 0 /\ L \in 1..L /\ DOMAIN calls = 1..L
      /\ Here = calls[L] /\ Here \in Node /\ Here \in Gray /\ looked[Here] = Len(graph[Here])
      /\ \A i \in 1..L : calls[i] \in Node /\ calls[i] \in Gray /\ Leads(graph, calls[i], Here)
  BY LeavesSkill
<1>3. /\ Len(calls') = L - 1 /\ DOMAIN calls' = 1..L - 1
      /\ \A i \in 1..L - 1 : /\ i \in 1..L /\ calls'[i] = calls[i] /\ calls[i] # Here
                             /\ index[calls[i]] < index[Here]
  BY LeavesSkill
<1>4. Gray = Gray' \cup {Here} /\ Here \notin Gray' /\ UNCHANGED <<graph, validator, looked, entered, index, counter>>
  BY LeavesSkill
<1>5. /\ lowlink' \in [Node -> Nat] /\ \A n \in Node : lowlink'[n] <= lowlink[n]
      /\ \A n \in Node : lowlink'[n] # lowlink[n] => L > 1 /\ n = calls[L - 1] /\ lowlink'[n] = lowlink[Here]
      /\ L > 1 => lowlink'[calls[L - 1]] <= lowlink[Here]
  BY LeavesSkill
<1> HIDE DEF L
<1>6. \A n : OnStack(n)' <=> OnStack(n)
  BY <1>1 DEF OnStack
<1>7. /\ \A n \in Node : index[n] \in Nat /\ lowlink[n] \in Nat /\ lowlink'[n] \in Nat
      /\ \A n \in Gray : n \in Node
  BY <1>5, SkillTypes
<1>8. Indexed'
  <2>1. \A i, j \in DOMAIN calls' : i < j => index'[calls'[i]] < index'[calls'[j]]
    BY <1>2, <1>3, <1>4 DEF Indexed
  <2>2. \A n \in entered' \ Gray' : looked'[n] = Len(graph'[n])
    BY <1>2, <1>4 DEF Indexed
  <2>3. \A n \in Gray' : OnStack(n)'
    BY <1>4, <1>6 DEF Indexed
  <2> QED
    BY <1>1, <1>4, <1>6, <2>1, <2>2, <2>3 DEF Indexed
<1>9. Components'
  BY <1>1, <1>4 DEF Components
<1>10. PICK u \in Node : OnStack(u) /\ lowlink[Here] = index[u] /\ lowlink[Here] <= index[Here] /\ Leads(graph, Here, u)
  BY <1>2 DEF LowlinksTied
<1>11. index[u] < index[Here]
  BY <1>2, <1>7, <1>10
<1>12. StackTied'
  <2>1. \A n \in Gray', m \in Node : OnStack(m)' /\ index'[n] <= index'[m] => Leads(graph', n, m)
    BY <1>4, <1>6 DEF StackTied
  <2>2. ASSUME NEW m \in Node, OnStack(m)
        PROVE  \E n \in Gray' : index[n] <= index[m] /\ Leads(graph, m, n)
    <3>1. PICK n \in Gray : index[n] <= index[m] /\ Leads(graph, m, n)
      BY <2>2 DEF StackTied
    <3>2. CASE n # Here
      BY <1>4, <3>1, <3>2
    <3>3. CASE n = Here
      <4>1. PICK x \in Gray : index[x] <= index[u] /\ Leads(graph, u, x)
        BY <1>10 DEF StackTied
      <4>2. x # Here /\ x \in Gray' /\ x \in Node
        BY <1>4, <1>7, <1>10, <1>11, <4>1
      <4>3. index[x] <= index[m]
        BY <1>2, <1>7, <1>10, <1>11, <3>1, <3>3, <4>1, <4>2
      <4>4. Leads(graph, m, x)
        BY <1>2, <1>10, <3>1, <3>3, <4>1, LeadsOn
      <4> QED
        BY <4>2, <4>3, <4>4
    <3> QED
      BY <3>2, <3>3
  <2> QED
    BY <1>4, <1>6, <2>1, <2>2 DEF StackTied
<1>13. LowlinksTied'
  <2> SUFFICES ASSUME NEW n \in Gray'
               PROVE  \E m \in Node : OnStack(m) /\ lowlink'[n] = index[m] /\ lowlink'[n] <= index[n] /\ Leads(graph, n, m)
    BY <1>4, <1>6 DEF LowlinksTied
  <2>1. n \in Gray /\ n \in Node
    BY <1>4, <1>7
  <2>2. PICK m \in Node : OnStack(m) /\ lowlink[n] = index[m] /\ lowlink[n] <= index[n] /\ Leads(graph, n, m)
    BY <2>1 DEF LowlinksTied
  <2>3. lowlink'[n] <= index[n]
    BY <1>5, <1>7, <2>1, <2>2
  <2>4. CASE lowlink'[n] = lowlink[n]
    BY <2>2, <2>4
  <2>5. CASE lowlink'[n] # lowlink[n]
    <3>1. L > 1 /\ n = calls[L - 1] /\ lowlink'[n] = index[u]
      BY <1>5, <1>10, <2>1, <2>5
    <3>2. Leads(graph, n, Here)
      <4>1. L - 1 \in 1..L
        BY <1>2, <3>1
      <4> QED
        BY <1>2, <3>1, <4>1
    <3>3. Leads(graph, n, u)
      BY <1>2, <1>10, <3>2, LeadsOn
    <3> QED
      BY <1>10, <2>3, <3>1, <3>3
  <2> QED
    BY <2>4, <2>5
<1>14. LowlinksLow'
  <2> SUFFICES ASSUME NEW k \in 1..L - 1, NEW n \in Node, OnStack(n), index[calls[k]] <= index[n],
                      k < L - 1 => index[n] < index[calls[k + 1]], NEW p \in 1..looked[n],
                      OnStack(graph[n][p]), ~(n = calls[k] /\ k < L - 1 /\ p = looked[calls[k]])
               PROVE  lowlink'[calls[k]] <= index[graph[n][p]]
    <3>1. \A k \in 1..L - 1 : k < L - 1 => k + 1 \in 1..L - 1
      BY <1>2
    <3> QED
      BY <1>3, <1>4, <1>6, <3>1 DEF LowlinksLow, Waits
  <2>1. k \in 1..L /\ k < L /\ calls[k] \in Node
    BY <1>2, <1>3
  <2>2. graph[n][p] \in Node
    <3>1. graph[n][p] \in entered
      BY DEF ControlInv, LookedInto
    <3> QED
      BY <3>1, SkillTypes
  <2>3. lowlink'[calls[k]] <= lowlink[calls[k]] /\ lowlink'[calls[k]] \in Nat /\ lowlink[calls[k]] \in Nat
        /\ index[graph[n][p]] \in Nat
    BY <1>5, <1>7, <2>1, <2>2
  <2>4. CASE index[n] < index[calls[k + 1]] /\ ~(n = calls[k] /\ p = looked[calls[k]])
    <3>1. lowlink[calls[k]] <= index[graph[n][p]]
      BY <1>2, <2>1, <2>4 DEF LowlinksLow, Waits, L
    <3> QED
      BY <2>3, <3>1
  <2>5. CASE index[n] < index[calls[k + 1]] /\ n = calls[k] /\ p = looked[calls[k]]
    <3>1. k + 1 = L
      BY <1>2, <2>1, <2>5, LastOrBefore
    <3>2. graph[n][p] = Here
      BY <1>2, <2>1, <2>5, <3>1 DEF ControlInv, CallsNested
    <3>3. lowlink'[calls[k]] <= lowlink[Here]
      <4>1. k = L - 1 /\ L > 1
        BY <1>2, <2>1, <3>1
      <4> QED
        BY <1>5, <4>1
    <3> QED
      BY <1>2, <1>7, <1>10, <2>3, <3>2, <3>3
  <2>6. CASE ~(index[n] < index[calls[k + 1]])
    <3>1. k + 1 = L
      BY <1>2, <2>1, <2>6, LastOrBefore
    <3>2. index[Here] <= index[n]
      BY <1>2, <1>7, <2>6, <3>1
    <3>3. lowlink[Here] <= index[graph[n][p]]
      <4>1. ~(L < L)
        BY <1>2
      <4> QED
        BY <1>2, <3>2, <4>1 DEF LowlinksLow, Waits, L
    <3>4. lowlink'[calls[k]] <= lowlink[Here]
      <4>1. k = L - 1 /\ L > 1
        BY <1>2, <2>1, <3>1
      <4> QED
        BY <1>5, <4>1
    <3> QED
      BY <1>2, <1>7, <2>3, <3>3, <3>4
  <2> QED
    BY <2>4, <2>5, <2>6
<1> QED
  BY <1>8, <1>9, <1>12, <1>13, <1>14

(* A node whose low link is its own index ends a component: what was put   *)
(* on the stack since.                                                     *)
LEMMA Popped ==
    ASSUME ControlInv, Indexed, LeaveSkill, lowlink[Here] = index[Here]
    PROVE  /\ stack' \in Seq(Node)
           /\ sccs' = sccs \cup {{n \in Node : OnStack(n) /\ index[Here] <= index[n]}}
           /\ \A n \in Node : OnStack(n)' <=> OnStack(n) /\ index[n] < index[Here]
           /\ \A i, j \in DOMAIN stack' : i < j => index[stack'[i]] < index[stack'[j]]
<1> DEFINE H == Len(stack)
<1>1. stack' = SubSeq(stack, 1, Place - 1) /\ sccs' = sccs \cup {{stack[i] : i \in Place..Len(stack)}}
  BY DEF LeaveSkill
<1>2. stack \in Seq(Node) /\ DOMAIN stack = 1..H /\ H \in Nat /\ \A i \in 1..H : stack[i] \in Node /\ index[stack[i]] \in Nat
  BY SkillTypes
<1>3. Place \in 1..H /\ stack[Place] = Here
  <2>1. OnStack(Here)
    BY LeavesSkill DEF Indexed
  <2> QED
    BY <1>2, <2>1 DEF OnStack, Place
<1>4. Place - 1 \in 0..H
  BY <1>2, <1>3
<1> HIDE DEF H
<1>5. stack' \in Seq(Node) /\ DOMAIN stack' = 1..Place - 1 /\ \A i \in 1..Place - 1 : stack'[i] = stack[i] /\ i \in 1..H
  <2>1. stack' \in Seq(Node) /\ DOMAIN stack' = 1..Place - 1 /\ \A i \in 1..Place - 1 : stack'[i] = stack[i]
    BY <1>1, <1>2, <1>4, Shrunk DEF H
  <2>2. \A i \in 1..Place - 1 : i \in 1..H
    BY <1>2, <1>3
  <2> QED
    BY <2>1, <2>2
<1>6. \A i \in 1..H : (i < Place => index[stack[i]] < index[Here]) /\ (i >= Place => index[Here] <= index[stack[i]])
  <2> SUFFICES ASSUME NEW i \in 1..H
               PROVE  (i < Place => index[stack[i]] < index[Here]) /\ (i >= Place => index[Here] <= index[stack[i]])
    OBVIOUS
  <2>1. CASE i < Place
    BY <1>2, <1>3, <2>1 DEF Indexed
  <2>2. CASE i = Place
    BY <1>2, <1>3, <2>2
  <2>3. CASE Place < i
    <3>1. index[Here] < index[stack[i]]
      BY <1>2, <1>3, <2>3 DEF Indexed
    <3> QED
      BY <1>2, <1>3, <2>3, <3>1
  <2> QED
    BY <1>3, <2>1, <2>2, <2>3
<1>7. \A i \in 1..H : i \in 1..Place - 1 <=> index[stack[i]] < index[Here]
  BY <1>2, <1>3, <1>6
<1>8. \A i \in 1..H : i \in Place..H <=> index[Here] <= index[stack[i]]
  BY <1>2, <1>3, <1>6
<1>9. \A n \in Node : OnStack(n) <=> \E i \in 1..H : stack[i] = n
  BY <1>2 DEF OnStack
<1>10. \A n \in Node : OnStack(n)' <=> OnStack(n) /\ index[n] < index[Here]
  BY <1>5, <1>7, <1>9 DEF OnStack
<1>11. {stack[i] : i \in Place..H} = {n \in Node : OnStack(n) /\ index[Here] <= index[n]}
  <2>1. \A i \in Place..H : i \in 1..H
    BY <1>2, <1>3
  <2> QED
    BY <1>2, <1>8, <1>9, <2>1
<1>12. \A i, j \in DOMAIN stack' : i < j => index[stack'[i]] < index[stack'[j]]
  BY <1>2, <1>5 DEF Indexed
<1> QED
  BY <1>1, <1>5, <1>10, <1>11, <1>12 DEF H

LEMMA Component ==
    ASSUME ControlInv, Indexed, Components, StackTied, LowlinksLow, LeaveSkill, lowlink[Here] = index[Here],
           NEW C, C = {n \in Node : OnStack(n) /\ index[Here] <= index[n]}
    PROVE  /\ Closed(graph, C \cup UNION sccs)
           /\ \A n \in C, m \in Node : m \in C <=> Leads(graph, n, m) /\ Leads(graph, m, n)
<1> DEFINE L == Len(calls)
<1>1. /\ L \in Nat /\ L > 0 /\ L \in 1..L /\ DOMAIN calls = 1..L
      /\ Here = calls[L] /\ Here \in Node /\ Here \in Gray /\ looked[Here] = Len(graph[Here])
      /\ \A i \in 1..L : calls[i] \in Node /\ calls[i] \in Gray /\ Leads(graph, calls[i], Here)
  BY LeavesSkill
<1>2. /\ \A n \in Node : index[n] \in Nat /\ lowlink[n] \in Nat
      /\ UNION sccs \subseteq Node
  BY SkillTypes DEF ControlInv, CyclesTypes
<1>3. \A i \in 1..L : i = L \/ index[calls[i]] < index[Here]
  <2>1. \A i \in 1..L : i = L \/ i < L
    BY <1>1, LastOrBefore
  <2> HIDE DEF L
  <2> QED
    BY <1>1, <2>1 DEF Indexed
<1>4. \A n \in Gray : \E i \in 1..L : n = calls[i]
  BY <1>1 DEF Gray
<1> HIDE DEF L
<1>5. \A n \in C : looked[n] = Len(graph[n])
  <2> SUFFICES ASSUME NEW n \in C PROVE looked[n] = Len(graph[n])
    OBVIOUS
  <2>1. CASE n \in Gray
    <3>1. PICK i \in 1..L : n = calls[i]
      BY <1>4, <2>1
    <3>2. n = Here
      BY <1>1, <1>2, <1>3, <3>1
    <3> QED
      BY <1>1, <3>2
  <2>2. CASE n \notin Gray
    BY <2>2 DEF Indexed
  <2> QED
    BY <2>1, <2>2
<1>6. ASSUME NEW n \in C, NEW p \in 1..Len(graph[n]) PROVE graph[n][p] \in C \cup UNION sccs
  <2>1. graph[n][p] \in entered /\ graph[n][p] \in Node
    BY <1>5, SkillTypes DEF ControlInv, LookedInto
  <2>2. ASSUME OnStack(graph[n][p]) PROVE graph[n][p] \in C
    <3>1. lowlink[Here] <= index[graph[n][p]]
      <4>1. ~(L < L)
        BY <1>1
      <4> QED
        BY <1>1, <1>5, <2>2, <4>1 DEF LowlinksLow, Waits, L
    <3> QED
      BY <2>1, <2>2, <3>1
  <2> QED
    BY <2>1, <2>2 DEF Indexed
<1>7. Closed(graph, C \cup UNION sccs)
  <2>1. \A n \in C : Succ(graph, n) \subseteq C \cup UNION sccs
    <3> SUFFICES ASSUME NEW n \in C PROVE Succ(graph, n) \subseteq C \cup UNION sccs
      OBVIOUS
    <3>1. graph[n] \in Seq(Node)
      BY Graph DEF ControlInv
    <3>2. DOMAIN graph[n] = 1..Len(graph[n])
      BY <3>1
    <3> QED
      BY <1>6, <3>2 DEF Succ
  <2> QED
    BY <2>1 DEF Closed, Components
<1>8. \A n \in C : Leads(graph, Here, n)
  BY <1>1 DEF StackTied
<1>9. \A n \in C : Leads(graph, n, Here)
  <2> SUFFICES ASSUME NEW n \in C PROVE Leads(graph, n, Here)
    OBVIOUS
  <2>1. PICK x \in Gray : Leads(graph, n, x)
    BY DEF StackTied
  <2>2. x \in Node /\ Leads(graph, x, Here)
    BY <1>1, <1>4
  <2> QED
    BY <2>1, <2>2, LeadsOn
<1>10. ASSUME NEW n \in C, NEW m \in Node, Leads(graph, n, m), Leads(graph, m, n) PROVE m \in C
  <2>1. CASE n = m
    BY <2>1
  <2>2. CASE n # m
    <3>1. Reaches(graph, n, m) /\ Reaches(graph, m, n)
      BY <1>10, <2>2 DEF Leads
    <3>2. m \in C \cup UNION sccs
      <4>1. C \cup UNION sccs \in SUBSET Node
        BY <1>2
      <4> QED
        BY <1>7, <3>1, <4>1, StaysIn
    <3>3. m \notin UNION sccs
      <4>1. ASSUME m \in UNION sccs PROVE n \in UNION sccs
        BY <1>2, <3>1, <4>1, StaysIn DEF Components
      <4> QED
        BY <4>1 DEF Indexed
    <3> QED
      BY <3>2, <3>3
  <2> QED
    BY <2>1, <2>2
<1>11. \A n \in C, m \in Node : m \in C => Leads(graph, n, m) /\ Leads(graph, m, n)
  BY <1>1, <1>8, <1>9, LeadsOn
<1> QED
  BY <1>7, <1>10, <1>11

LEMMA LeaveRoot ==
    ASSUME ControlInv, Indexed, Components, StackTied, LowlinksTied, LowlinksLow, LeaveSkill,
           lowlink[Here] = index[Here]
    PROVE  Indexed' /\ Components' /\ StackTied' /\ LowlinksTied' /\ LowlinksLow'
<1> DEFINE L == Len(calls)
           C == {n \in Node : OnStack(n) /\ index[Here] <= index[n]}
<1>1. /\ L \in Nat /\ L > 0 /\ L \in 1..L /\ DOMAIN calls = 1..L
      /\ Here = calls[L] /\ Here \in Node /\ Here \in Gray /\ looked[Here] = Len(graph[Here])
      /\ \A i \in 1..L : calls[i] \in Node /\ calls[i] \in Gray /\ Leads(graph, calls[i], Here)
  BY LeavesSkill
<1>2. /\ Len(calls') = L - 1 /\ DOMAIN calls' = 1..L - 1
      /\ \A i \in 1..L - 1 : /\ i \in 1..L /\ calls'[i] = calls[i] /\ calls[i] # Here
                             /\ index[calls[i]] < index[Here]
  BY LeavesSkill
<1>3. Gray = Gray' \cup {Here} /\ Here \notin Gray' /\ UNCHANGED <<graph, validator, looked, entered, index, counter>>
  BY LeavesSkill
<1>4. /\ lowlink' \in [Node -> Nat] /\ \A n \in Node : lowlink'[n] <= lowlink[n]
      /\ \A n \in Node : lowlink'[n] # lowlink[n] => L > 1 /\ n = calls[L - 1] /\ lowlink'[n] = lowlink[Here]
  BY LeavesSkill
<1>5. /\ sccs' = sccs \cup {C}
      /\ \A n \in Node : OnStack(n)' <=> OnStack(n) /\ index[n] < index[Here]
      /\ \A i, j \in DOMAIN stack' : i < j => index[stack'[i]] < index[stack'[j]]
  BY Popped
<1>6. /\ Closed(graph, C \cup UNION sccs)
      /\ \A n \in C, m \in Node : m \in C <=> Leads(graph, n, m) /\ Leads(graph, m, n)
  BY Component
<1>7. /\ \A n \in Node : index[n] \in Nat /\ lowlink[n] \in Nat /\ lowlink'[n] \in Nat
      /\ entered \subseteq Node
  BY <1>4, SkillTypes
<1>8. \A n \in Node : n \in C <=> OnStack(n) /\ ~OnStack(n)'
  BY <1>1, <1>5, <1>7
<1> HIDE DEF L, C
<1>9. UNION sccs' = C \cup UNION sccs
  BY <1>5
<1>10. \A n \in Gray' : n \in Gray /\ n \in Node /\ index[n] < index[Here] /\ OnStack(n)'
  <2> SUFFICES ASSUME NEW n \in Gray' PROVE n \in Gray /\ n \in Node /\ index[n] < index[Here] /\ OnStack(n)'
    OBVIOUS
  <2>1. PICK i \in 1..L - 1 : n = calls[i]
    BY <1>2 DEF Gray
  <2> QED
    BY <1>1, <1>2, <1>3, <1>5, <2>1 DEF Indexed
<1>11. Indexed'
  <2>1. \A i, j \in DOMAIN calls' : i < j => index'[calls'[i]] < index'[calls'[j]]
    BY <1>1, <1>2, <1>3 DEF Indexed
  <2>2. \A n \in entered' \ Gray' : looked'[n] = Len(graph'[n])
    BY <1>1, <1>3 DEF Indexed
  <2>3. \A n \in Gray' : OnStack(n)'
    BY <1>10
  <2>4. \A n \in Node : n \in entered' <=> OnStack(n)' \/ n \in UNION sccs'
    BY <1>3, <1>5, <1>8, <1>9 DEF Indexed
  <2>5. \A n \in Node : OnStack(n)' => n \notin UNION sccs'
    BY <1>5, <1>8, <1>9 DEF Indexed
  <2>6. \A i, j \in DOMAIN stack' : i < j => index'[stack'[i]] < index'[stack'[j]]
    BY <1>3, <1>5
  <2>7. /\ \A n \in entered' : index'[n] < counter'
        /\ \A n, m \in entered' : index'[n] = index'[m] => n = m
    BY <1>3 DEF Indexed
  <2> QED
    BY <2>1, <2>2, <2>3, <2>4, <2>5, <2>6, <2>7 DEF Indexed
<1>12. Components'
  <2>1. \A c \in sccs' : \A n \in c, m \in Node : m \in c <=> Leads(graph, n, m) /\ Leads(graph, m, n)
    <3>1. \A c \in sccs : \A n \in c, m \in Node : m \in c <=> Leads(graph, n, m) /\ Leads(graph, m, n)
      BY DEF Components
    <3> QED
      BY <1>5, <1>6, <3>1
  <2>2. Closed(graph, UNION sccs')
    BY <1>6, <1>9
  <2> QED
    BY <1>3, <2>1, <2>2 DEF Components
<1>13. StackTied'
  <2>1. \A n \in Gray', m \in Node : OnStack(m)' /\ index'[n] <= index'[m] => Leads(graph', n, m)
    BY <1>3, <1>5, <1>10 DEF StackTied
  <2>2. ASSUME NEW m \in Node, OnStack(m)'
        PROVE  \E n \in Gray' : index'[n] <= index'[m] /\ Leads(graph', m, n)
    <3>1. OnStack(m) /\ index[m] < index[Here]
      BY <1>5, <2>2
    <3>2. PICK n \in Gray : index[n] <= index[m] /\ Leads(graph, m, n)
      BY <3>1 DEF StackTied
    <3>3. n # Here
      BY <1>1, <1>7, <3>1, <3>2
    <3> QED
      BY <1>3, <3>2, <3>3
  <2> QED
    BY <2>1, <2>2 DEF StackTied
<1>14. \A n \in Gray' : lowlink'[n] = lowlink[n]
  <2> SUFFICES ASSUME NEW n \in Gray', lowlink'[n] # lowlink[n] PROVE FALSE
    OBVIOUS
  <2>1. n \in Node /\ n \in Gray /\ index[n] < index[Here]
    BY <1>10
  <2>2. lowlink[n] <= index[n]
    BY <2>1 DEF LowlinksTied
  <2>3. lowlink'[n] = index[Here] /\ lowlink'[n] <= lowlink[n]
    BY <1>4, <2>1
  <2> QED
    BY <1>1, <1>7, <2>1, <2>2, <2>3
<1>15. LowlinksTied'
  <2> SUFFICES ASSUME NEW n \in Gray'
               PROVE  \E m \in Node :
                          OnStack(m)' /\ lowlink'[n] = index'[m] /\ lowlink'[n] <= index'[n] /\ Leads(graph', n, m)
    BY DEF LowlinksTied
  <2>1. n \in Gray /\ n \in Node /\ index[n] < index[Here] /\ lowlink'[n] = lowlink[n]
    BY <1>10, <1>14
  <2>2. PICK m \in Node : OnStack(m) /\ lowlink[n] = index[m] /\ lowlink[n] <= index[n] /\ Leads(graph, n, m)
    BY <2>1 DEF LowlinksTied
  <2>3. index[m] < index[Here]
    BY <1>1, <1>7, <2>1, <2>2
  <2> QED
    BY <1>3, <1>5, <2>1, <2>2, <2>3
<1>16. LowlinksLow'
  <2> SUFFICES ASSUME NEW k \in DOMAIN calls', NEW n \in Node, OnStack(n)', index'[calls'[k]] <= index'[n],
                      k < Len(calls') => index'[n] < index'[calls'[k + 1]], NEW p \in 1..looked'[n],
                      NEW m, m = graph'[n][p], OnStack(m)',
                      ~(n = calls'[k] /\ k < Len(calls') /\ p = looked'[calls'[k]])
               PROVE  lowlink'[calls'[k]] <= index'[m]
    BY DEF LowlinksLow, Waits
  <2>1. /\ k \in 1..L - 1 /\ calls'[k] = calls[k] /\ index[calls[k]] <= index[n]
        /\ p \in 1..looked[n] /\ m = graph[n][p] /\ ~(n = calls[k] /\ k < L - 1 /\ p = looked[calls[k]])
    BY <1>2, <1>3
  <2>2. k < L - 1 => index[n] < index[calls[k + 1]]
    <3>1. k < L - 1 => k + 1 \in 1..L - 1
      BY <1>1, <2>1
    <3> QED
      BY <1>2, <1>3, <3>1
  <2>3. k \in 1..L /\ k < L /\ calls[k] \in Gray'
    <3>1. calls[k] \in Gray'
      BY <1>2, <2>1 DEF Gray
    <3> QED
      BY <1>1, <1>2, <2>1, <3>1
  <2>4. m \in Node /\ OnStack(m) /\ index[m] < index[Here]
    <3>1. m \in entered
      BY <2>1 DEF ControlInv, LookedInto
    <3>2. m \in Node
      BY <1>7, <3>1
    <3> QED
      BY <1>5, <3>2
  <2>5. OnStack(n) /\ index[n] < index[Here]
    BY <1>5
  <2>6. index[n] < index[calls[k + 1]]
    BY <1>1, <2>3, <2>5, <2>2, LastOrBefore
  <2>7. ~(n = calls[k] /\ p = looked[calls[k]])
    <3> SUFFICES ASSUME n = calls[k], p = looked[calls[k]] PROVE FALSE
      OBVIOUS
    <3>1. k + 1 = L
      BY <1>1, <2>1, <2>3, LastOrBefore
    <3>2. m = Here
      BY <1>1, <2>1, <2>3, <3>1 DEF ControlInv, CallsNested
    <3> QED
      BY <1>7, <2>4, <3>2
  <2>8. lowlink[calls[k]] <= index[m]
    BY <1>1, <2>1, <2>3, <2>4, <2>5, <2>6, <2>7 DEF LowlinksLow, Waits
  <2> QED
    BY <1>3, <1>14, <2>1, <2>3, <2>8
<1> QED
  BY <1>11, <1>12, <1>13, <1>15, <1>16

-----------------------------------------------------------------------------
(* The three searches together.                                            *)
LEMMA InitSearch == CyclesInit => SearchInv
<1> SUFFICES ASSUME CyclesInit PROVE SearchInv
  OBVIOUS
<1>1. calls = <<>> /\ entered = {} /\ black = {} /\ cyclePath = <<>> /\ stack = <<>> /\ sccs = {}
      /\ recStack = {} /\ involved = {} /\ Gray = {}
  BY DEF CyclesInit, NothingCalled, Gray
<1>2. HooksInv /\ NotHooks
  BY <1>1 DEF HooksInv, NotHooks, HooksSearch, Harmless, Closed, AllIn, ParentsCalled
<1>3. ChainInv
  BY <1>1 DEF ChainInv, Harmless, Closed, AllIn
<1>4. SkillsInv
  <2>1. \A n : ~OnStack(n)
    BY <1>1 DEF OnStack
  <2> QED
    BY <1>1, <2>1 DEF SkillsInv, Indexed, Components, Closed, StackTied, LowlinksTied, LowlinksLow
<1> QED
  BY <1>2, <1>3, <1>4, InitControl DEF SearchInv

LEMMA ControlOf ==
    ASSUME CyclesTypes', CallsNested', LookedInto', LoopDone' PROVE ControlInv'
BY DEF ControlInv

LEMMA LookControlled ==
    ASSUME SearchInv, LookHook \/ LookSkill \/ LookAgent PROVE ControlInv'
<1>1. /\ calls # <<>> /\ More /\ LookedAt /\ Target \in entered /\ cyclePath = <<>>
      /\ UNCHANGED <<graph, validator, from, entered, index, counter, stack, sccs, parent, black, recStack>>
  BY DEF LookHook, LookSkill, LookAgent, Searching
<1>2. ControlInv
  BY DEF SearchInv
<1>3. LookedInto'
  BY <1>1, <1>2, LookControl
<1>4. LoopDone'
  BY <1>1, <1>2 DEF LoopDone, ControlInv
<1>5. looked' \in [Node -> Nat]
  BY <1>1, <1>2, LookedFurther
<1>6. Target \in Node /\ Here \in Node
  BY <1>1, <1>2, NextTarget, Innermost
<1>7. calls' = calls \/ calls' = <<>>
  BY DEF LookHook, LookSkill, LookAgent
<1>8. CallsNested' /\ calls' \in Seq(Node)
  <2>1. CASE calls' = calls
    BY <1>1, <1>2, <2>1, StillNested DEF ControlInv, CyclesTypes
  <2>2. CASE calls' = <<>>
    BY <2>2, StoppedNested
  <2> QED
    BY <1>7, <2>1, <2>2
<1>9. CASE LookHook
  <2>1. UNCHANGED <<lowlink, involved>>
    BY <1>9 DEF LookHook
  <2>2. cyclePath' \in Seq(Node) /\ cur' \in Node \cup {Null}
    <3>1. cyclePath \in Seq(Node) /\ cur \in Node \cup {Null}
      BY <1>2 DEF ControlInv, CyclesTypes
    <3>2. UNCHANGED <<cyclePath, cur>> \/ (cyclePath' = <<Target, Here>> /\ cur' = Here)
      BY <1>9 DEF LookHook
    <3>3. <<Target, Here>> \in Seq(Node)
      BY <1>6
    <3> QED
      BY <1>6, <3>1, <3>2, <3>3
  <2>3. CyclesTypes'
    BY <1>1, <1>2, <1>5, <1>8, <2>1, <2>2 DEF ControlInv, CyclesTypes
  <2> QED
    BY <1>3, <1>4, <1>8, <2>3 DEF ControlInv
<1>10. CASE LookSkill
  <2>1. UNCHANGED <<cyclePath, cur, involved>> /\ validator = "skills"
    BY <1>10 DEF LookSkill
  <2>2. lowlink' \in [Node -> Nat]
    BY <1>2, <1>10, <2>1, LookSkills DEF SearchInv, SkillsInv
  <2>3. CyclesTypes'
    BY <1>1, <1>2, <1>5, <1>8, <2>1, <2>2 DEF ControlInv, CyclesTypes
  <2> QED
    BY <1>3, <1>4, <1>8, <2>3 DEF ControlInv
<1>11. CASE LookAgent
  <2>1. UNCHANGED <<cyclePath, cur, lowlink>>
    BY <1>11 DEF LookAgent
  <2>2. involved' \subseteq Node
    <3>1. Nodes[from] \in Node
      BY <1>1, <1>2, Innermost DEF ControlInv, CallsNested
    <3> QED
      BY <1>2, <1>11, <3>1 DEF LookAgent, ControlInv, CyclesTypes
  <2>3. CyclesTypes'
    BY <1>1, <1>2, <1>5, <1>8, <2>1, <2>2 DEF ControlInv, CyclesTypes
  <2> QED
    BY <1>3, <1>4, <1>8, <2>3 DEF ControlInv
<1> QED
  BY <1>9, <1>10, <1>11

LEMMA LeaveControlled ==
    ASSUME SearchInv, LeaveHook \/ LeaveSkill \/ LeaveAgent PROVE ControlInv'
<1>1. /\ calls # <<>> /\ cyclePath = <<>> /\ calls' = SubSeq(calls, 1, Len(calls) - 1)
      /\ UNCHANGED <<graph, validator, from, looked, entered, parent, cyclePath, cur, index, counter, involved>>
  BY DEF LeaveHook, LeaveSkill, LeaveAgent, Searching
<1>2. ControlInv
  BY DEF SearchInv
<1>3. CallsNested' /\ LookedInto' /\ calls' \in Seq(Node)
  BY <1>1, <1>2, EndNested
<1>4. LoopDone'
  BY <1>1, <1>2 DEF LoopDone, ControlInv
<1>5. Here \in Node
  BY <1>1, <1>2, Innermost
<1>6. CASE LeaveHook
  <2>1. CyclesTypes'
    BY <1>1, <1>2, <1>3, <1>5, <1>6 DEF LeaveHook, ControlInv, CyclesTypes
  <2> QED
    BY <1>3, <1>4, <2>1 DEF ControlInv
<1>7. CASE LeaveSkill
  <2>1. UNCHANGED <<black, recStack>> /\ validator = "skills"
    BY <1>7 DEF LeaveSkill
  <2>2. Indexed /\ lowlink' \in [Node -> Nat]
    BY <1>2, <1>7, <2>1, LeavesSkill DEF SearchInv, SkillsInv
  <2>3. stack' \in Seq(Node) /\ sccs' \subseteq SUBSET Node
    <3>1. CASE lowlink[Here] = index[Here]
      <4>1. sccs \subseteq SUBSET Node
        BY <1>2 DEF ControlInv, CyclesTypes
      <4> QED
        BY <1>2, <1>7, <2>2, <3>1, <4>1, Popped
    <3>2. CASE lowlink[Here] # index[Here]
      BY <1>2, <1>7, <3>2 DEF LeaveSkill, ControlInv, CyclesTypes
    <3> QED
      BY <3>1, <3>2
  <2>4. CyclesTypes'
    BY <1>1, <1>2, <1>3, <2>1, <2>2, <2>3 DEF ControlInv, CyclesTypes
  <2> QED
    BY <1>3, <1>4, <2>4 DEF ControlInv
<1>8. CASE LeaveAgent
  <2>1. CyclesTypes'
    BY <1>1, <1>2, <1>3, <1>8 DEF LeaveAgent, ControlInv, CyclesTypes
  <2> QED
    BY <1>3, <1>4, <2>1 DEF ControlInv
<1> QED
  BY <1>6, <1>7, <1>8

LEMMA TraceControlled ==
    ASSUME SearchInv, TraceBack PROVE ControlInv'
<1>1. ControlInv /\ HooksInv /\ NotHooks
  BY DEF SearchInv
<1>2. /\ UNCHANGED <<graph, validator, looked, entered, parent, black, skills, chain>>
      /\ UNCHANGED <<from, calls>> \/ (calls' = <<>> /\ from' = Len(Nodes) + 1)
  BY DEF TraceBack
<1>3. cyclePath' \in Seq(Node) /\ cur' \in Node \cup {Null} /\ cyclePath' # <<>>
  BY <1>1, TraceHooks
<1>4. CallsNested'
  <2>1. CASE UNCHANGED <<from, calls>>
    BY <1>1, <1>2, <2>1 DEF ControlInv, CallsNested, Gray
  <2>2. CASE calls' = <<>>
    BY <2>2, StoppedNested
  <2> QED
    BY <1>2, <2>1, <2>2
<1>5. CyclesTypes'
  <2>1. from' \in 1..Len(Nodes) + 1 /\ calls' \in Seq(Node)
    <3>1. from \in 1..Len(Nodes) + 1 /\ calls \in Seq(Node)
      BY <1>1 DEF ControlInv, CyclesTypes
    <3>2. Len(Nodes) + 1 \in 1..Len(Nodes) + 1 /\ <<>> \in Seq(Node)
      BY NodesListed
    <3> QED
      BY <1>2, <3>1, <3>2
  <2> QED
    BY <1>1, <1>2, <1>3, <2>1 DEF ControlInv, CyclesTypes
<1>6. LookedInto' /\ LoopDone'
  BY <1>1, <1>2, <1>3 DEF ControlInv, LookedInto, LoopDone
<1> QED
  BY <1>4, <1>5, <1>6 DEF ControlInv

LEMMA StepControl == ASSUME SearchInv, CyclesNext PROVE ControlInv'
<1>1. ControlInv
  BY DEF SearchInv
<1>2. ASSUME SkipNode \/ CallRoot \/ Call PROVE ControlInv'
  BY <1>1, <1>2, SkipControl, RootControl, CallControl, ControlOf
<1> QED
  BY <1>2, LookControlled, LeaveControlled, TraceControlled DEF CyclesNext

LEMMA StepHooks == ASSUME SearchInv, CyclesNext PROVE HooksInv' /\ NotHooks'
<1>1. ControlInv /\ HooksInv /\ NotHooks /\ validator' = validator
  BY DEF SearchInv, CyclesNext, SkipNode, CallRoot, Call, LookHook, LeaveHook, TraceBack, LookSkill, LeaveSkill,
         LookAgent, LeaveAgent
<1>2. CASE validator = "hooks"
  <2>1. HooksInv'
    BY <1>1, <1>2, SkipHooks, RootHooks, CallHooks, LookHooks, LeaveHooks, TraceHooks
    DEF CyclesNext, LookSkill, LeaveSkill, LookAgent, LeaveAgent
  <2> QED
    BY <1>1, <1>2, <2>1 DEF NotHooks
<1>3. CASE validator # "hooks"
  <2>1. cyclePath = <<>> /\ ~TraceBack
    BY <1>1, <1>3 DEF NotHooks, TraceBack
  <2>2. cyclePath' = cyclePath
    BY <1>3, <2>1 DEF CyclesNext, SkipNode, CallRoot, Call, Enter, LookHook, LeaveHook, LookSkill, LeaveSkill,
         LookAgent, LeaveAgent
  <2> QED
    BY <1>1, <1>3, <2>1, <2>2 DEF NotHooks, HooksInv
<1> QED
  BY <1>2, <1>3

LEMMA StepChain == ASSUME SearchInv, CyclesNext PROVE ChainInv'
<1>1. ControlInv /\ ChainInv /\ NotHooks /\ validator' = validator
  BY DEF SearchInv, CyclesNext, SkipNode, CallRoot, Call, LookHook, LeaveHook, TraceBack, LookSkill, LeaveSkill,
         LookAgent, LeaveAgent
<1>2. CASE validator = "chain"
  <2>1. ~TraceBack
    BY <1>1, <1>2 DEF NotHooks, TraceBack
  <2> QED
    BY <1>1, <1>2, <2>1, SkipChain, RootChain, CallChain, LookChain, LeaveChain
    DEF CyclesNext, LookSkill, LeaveSkill, LookHook, LeaveHook
<1>3. CASE validator # "chain"
  BY <1>1, <1>3 DEF ChainInv
<1> QED
  BY <1>2, <1>3

LEMMA StepSkills == ASSUME SearchInv, CyclesNext PROVE SkillsInv'
<1>1. ControlInv /\ SkillsInv /\ NotHooks /\ validator' = validator
  BY DEF SearchInv, CyclesNext, SkipNode, CallRoot, Call, LookHook, LeaveHook, TraceBack, LookSkill, LeaveSkill,
         LookAgent, LeaveAgent
<1>2. CASE validator = "skills"
  <2>1. Indexed /\ Components /\ StackTied /\ LowlinksTied /\ LowlinksLow
    BY <1>1, <1>2 DEF SkillsInv
  <2>2. CASE SkipNode
    BY <1>1, <2>2, SkipSkills
  <2>3. CASE CallRoot \/ Call
    <3>1. PICK v \in Node : Entering(v)
      BY <1>1, <1>2, <2>3, EntersSkill
    <3> QED
      BY <1>1, <2>1, <3>1, EnterSkills DEF SkillsInv
  <2>4. CASE LookSkill
    BY <1>1, <2>1, <2>4, LookSkills DEF SkillsInv
  <2>5. CASE LeaveSkill
    BY <1>1, <2>1, <2>5, LeaveInner, LeaveRoot DEF SkillsInv
  <2>6. ~TraceBack
    BY <1>1, <1>2 DEF NotHooks, TraceBack
  <2> QED
    BY <1>2, <2>2, <2>3, <2>4, <2>5, <2>6 DEF CyclesNext, LookHook, LeaveHook, LookAgent, LeaveAgent
<1>3. CASE validator # "skills"
  BY <1>1, <1>3 DEF SkillsInv
<1> QED
  BY <1>2, <1>3

LEMMA NextSearch == SearchInv /\ [CyclesNext]_search => SearchInv'
<1>1. ASSUME SearchInv, CyclesNext PROVE SearchInv'
  BY <1>1, StepControl, StepHooks, StepChain, StepSkills DEF SearchInv
<1>2. ASSUME SearchInv, UNCHANGED search PROVE SearchInv'
  <2>1. /\ UNCHANGED <<graph, validator, from, calls, looked, entered, parent, black, cyclePath, cur>>
        /\ UNCHANGED <<index, lowlink, counter, stack, sccs, recStack, involved>>
    BY <1>2 DEF search
  <2>2. CyclesTypes'
    BY <1>2, <2>1 DEF SearchInv, ControlInv, CyclesTypes
  <2>6. CallsNested' /\ LookedInto' /\ LoopDone'
    BY <1>2, <2>1 DEF SearchInv, ControlInv, CallsNested, LookedInto, LoopDone, Gray
  <2>3. HooksInv' /\ NotHooks'
    BY <1>2, <2>1 DEF SearchInv, HooksInv, NotHooks, HooksSearch, HooksFound, ParentsCalled, Gray
  <2>4. ChainInv'
    BY <1>2, <2>1 DEF SearchInv, ChainInv, Gray
  <2>5. SkillsInv'
    BY <1>2, <2>1 DEF SearchInv, SkillsInv, Indexed, Components, StackTied, LowlinksTied, LowlinksLow, OnStack, Gray
  <2> QED
    BY <2>2, <2>3, <2>4, <2>5, <2>6 DEF SearchInv, ControlInv
<1> QED
  BY <1>1, <1>2

LEMMA AllEntered ==
    ASSUME ControlInv, SearchOver, cyclePath = <<>> PROVE entered = Node /\ Gray = {}
<1>1. calls = <<>> /\ \A k \in 1..Len(Nodes) : k \in 1..from - 1
  BY NodesListed DEF SearchOver, ControlInv, CyclesTypes
<1>2. \A k \in 1..Len(Nodes) : Nodes[k] \in entered
  BY <1>1 DEF ControlInv, LoopDone
<1>3. Node \subseteq entered
  BY <1>2, NodesListed DEF Node
<1>4. entered = Node
  BY <1>3 DEF ControlInv, CyclesTypes
<1>5. Gray = {}
  BY <1>1 DEF Gray
<1> QED
  BY <1>4, <1>5

LEMMA HooksAnswered ==
    ASSUME SearchInv, SearchOver, validator = "hooks" PROVE HooksRight
<1>1. CASE cyclePath = <<>>
  <2>1. entered = Node /\ Gray = {} /\ HooksSearch
    BY <1>1, AllEntered DEF SearchInv, HooksInv
  <2>2. ~Cyclic(graph)
    BY <2>1 DEF HooksSearch, Harmless, Cyclic
  <2> QED
    BY <1>1, <2>2 DEF HooksRight
<1>2. CASE cyclePath # <<>>
  <2>1. HooksFound /\ cyclePath \in Seq(Node)
    BY <1>2 DEF SearchInv, HooksInv, ControlInv, CyclesTypes
  <2>2. 1 \in DOMAIN cyclePath /\ cyclePath[1] \in Node
    BY <2>1 DEF HooksFound
  <2>3. Cyclic(graph)
    BY <2>1, <2>2 DEF HooksFound, Cyclic, OnCycle
  <2> QED
    BY <1>2, <2>1, <2>3 DEF HooksRight, HooksFound
<1> QED
  BY <1>1, <1>2

LEMMA ChainAnswered ==
    ASSUME SearchInv, SearchOver, validator = "chain" PROVE ChainRight
<1>1. ControlInv /\ ChainInv /\ cyclePath = <<>> /\ involved \subseteq Node
  BY DEF SearchInv, NotHooks, ControlInv, CyclesTypes
<1>2. entered = Node /\ Gray = {}
  BY <1>1, AllEntered
<1>3. \A n \in involved : LeadsToCycle(graph, n)
  BY <1>1 DEF ChainInv
<1>4. ASSUME involved = {} PROVE ~Cyclic(graph)
  BY <1>1, <1>2, <1>4 DEF ChainInv, Harmless, Cyclic
<1>5. ASSUME involved # {} PROVE Cyclic(graph)
  BY <1>3, <1>5 DEF LeadsToCycle, Cyclic
<1> QED
  BY <1>3, <1>4, <1>5 DEF ChainRight

LEMMA MoreThanOne ==
    ASSUME NEW S, Cardinality(S) > 1 PROVE \A a : \E b \in S : b # a
<1> SUFFICES ASSUME NEW a, \A b \in S : b = a PROVE FALSE
  OBVIOUS
<1>1. S = {} \/ S = {a}
  OBVIOUS
<1>2. Cardinality({}) = 0 /\ Cardinality({a}) = 1
  BY FS_EmptySet, FS_Singleton
<1> QED
  BY <1>1, <1>2

LEMMA SkillsAnswered ==
    ASSUME SearchInv, SearchOver, validator = "skills" PROVE SkillsRight
<1>1. ControlInv /\ Indexed /\ Components /\ StackTied /\ cyclePath = <<>>
  BY DEF SearchInv, SkillsInv, NotHooks
<1>2. entered = Node /\ Gray = {}
  BY <1>1, AllEntered
<1>3. \A n \in Node : ~OnStack(n)
  BY <1>1, <1>2 DEF StackTied
<1>4. UNION sccs = Node
  BY <1>1, <1>2, <1>3 DEF Indexed, ControlInv, CyclesTypes
<1>5. ASSUME NEW c \in sccs, NEW n \in c, NEW m \in c, m # n PROVE c = Mutual(graph, n)
  <2>1. n \in Node /\ c \subseteq Node
    BY <1>4
  <2>2. \A k \in Node : k \in c <=> Leads(graph, n, k) /\ Leads(graph, k, n)
    BY <1>1, <2>1 DEF Components
  <2>3. Reaches(graph, n, n)
    BY <1>5, <2>1, <2>2, ReachesOn DEF Leads
  <2>4. \A k \in Node : k \in c <=> Reaches(graph, n, k) /\ Reaches(graph, k, n)
    BY <2>2, <2>3 DEF Leads
  <2> QED
    BY <2>1, <2>4 DEF Mutual
<1>6. ASSUME NEW c \in sccs, Cardinality(c) > 1 PROVE \E n \in Node : c = Mutual(graph, n)
  <2>1. PICK n \in c : TRUE
    BY <1>6, MoreThanOne
  <2>2. PICK m \in c : m # n
    BY <1>6, MoreThanOne
  <2> QED
    BY <1>4, <1>5, <2>2
<1>7. ASSUME NEW n \in Node, Cardinality(Mutual(graph, n)) > 1 PROVE Mutual(graph, n) \in sccs
  <2>1. PICK m \in Mutual(graph, n) : m # n
    BY <1>7, MoreThanOne
  <2>2. PICK c \in sccs : n \in c
    BY <1>4
  <2>3. m \in c
    BY <1>1, <2>1, <2>2 DEF Components, Mutual, Leads
  <2> QED
    BY <1>5, <2>1, <2>2, <2>3
<1> QED
  BY <1>6, <1>7 DEF SkillsRight

(* With any nodes and graphs, the search between hooks reports a path      *)
(* exactly when there is a cycle and names only nodes of one cycle, the     *)
(* components of skills are the largest sets of skills that need each       *)
(* other, and a chain has an error exactly when it has a cycle, for agents  *)
(* that lead into one.                                                     *)
THEOREM CyclesFound == CyclesSpec => []CyclesReported
<1>1. SearchInv => CyclesReported
  BY HooksAnswered, SkillsAnswered, ChainAnswered DEF CyclesReported
<1> QED
  BY <1>1, InitSearch, NextSearch, PTL DEF CyclesSpec
=============================================================================
