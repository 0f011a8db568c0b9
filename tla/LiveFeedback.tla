---------------------------- MODULE LiveFeedback ----------------------------
(***************************************************************************)
(* The tools that validate again and again and keep a result on display:    *)
(* `bp dev` (cli/commands/dev.ts), its dashboard (dx/dev-server.ts),        *)
(* `bp verify --watch` (cli/commands/verify.ts) and the two language        *)
(* servers (lsp/index.ts and lsp/server.ts).                                *)
(*                                                                          *)
(* `text` is the version of the project's files, counted in changes.  A     *)
(* validation reads it at one moment, saves the cache later (of what it     *)
(* reads, and of the cache, see ValidationPipeline), and its result goes on *)
(* display when it ends.  Validations are awaited, so that timers, watchers *)
(* and requests come in between, and nothing makes them end in the order    *)
(* in which they began.                                                     *)
(*                                                                          *)
(* Left out: --fix, several paths on the command line, --json, a validation *)
(* that goes on after its timeout, a project without a .claude directory,   *)
(* and an open document outside of any project.                             *)
(***************************************************************************)
EXTENDS Integers

CONSTANTS
    Run,          \* places for validations under way; as many may overlap
    Nothing,      \* nothing on display yet, nothing read yet
    Blank,        \* a display without findings, which no validation found
    MaxEdits,     \* bound: changes of the files
    MaxRequests,  \* bound: requests of the dashboard, changes in the editor
    MaxFaults     \* bound: validations that throw or time out

ASSUME ConstantsAssumption ==
    /\ Run # {}
    /\ MaxEdits \in Nat /\ MaxRequests \in Nat /\ MaxFaults \in Nat
    /\ Nothing \notin Int /\ Blank \notin Int /\ Nothing # Blank

\* "dev" watches the whole project, as by default, "dev_narrow" the directory
\* given with --watch; "editor" is lsp/index.ts, "server" lsp/server.ts.
Dev == {"dev", "dev_narrow"}
Lsp == {"editor", "server"}
Tool == Dev \union Lsp \union {"dashboard", "verify"}

VARIABLES
    tool,       \* the program that runs
    text,       \* the version of the files
    dirty,      \* the editor holds a change that is not saved
    watching,   \* the watcher or the listener is set up
    notice,     \* the timer of the debounce is armed
    phase,      \* how far each validation is
    seen,       \* the version that each has read; kept when it ends
    shown,      \* what is on display
    lost,       \* history: since the files were last read, a change went
                \* unnoticed, a noticed one was dropped or a validation failed
    overtaken,  \* history: the result on display came after that of a newer read
    requests, faults

feedback == <<tool, text, dirty, watching, notice, phase, seen, shown, lost, overtaken, requests, faults>>

InFlight == {r \in Run : phase[r] # "idle"}

\* Every tool but `bp dev` awaits a first validation, or starts one when a document
\* is opened; the watchers of the dashboard and of verify are set up after it.
FeedbackInit ==
    /\ tool \in Tool
    /\ text = 0
    /\ dirty = FALSE
    /\ watching = (tool \in Dev \union Lsp)
    /\ notice = (tool \in Dev)
    /\ \E first \in Run :
           phase = [r \in Run |-> IF r = first /\ tool \notin Dev THEN "reading" ELSE "idle"]
    /\ seen = [r \in Run |-> Nothing]
    /\ shown = Nothing
    /\ lost = FALSE
    /\ overtaken = FALSE
    /\ requests = 0
    /\ faults = 0

\* A display at rest that nobody is going to disturb.
NoFeedback ==
    /\ tool = "editor" /\ watching = TRUE
    /\ text = MaxEdits /\ requests = MaxRequests
    /\ dirty = FALSE /\ notice = FALSE /\ lost = FALSE /\ overtaken = FALSE
    /\ phase = [r \in Run |-> "idle"]
    /\ seen = [r \in Run |-> Nothing]
    /\ shown = text
    /\ faults = 0

-----------------------------------------------------------------------------
\* Whether a change is seen by the watcher: dashboard and verify watch the
\* Markdown and JSON files of .claude, though more is validated than that.
Watched(inside) == tool = "dev" \/ (tool \notin Lsp /\ inside)

\* Mutant: a change seen while a validation is under way is not noted.
NoticedIfIdle(inside) == watching /\ Watched(inside) /\ InFlight = {}

\* onFileChange
Noticed(inside) == watching /\ Watched(inside)

\* Anyone changes a file, by any program but the open editor.
Edit(inside) ==
    /\ text < MaxEdits
    /\ text' = text + 1
    /\ notice' = (notice \/ Noticed(inside))
    /\ lost' = (lost \/ ~(watching /\ Watched(inside)))
    /\ UNCHANGED <<tool, dirty, watching, phase, seen, shown, overtaken, requests, faults>>

Begin(r) ==
    /\ phase[r] = "idle"
    /\ phase' = [phase EXCEPT ![r] = "reading"]
    /\ UNCHANGED <<tool, watching, seen, shown, overtaken, faults>>

\* Mutant: the flag is not looked at.
NeverValidating == FALSE

\* The flag of `bp dev`, which the others do not have.
isValidating == tool \in Dev /\ InFlight # {}

\* The timer fires, 300 ms after the last change.
Fire(r) ==
    /\ notice /\ ~isValidating
    /\ notice' = FALSE
    /\ Begin(r)
    /\ UNCHANGED <<text, dirty, lost, requests>>

\* `if (isValidating) return;`
FireDropped ==
    /\ notice /\ isValidating
    /\ notice' = FALSE
    /\ lost' = TRUE
    /\ UNCHANGED <<tool, text, dirty, watching, phase, seen, shown, overtaken, requests, faults>>

\* GET /api/validate
Request(r) ==
    /\ tool = "dashboard" /\ watching
    /\ requests < MaxRequests
    /\ requests' = requests + 1
    /\ Begin(r)
    /\ UNCHANGED <<text, dirty, notice, lost>>

\* onDidChangeContent: the document changes in the editor, and the files on disk
\* are validated at once.
Type(r) ==
    /\ tool \in Lsp
    /\ requests < MaxRequests
    /\ requests' = requests + 1
    /\ dirty' = TRUE
    /\ Begin(r)
    /\ UNCHANGED <<text, notice, lost>>

\* The editor saves, which the servers do not listen to.
Save ==
    /\ dirty /\ text < MaxEdits
    /\ text' = text + 1
    /\ dirty' = FALSE
    /\ lost' = TRUE
    /\ UNCHANGED <<tool, watching, notice, phase, seen, shown, overtaken, requests, faults>>

-----------------------------------------------------------------------------
Read(r) ==
    /\ phase[r] = "reading"
    /\ phase' = [phase EXCEPT ![r] = "read"]
    /\ seen' = [seen EXCEPT ![r] = text]
    /\ lost' = FALSE
    /\ UNCHANGED <<tool, text, dirty, watching, notice, shown, overtaken, requests, faults>>

\* Mutant: the cache is kept where every watcher looks.
EveryoneWatchesCache == tool \notin Lsp

\* .bp/cache.json is in the project and not among what `bp dev` ignores.
WatchesCache == tool = "dev"

\* Mutant: the cache is saved before the files are read.
SaveCacheFirst(r) ==
    /\ phase[r] \in {"reading", "read"}
    /\ phase' = [phase EXCEPT ![r] = "saved"]
    /\ notice' = (notice \/ WatchesCache)
    /\ UNCHANGED <<tool, text, dirty, watching, seen, shown, lost, overtaken, requests, faults>>

SaveCache(r) ==
    /\ phase[r] = "read"
    /\ phase' = [phase EXCEPT ![r] = "saved"]
    /\ notice' = (notice \/ WatchesCache)
    /\ UNCHANGED <<tool, text, dirty, watching, seen, shown, lost, overtaken, requests, faults>>

\* b is a version, and newer than whatever a is.
Newer(b, a) == b # Nothing /\ (a = Nothing \/ b > a)

\* The validation ends and its result is what the tool shows.  The first one
\* lets the dashboard and verify go on to watch.
Finish(r) ==
    /\ phase[r] = "saved"
    /\ phase' = [phase EXCEPT ![r] = "idle"]
    /\ shown' = seen[r]
    /\ overtaken' = \E q \in Run : Newer(seen[q], seen[r])
    /\ watching' = TRUE
    /\ UNCHANGED <<tool, text, dirty, notice, seen, lost, requests, faults>>

\* What is shown for a validation that throws: verify and lsp/index.ts leave the
\* display as it is, the others show that there is nothing to report.
Fallback == IF tool \in {"verify", "editor"} THEN shown ELSE Blank

Fail(r) ==
    /\ phase[r] # "idle"
    /\ faults < MaxFaults
    /\ faults' = faults + 1
    /\ phase' = [phase EXCEPT ![r] = "idle"]
    /\ shown' = Fallback
    /\ lost' = TRUE
    /\ watching' = TRUE
    /\ UNCHANGED <<tool, text, dirty, notice, seen, overtaken, requests>>

FeedbackNext ==
    \/ \E inside \in BOOLEAN : Edit(inside)
    \/ Save
    \/ FireDropped
    \/ \E r \in Run :
           \/ Fire(r) \/ Request(r) \/ Type(r)
           \/ Read(r) \/ SaveCache(r) \/ Finish(r) \/ Fail(r)

FeedbackSpec == FeedbackInit /\ [][FeedbackNext]_feedback

\* Timers fire, and a validation goes on to its end.
FeedbackFairness ==
    /\ WF_feedback(FireDropped \/ \E r \in Run : Fire(r))
    /\ \A r \in Run : WF_feedback(Read(r) \/ SaveCache(r) \/ Finish(r))

-----------------------------------------------------------------------------
\* Types; and no validation has a result before it has read the files (the
\* order of the pipeline that all tools call).
FeedbackTypes ==
    /\ tool \in Tool
    /\ text \in 0..MaxEdits
    /\ dirty \in BOOLEAN /\ watching \in BOOLEAN /\ notice \in BOOLEAN
    /\ lost \in BOOLEAN /\ overtaken \in BOOLEAN
    /\ phase \in [Run -> {"idle", "reading", "read", "saved"}]
    /\ seen \in [Run -> (0..text) \union {Nothing}]
    /\ \A r \in Run : phase[r] \in {"read", "saved"} => seen[r] # Nothing
    /\ shown \in (0..text) \union {Nothing, Blank}
    /\ requests \in 0..MaxRequests
    /\ faults \in 0..MaxFaults

\* No timer and no validation is pending.
Quiet == ~notice /\ InFlight = {}

\* A display at rest is out of date for one of three reasons only: an older
\* result came in last, the newest text went unread (unnoticed or dropped), or
\* a validation failed.  Everything else that the timers, the watchers, the requests
\* and the validations do in whatever order leads to the newest text on display.
RestsUpToDate == Quiet => shown = text \/ lost \/ overtaken

\* What `bp dev` comes to show is the newest text that it has read: its flag keeps
\* results from arriving out of order.  Dashboard, verify and the servers have no
\* such flag, and do not have this property.
ShowsNewestRead ==
    [][(tool \in Dev /\ shown' \notin {shown, Blank}) => (\A q \in Run : ~Newer(seen[q], shown'))]_feedback

\* ShowsTruth: at rest the newest text is on display but for the named reasons,
\* and `bp dev` never goes back to an older one (cli/commands/dev.ts:108).
ShowsTruth == []RestsUpToDate /\ ShowsNewestRead

\* Once nobody changes a file or asks, all tools but one come to rest: validations
\* do not set off validations.  The exception is `bp dev` with its default
\* directory, which sees its own cache being written.
ComesToRest == tool # "dev" => <>[]Quiet
=============================================================================
