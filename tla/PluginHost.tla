------------------------------ MODULE PluginHost ------------------------------
(***************************************************************************)
(* The plugin phase of a validation: DefaultPluginEngine.run                *)
(* (validator/default-wiring.ts), loadPlugins (plugins/loader.ts), the host *)
(* of worker threads (plugins/worker-host.ts) and what runs a plugin in the *)
(* worker or, in inline mode, in the bp process itself (worker-entry.ts,    *)
(* runner.ts).                                                              *)
(*                                                                          *)
(* A plugin is foreign code: it may load or not, report, throw, hang, exit, *)
(* run out of memory, throw later from a callback, or post a message of its *)
(* own.  What a worker sends arrives as events that race with the timer.    *)
(***************************************************************************)
EXTENDS Naturals, Sequences

CONSTANTS
    Plugins,     \* the plugins of .bp.json whose file is known, a sequence
    Missing,     \* artifact: entries that the lockfile does not have
    Requested,   \* the levels that a user may ask for
    None         \* no answer yet

Level == {"structural", "semantic", "logical", "enforcement"}

\* A plugin: whether its path is inside the project, how it runs, and the
\* levels of its validators, in order.
Plugin == [inside : BOOLEAN, mode : {"isolated", "inline"}, levels : Seq(Level)]

\* An outcome: its kind, the validators that reported an error, and whether a
\* validator has thrown.
Outcome == [kind : {"ok", "path-escape", "timeout", "load-error"},
            diags : SUBSET Nat, crash : BOOLEAN]

Failure(kind) == [kind |-> kind, diags |-> {}, crash |-> FALSE]

\* Events of a worker: its message, a message of the plugin's own, an uncaught
\* error, and the exit with code 0 or not.
Event == [type : {"message", "stray", "error", "exit", "failed exit"},
          body : Outcome \union {None}]

Signal(type) == [type |-> type, body |-> None]

ASSUME PluginAssumption ==
    /\ Plugins \in Seq(Plugin)
    /\ Requested \subseteq Level \union {"all", "drift", "governance"}
    /\ None \notin Outcome

VARIABLES
    phase,       \* where the plugin phase stands
    level,       \* the level of the validation
    outcomes,    \* the outcomes so far
    answer,      \* what the awaited plugin has come to, not yet recorded
    thread,      \* where each plugin's code stands
    ran,         \* the validators of a plugin that have returned
    diags,       \* the validators of a plugin that have reported an error
    inbox,       \* the events of a worker that the host has not seen yet
    settled,     \* `settled` of runPluginInWorker
    timer,       \* its timer is armed
    report       \* the diagnostics of the phase

host == <<phase, level, outcomes, answer, settled, timer, report>>
code == <<thread, ran, diags, inbox>>
vars == <<host, code>>

Index == 1 .. Len(Plugins)
Isolated(i) == Plugins[i].mode = "isolated"

\* activePluginLevels
Wanted == IF level = "all" THEN Level
          ELSE IF level \in Level THEN {"structural", level} ELSE {}

\* The validators of a plugin that the level asks for.
Active(i) == {v \in 1 .. Len(Plugins[i].levels) : Plugins[i].levels[v] \in Wanted}

\* Validators run one after the other.
NextUp(i, v) == v \in Active(i) \ ran[i] /\ \A w \in Active(i) : w < v => w \in ran[i]

\* The plugin whose outcome loadPlugins awaits.
Current(i) == phase = "load" /\ i = Len(outcomes) + 1 /\ i \in Index /\ answer = None

\* The plugin's code can still do something.
Alive(i) == phase = "load" /\ thread[i] \in {"loading", "checking", "stuck", "posted"}

Init ==
    /\ phase = "start" /\ level \in Requested
    /\ outcomes = <<>> /\ answer = None /\ report = {}
    /\ thread = [i \in Index |-> "off"]
    /\ ran = [i \in Index |-> {}] /\ diags = [i \in Index |-> {}]
    /\ inbox = [i \in Index |-> {}]
    /\ settled = [i \in Index |-> FALSE] /\ timer = [i \in Index |-> FALSE]

-----------------------------------------------------------------------------
(* The phase *)

FindingType == {"PLUGIN_ARTIFACT_NOT_FOUND", "PLUGIN_CONTEXT_UNAVAILABLE", "PLUGIN_PATH_ESCAPE",
                "PLUGIN_TIMEOUT", "PLUGIN_LOAD_ERROR", "PLUGIN_DIAGNOSTIC", "PLUGIN_CRASHED"}

\* A diagnostic of the phase: its type, the plugin (0: all of them) and, for a
\* plugin's own, the validator.
Finding(type, i, v) == [type |-> type, plugin |-> i, validator |-> v]

NotInstalled == {Finding("PLUGIN_ARTIFACT_NOT_FOUND", m, 0) : m \in Missing}

\* A structural failure, --no-plugins or a level without plugin validators: no
\* plugin is looked at.  Otherwise every artifact that is not installed is
\* reported, and the phase ends there when no other plugin is configured.
Start ==
    /\ phase = "start"
    /\ \/ phase' = "skipped" /\ UNCHANGED report
       \/ /\ Wanted # {}
          /\ report' = NotInstalled
          /\ phase' = IF Plugins = <<>> THEN "skipped" ELSE "parse"
    /\ UNCHANGED <<level, outcomes, answer, settled, timer, code>>

\* The blueprint is parsed for the plugins; if that fails, all are skipped with
\* a warning.  The file inventory leaves out what it cannot read.
Parse ==
    /\ phase = "parse"
    /\ \/ phase' = "load" /\ UNCHANGED report
       \/ /\ phase' = "skipped"
          /\ report' = report \union {Finding("PLUGIN_CONTEXT_UNAVAILABLE", 0, 0)}
    /\ UNCHANGED <<level, outcomes, answer, settled, timer, code>>

\* Mutant of Escape: the plugin is passed over.
EscapeSilently(i) ==
    /\ Current(i) /\ ~Plugins[i].inside
    /\ outcomes' = Append(outcomes, [kind |-> "ok", diags |-> {}, crash |-> FALSE])
    /\ UNCHANGED <<phase, level, answer, settled, timer, report, code>>

\* resolvePluginPath refuses a path that leaves the project.
Escape(i) ==
    /\ Current(i) /\ ~Plugins[i].inside
    /\ outcomes' = Append(outcomes, Failure("path-escape"))
    /\ UNCHANGED <<phase, level, answer, settled, timer, report, code>>

\* Mutant of Launch: the timer is not armed.
LaunchUntimed(i) ==
    /\ Current(i) /\ Plugins[i].inside /\ thread[i] = "off"
    /\ thread' = [thread EXCEPT ![i] = "loading"]
    /\ UNCHANGED <<phase, level, outcomes, answer, settled, timer, report, ran, diags, inbox>>

\* A worker is started under a timer; in inline mode the module is imported
\* right here and there is none.
Launch(i) ==
    /\ Current(i) /\ Plugins[i].inside /\ thread[i] = "off"
    /\ thread' = [thread EXCEPT ![i] = "loading"]
    /\ timer' = [timer EXCEPT ![i] = Isolated(i)]
    /\ UNCHANGED <<phase, level, outcomes, answer, settled, report, ran, diags, inbox>>

\* The await of runPlugin returns or throws and its outcome is recorded.
Record ==
    /\ phase = "load" /\ answer # None
    /\ outcomes' = Append(outcomes, answer)
    /\ answer' = None
    /\ UNCHANGED <<phase, level, settled, timer, report, code>>

\* pluginOutcomeErrors
Trouble(kind) == IF kind = "path-escape" THEN "PLUGIN_PATH_ESCAPE"
                 ELSE IF kind = "timeout" THEN "PLUGIN_TIMEOUT" ELSE "PLUGIN_LOAD_ERROR"

Errors(i, o) ==
    IF o.kind = "ok"
    THEN {Finding("PLUGIN_DIAGNOSTIC", i, v) : v \in o.diags} \union
         (IF o.crash THEN {Finding("PLUGIN_CRASHED", i, 0)} ELSE {})
    ELSE {Finding(Trouble(o.kind), i, 0)}

Finish ==
    /\ phase = "load" /\ answer = None /\ Len(outcomes) = Len(Plugins)
    /\ phase' = "done"
    /\ report' = report \union UNION {Errors(i, outcomes[i]) : i \in Index}
    /\ UNCHANGED <<level, outcomes, answer, settled, timer, code>>

-----------------------------------------------------------------------------
(* The plugin's code: executePluginModule *)

\* The result goes to the host as the worker's only message, or is returned.
Post(i, o) ==
    /\ thread' = [thread EXCEPT ![i] = "posted"]
    /\ \/ /\ Isolated(i)
          /\ inbox' = [inbox EXCEPT ![i] = @ \union {[type |-> "message", body |-> o]}]
          /\ UNCHANGED answer
       \/ /\ ~Isolated(i)
          /\ answer' = o
          /\ UNCHANGED inbox

\* The module is imported and its default export is a plugin, or not.
Load(i) ==
    /\ Alive(i) /\ thread[i] = "loading"
    /\ \/ /\ thread' = [thread EXCEPT ![i] = "checking"]
          /\ UNCHANGED <<answer, inbox>>
       \/ Post(i, Failure("load-error"))
    /\ UNCHANGED <<phase, level, outcomes, settled, timer, report, ran, diags>>

\* A validator runs, may report, and returns or never does.
Check(i) ==
    /\ Alive(i) /\ thread[i] = "checking"
    /\ \E v \in Active(i) :
          /\ NextUp(i, v)
          /\ \/ diags' = [diags EXCEPT ![i] = @ \union {v}]
             \/ UNCHANGED diags
          /\ \/ ran' = [ran EXCEPT ![i] = @ \union {v}] /\ UNCHANGED thread
             \/ thread' = [thread EXCEPT ![i] = "stuck"] /\ UNCHANGED ran
    /\ UNCHANGED <<host, inbox>>

\* Mutant of Throw: the diagnostics before the crash are lost.
ThrowAll(i) ==
    /\ Alive(i) /\ thread[i] = "checking"
    /\ \E v \in Active(i) : NextUp(i, v)
    /\ Post(i, [kind |-> "ok", diags |-> {}, crash |-> TRUE])
    /\ UNCHANGED <<phase, level, outcomes, settled, timer, report, ran, diags>>

\* A validator throws, having reported or not: the ones after it do not run, what
\* was reported is kept.
Throw(i) ==
    /\ Alive(i) /\ thread[i] = "checking"
    /\ \E v \in Active(i) :
          /\ NextUp(i, v)
          /\ \E d \in {diags[i], diags[i] \union {v}} :
                /\ diags' = [diags EXCEPT ![i] = d]
                /\ Post(i, [kind |-> "ok", diags |-> d, crash |-> TRUE])
    /\ UNCHANGED <<phase, level, outcomes, settled, timer, report, ran>>

\* All have returned.
Return(i) ==
    /\ Alive(i) /\ thread[i] = "checking" /\ ran[i] = Active(i)
    /\ Post(i, [kind |-> "ok", diags |-> diags[i], crash |-> FALSE])
    /\ UNCHANGED <<phase, level, outcomes, settled, timer, report, ran, diags>>

\* The plugin's process ends: process.exit, or a worker with nothing left to
\* wait for.  Inline code takes bp with it.
Exit(i) ==
    /\ Alive(i)
    /\ thread' = [thread EXCEPT ![i] = "gone"]
    /\ \/ /\ Isolated(i)
          /\ \E e \in {"exit", "failed exit"} :
                inbox' = [inbox EXCEPT ![i] = @ \union {Signal(e)}]
          /\ UNCHANGED phase
       \/ /\ ~Isolated(i)
          /\ phase' = "down"
          /\ UNCHANGED inbox
    /\ UNCHANGED <<level, outcomes, answer, settled, timer, report, ran, diags>>

\* An error that nothing catches, from a callback or for want of memory.  (The
\* exit that follows it in a worker finds the promise settled by the error.)
Break(i) ==
    /\ Alive(i)
    /\ thread' = [thread EXCEPT ![i] = "gone"]
    /\ \/ /\ Isolated(i)
          /\ inbox' = [inbox EXCEPT ![i] = @ \union {Signal("error")}]
          /\ UNCHANGED phase
       \/ /\ ~Isolated(i)
          /\ phase' = "down"
          /\ UNCHANGED inbox
    /\ UNCHANGED <<level, outcomes, answer, settled, timer, report, ran, diags>>

\* The plugin posts a message of its own on the worker's port.
Stray(i) ==
    /\ Alive(i) /\ Isolated(i)
    /\ inbox' = [inbox EXCEPT ![i] = @ \union {Signal("stray")}]
    /\ UNCHANGED <<host, thread, ran, diags>>

-----------------------------------------------------------------------------
(* The host of a worker: runPluginInWorker *)

\* Mutant of Settle: a late event settles the promise again.
SettleAgain(i, o) ==
    /\ settled' = [settled EXCEPT ![i] = TRUE]
    /\ timer' = [timer EXCEPT ![i] = FALSE]
    /\ answer' = o

\* finish: the first to come settles the promise and stops timer and worker.
Settle(i, o) ==
    \/ /\ ~settled[i]
       /\ settled' = [settled EXCEPT ![i] = TRUE]
       /\ timer' = [timer EXCEPT ![i] = FALSE]
       /\ answer' = o
    \/ /\ settled[i]
       /\ UNCHANGED <<settled, timer, answer>>

Take(i, e) == phase = "load" /\ e \in inbox[i] /\ inbox' = [inbox EXCEPT ![i] = @ \ {e}]

Message(i) ==
    /\ \E e \in inbox[i] : e.type = "message" /\ Take(i, e) /\ Settle(i, e.body)
    /\ UNCHANGED <<phase, level, outcomes, report, thread, ran, diags>>

\* A message of another shape.  Of an object the listener reads msg.error.message,
\* which it has not, once finish has stopped timer and worker, and not at all if
\* the promise is settled; of null it cannot even read msg.ok.  Nothing catches an
\* exception of a listener: the process ends.
StrayMessage(i) ==
    /\ Take(i, Signal("stray"))
    /\ \/ settled[i] /\ UNCHANGED <<phase, settled, timer>>
       \/ /\ ~settled[i]
          /\ settled' = [settled EXCEPT ![i] = TRUE]
          /\ timer' = [timer EXCEPT ![i] = FALSE]
          /\ phase' = "down"
       \/ phase' = "down" /\ UNCHANGED <<settled, timer>>
    /\ UNCHANGED <<level, outcomes, answer, report, thread, ran, diags>>

ErrorEvent(i) ==
    /\ Take(i, Signal("error"))
    /\ Settle(i, Failure("load-error"))
    /\ UNCHANGED <<phase, level, outcomes, report, thread, ran, diags>>

\* Mutant of ExitEvent: any exit without a message counts as a clean run.
ExitEventClean(i) ==
    /\ \E e \in inbox[i] : Take(i, e)
    /\ \A e \in inbox[i] : e.type \in {"exit", "failed exit"}
    /\ Settle(i, [kind |-> "ok", diags |-> {}, crash |-> FALSE])
    /\ UNCHANGED <<phase, level, outcomes, report, thread, ran, diags>>

\* The exit comes after everything that the worker has sent; a clean one without
\* a message settles nothing and leaves the rest to the timer.
ExitEvent(i) ==
    /\ \A e \in inbox[i] : e.type \in {"exit", "failed exit"}
    /\ \E e \in inbox[i] :
          /\ Take(i, e)
          /\ \/ e.type = "failed exit" /\ Settle(i, Failure("load-error"))
             \/ e.type = "exit" /\ UNCHANGED <<settled, timer, answer>>
    /\ UNCHANGED <<phase, level, outcomes, report, thread, ran, diags>>

Timeout(i) ==
    /\ phase = "load" /\ timer[i]
    /\ Settle(i, Failure("timeout"))
    /\ UNCHANGED <<phase, level, outcomes, report, code>>

\* worker.terminate() is not awaited: the worker goes on for a while, and its
\* exit finds the promise settled.
Terminated(i) ==
    /\ Alive(i) /\ settled[i]
    /\ thread' = [thread EXCEPT ![i] = "gone"]
    /\ UNCHANGED <<host, ran, diags, inbox>>

-----------------------------------------------------------------------------
HostStep(i) ==
    \/ Escape(i) \/ Launch(i) \/ Message(i) \/ StrayMessage(i) \/ ErrorEvent(i)
    \/ ExitEvent(i) \/ Timeout(i)

CodeStep(i) ==
    \/ Load(i) \/ Check(i) \/ Throw(i) \/ Return(i) \/ Exit(i) \/ Break(i) \/ Stray(i)
    \/ Terminated(i)

Next ==
    \/ Start \/ Parse \/ Record \/ Finish
    \/ \E i \in Index : HostStep(i) \/ CodeStep(i)

Spec == Init /\ [][Next]_vars

\* The host's event loop goes on, and time passes; of a plugin nothing is known.
FairSpec ==
    /\ Spec
    /\ WF_vars(Start \/ Parse \/ Record \/ Finish)
    /\ \A i \in Index : WF_vars(Escape(i) \/ Launch(i)) /\ WF_vars(Timeout(i))

-----------------------------------------------------------------------------
(* Properties *)

Phases == {"start", "parse", "load", "done", "skipped", "down"}

\* Every variable keeps its shape.
TypeOK ==
    /\ phase \in Phases /\ level \in Requested
    /\ outcomes \in Seq(Outcome) /\ Len(outcomes) <= Len(Plugins)
    /\ answer \in Outcome \union {None}
    /\ thread \in [Index -> {"off", "loading", "checking", "stuck", "posted", "gone"}]
    /\ ran \in [Index -> SUBSET Nat] /\ diags \in [Index -> SUBSET Nat]
    /\ inbox \in [Index -> SUBSET Event]
    /\ settled \in [Index -> BOOLEAN] /\ timer \in [Index -> BOOLEAN]
    /\ report \subseteq [type : FindingType, plugin : Index \union Missing \union {0}, validator : Nat]

\* An outcome says what its plugin did: a clean one that all validators of the
\* level have returned, a crash that one did not, both with every diagnostic
\* that was reported; late events of other workers never get in.
Honest ==
    \A i \in 1 .. Len(outcomes) :
        outcomes[i].kind = "ok" =>
            /\ outcomes[i].diags = diags[i]
            /\ outcomes[i].crash <=> ran[i] # Active(i)

\* A phase that reports nothing of a plugin has run every one of its validators
\* that the level asks for, and none of them had anything to report.
CleanMeansChecked ==
    phase = "done" =>
        \A i \in Index : (\A f \in report : f.plugin # i) => ran[i] = Active(i) /\ diags[i] = {}

\* VerdictHonest: an outcome says what its plugin did, and silence about a plugin
\* means that all of it was checked (plugins/loader.ts, plugins/worker-host.ts).
VerdictHonest == Honest /\ CleanMeansChecked

\* IsolatedContained: the process goes down only by inline code, which runs in it.
\* docs/plugin-api.md:17 says it of the isolated plugins, which are all others:
\* "A misbehaving plugin never takes down the run".
IsolatedContained ==
    phase = "down" => \E i \in Index : ~Isolated(i) /\ thread[i] # "off"

\* What the configuration lets an outcome be.
Possible(p) == {o \in [kind : {"ok", "path-escape", "timeout", "load-error"},
                       diags : SUBSET (1 .. Len(p.levels)), crash : BOOLEAN] :
                  /\ o.kind = "path-escape" <=> ~p.inside
                  /\ o.kind = "timeout" => p.mode = "isolated"
                  /\ o.kind # "ok" => o.diags = {} /\ ~o.crash}

\* The phase as the promise sees it.
Standing == IF phase = "down" THEN "lost"
            ELSE IF phase = "skipped" THEN "skipped" ELSE "running"

Promise == INSTANCE PluginReport WITH
    Outcomes <- Possible, reports <- outcomes, state <- Standing

\* The plugin phase keeps the promise of PluginReport: one outcome for each
\* plugin, in order, of a kind that its configuration allows.
OneOutcomeEach == Promise!Spec

\* No isolated plugin, whatever it does, keeps the phase from ending; inline
\* code may hold the process for ever.
InlineHolds == \E i \in Index : Current(i) /\ ~Isolated(i) /\ thread[i] # "off"

PhaseEnds == []<>(phase \in {"done", "skipped", "down"} \/ InlineHolds)
=============================================================================
