# A TLA+ model of open-blueprint (`bp`)

`bp` prepares a repository for AI coding tools: it detects what the project is,
writes governance files (rules, skills, agents, hooks) for one or more of 31
tools, validates them at six levels, tracks what it has written, installs signed
packs and plugins, and translates everything through one representation. It is
a command-line program: a process is started, reads and writes files of the
project, and ends. Nothing locks those files. Several such processes may work
in one project at once (two shells, a CI job, an editor's language server, the
dev server, `verify --watch`), a user edits the same files meanwhile, and any
of them can be killed between two writes. What is hard in this code is
therefore less in its functions than in what lies between them, and this is
what the modules here are about.

## The system: inventory

| component | state it keeps | operations | what is hard | what makes it correct |
|---|---|---|---|---|
| Rule and skill packs (`packs/`, `templater/merger.ts`, `validator/pack-integrity.ts`) | the generated files; `.bp/packs.lock.json` (entries with a hash per file) | install, forced install, upgrade, remove, integrity audit | check-then-write on shared files; read-modify-write of the lockfile; kills between file and lock writes; user edits and `bp:preserve` blocks | a command touches only its own pack's files; a remove deletes only what it judged unedited, or nothing; the entry committed describes the disk; preserve blocks survive |
| Validation pipeline (`validator/index.ts`, `cache.ts`, `levels/`) | `.bp/cache.json` (mtime, hash and findings per file) | triage, file-scoped levels, global levels, cache update, timeout | one cache for all levels and scan modes; stat, read and hash at different times; overlapping runs; a run that goes on after its timeout | what is served from the cache is what a fresh run would find; every caller is answered |
| Artifacts (`registry/`) | the host's `index.json`, `index.sig` and artifacts; `~/.bp/trust.json`; `.bp/plugins/<id>`; the lockfile | publish, build and sign the index, trust add and remove, install by URL or by id | the host's files change one by one; the keyring is read twice; staging directories and renames; kills and file errors | only verified artifacts are installed; an entry records the decision about its own artifact; no directory mixes two artifacts; an id resolves only through a signed index |
| Plugins (`plugins/`, `validator/default-wiring.ts`) | per run: worker threads, their messages, timers | run the configured plugins in workers or in process | foreign code that hangs, throws, exits, speaks late; late events against the next plugin | one outcome for each plugin, in order; outcomes are truthful; the phase ends |
| Ownership (`templater/manifest.ts`, `cli/orchestrators/init.ts`, `cli/commands/{init,adopt,emit,sync}.ts`, `validator/drift.ts`) | `.bp/manifest.json`, `.bp/fingerprint.json`, `.bp.json` | init, adopt, emit, drift check, sync | read-modify-write of the manifest; partial failure of one backend | a modified file is never overwritten without `--force`; the manifest describes what `bp` wrote |
| Merge (`blueprint-sync/`, `ecosystem/`) | none | diff, three-way merge, inheritance | cases of base, ours and theirs | a change of one side is kept, a conflict is never lost silently |
| Editor feedback (`lsp/`, `dx/dev-server.ts`, `cli/commands/verify.ts`) | published diagnostics, the dashboard's state | validate on change, on a timer, on request | answers that arrive out of order | what is shown is at last what the newest text deserves |
| Ownership: drift (`validator/drift.ts`, `cli/commands/sync.ts`) | `.bp-fingerprint.json` | drift analysis, fixes | the baseline is stored by three commands at different moments | what `init` would rewrite does not go stale unseen |
| Translator (`translator/`, `cli/commands/convert.ts`) | the governance files of each of 31 tools, some of them in shared directories | convert, fidelity report | chains of lossy conversions; adapters whose two halves disagree; shared directories | losses are foreseen; what the target can hold arrives; other tools keep what they read |
| Enforcement (`validator/enforcement.ts`, `validator/checks/`) | none | evaluation of declarative checks | composites that short-circuit over "cannot be asked"; limits on files and bytes; a repository that changes between reads | a definite verdict is the truth; counts, outcomes and findings agree |
| Governance (`validator/levels/governance.ts` and the validators it calls, `validator/logical.ts`, `validator/compliance.ts`) | none | findings with resolutions, compliance report | resolutions written one layer at a time | first advice leads to a clean report |
| Multi-agent and cycles (`multiagent/`, `validator/hook.ts`, `validator/logical.ts`) | the memory directory | searches for cycles, memory cleanup and audit | three searches by hand; files that agents write while they are removed | a cycle is reported; cleanup and audit agree on what has expired |
| Detector, reports, security, observability, configuration, legacy marketplace, CLI | none beyond their files | classification, printing | content rather than control | see PROJECT.json, which says of each why it is not modelled |

How they interact: `init` and `adopt` call the templater, which calls the
detector's fingerprint and the writer (the merger inside it keeps preserve
blocks). Pack installs call the same templater, so that `packs/` and
`templater/` share the files and `packs/` and `registry/` share the lockfile.
`verify`, the language server and the dev server call the same validation
pipeline, which calls the levels, the pack integrity check and, last, the plugin
phase; the plugin phase resolves `artifact:<id>` through the lockfile to the
directories that the artifact installer swaps. The levels include enforcement,
governance and drift; drift compares the fingerprint that `init` and `sync` store with the
one the detector finds. `convert`, `emit` and `merge` go through the translator's one
representation.

## The modules

| module | what it is |
|---|---|
| `PackLifecycle` | pack install, upgrade and remove, step by step, with the user and kills |
| `ValidationPipeline` | validations that share the cache file |
| `ArtifactInstall` | publishers, the host, the keyring and installing processes |
| `PluginHost` | the plugin phase of one validation |
| `ThreeWayMerge` | `bp merge` of three blueprints |
| `LiveFeedback` | the tools that validate again and again and keep a result on display |
| `PluginReport` | the promise that `PluginHost` refines: one outcome for each plugin |
| `Translation` | `bp convert` between the tools, by what each adapter reads and writes |
| `Ownership` | `init`, `emit`, `adopt` and `sync` in several processes, step by step; it extends `Drift` and `Templates` |
| `Drift` | the drift analysis as a function of what was stored, detected and measured |
| `Templates` | which templates are rendered for a project |
| `Fingerprints` | the projects and their facts, shared by the last three |
| `Enforcement` | the evaluation of the checks of rules |
| `Governance` | the findings in a document, and an author who follows their resolutions |
| `Cycles` | the three searches for cycles, and what they must answer |
| `Memory` | cleanup and audit of the memory directory |
| `Levels` | the composition of the last four and `LiveFeedback`, one of them per behaviour |
| `Blueprints` | the composition of `Translation` and `ThreeWayMerge`, one of them per behaviour |
| `MC...` | the small instances that TLC checks |
| `...Proofs` | the theorems of the module they extend |

In each module one action is one step between two points at which another process,
the user, a kill or an event can come in between; what the code does in one go is
one action. Operators whose name begins as another's and that are
commented "Mutant" are plausible bugs of the definition that follows them;
PROJECT.json pairs each with the property that it breaks.

### PackLifecycle

A *path* is the generated file of one pack item. `disk` maps it to a content:
the owning pack that the frontmatter names, the text of the governed part (a
version's, or edited), and whether a preserve block stands after or inside the
generated part. `lock` is the lockfile. Each process has a `pc`, a job, the files
still to visit, what it last read (`view`), its draft and the lockfile as it read it
(`snap`). `InstallStart` ... `InstallSave` follow `installPackToProject` over
`writeFile` of the templater: the ownership check reads a file, the writer reads
it again and merges, the recording reads it a third time, and the lockfile is
loaded and saved at the end. `RemoveStart` ... `RemoveSave` follow `removePack`,
which loads the lockfile first and saves it last. The user edits, types
preserve blocks, replaces and deletes files and the lockfile; `Crash` may leave
the file that is being written truncated.

`pack_solo` lets commands and edits happen one at a time (`Interleave = FALSE`),
which is how the documentation thinks of them: what it finds needs no
concurrency. `pack_interleaved` lets two processes and the user interleave at every
step. Checked in both: `LockSound`, which is that the lockfile tracks only the
pack's own files (`LockTracksOwn`) and that an unforced remove deletes only what it
judged unedited (`RemoveJudgesOwn`). With one command at a time also
`ForeignUntouched`, `TailPreserveSurvives`, `NoPartialRefusal` and `EntriesFaithful`
(which contains `LockSound`, and says that the entry committed describes the disk and
that the others are kept); interleaved, `CommandsEnd` under weak fairness of
each process.

Known disagreements of code and documentation:

- `EditStaysFlagged`: a second install without `--force` records the hash of
  whatever is on disk, so that an edit stops being flagged
  (`packs/materialize.ts:316`, while `docs/rule-packs.md:128` says "Any other edit is
  flagged as `PACK_FILE_MODIFIED`").
- This one, `EveryPreserveSurvives`, `RemoveLeavesNoFile` and `LockAlwaysParses` are in the
  module without a run, as the code does not keep them. A preserve block typed *inside* the generated part is
  lost on a forced install; an upgrade that drops an item leaves its file behind; a kill
  in the middle of the save leaves a lockfile that does not parse. To see one, add
  its name to `PackSolo.cfg`.
- The second half of `EntriesFaithful` (`OtherEntriesKept`) fails when added to an interleaved configuration with two
  packs: the lockfile's read-modify-write loses the other process's entry.

### ValidationPipeline

`disk` and `stamp` are the files and their modification times, `project` the project's
other files that scopes may match, `cache` the cache
file. A run goes through load, triage (stat, then hash), the structural and the
semantic level, the update of the cache (stat, then hash), the two halves of the
save, and the global phase. `Timeout` answers the caller and leaves the run going,
as `Promise.race` does. A text is of one of a few kinds: structurally broken, an
entropy secret, semantically vague, naming a skill file, or with a scope.

- `validation_quiet`: files change only between validations, which otherwise
  overlap freely, are killed and time out; a rule may cite a skill and has a scope, and the one
  file in it comes, goes or cannot be read. `StructuralTruth`:
  a run reports exactly the structural findings in its own scan mode.
  `SemanticTruth`: nothing semantic is invented, unless what is served is of a text that
  cites skills or has a scope, and what a run validates itself is reported in full.
- `validation_interleaved`: files change at any point. `StampedHash` is what the
  code relies on when it serves an entry on its time alone; it rests on the order
  stat, then hash. `Answered`: each caller is answered without the timer, whatever
  comes, goes or changes between a run's steps and whatever other runs do to the cache.
- `validation_short_circuit` (a violation): structural errors that come from the
  cache do not count as a structural failure, so that the second run on unchanged
  files runs the levels that the first one skipped
  (`validator/index.ts:193`, `docs/concepts.md:140`).

Not true, and therefore not claimed: what is served from the cache need not be
complete, nor still so. A run of the level `structural` caches an entry without semantic
findings, and the next run of all levels serves it and reports none. And a finding may depend
on files other than the one whose hash is the key (`validator/semantic.ts:54` and `:149`): a
rule that cites a missing skill, or whose scope matches nothing, goes on being reported after
the skill or the file has been written, and one whose skill or only match is deleted goes on
passing. The attempt to prove
`SemanticTruth` for any texts showed the first of these.
`StructuralTruth` fails with `Interleave = TRUE`: the level reads the file before
the update hashes it, and a change in between is cached with the old findings.

### ArtifactInstall

The host's index, its signature and its artifacts are replaced one by one by
publishers; a process that installs fetches them one by one, verifies, decides
by the keyring (read twice), stages, removes the old directory, renames and saves
the lockfile. `Kill` and `FileError` may come at any step. An artifact is
described by id, version, kind, who signed it, whether its payload matches its
digest, whether its pack document is valid, and its files; `MCArtifactInstall` has
six: two good releases, an unsigned and a damaged one, a rule pack that takes
over a plugin's id, and an unsigned one whose document disagrees with its manifest.
The run `artifact_install` checks `OnlyVetted` (what gets into the project was verified, named
by a signed index where it came through one, and recorded as what it is), `NeverMixed`
and `SwapClean` (no staging directory is left behind, and the directories are what the
lockfile says).

What is *not* true: a kill between the removal of the old plugin directory and the
rename leaves it half removed while the lockfile still lists it
(`registry/install.ts:273`; the comment at line 263 speaks only of half-written
ones). `trust add` and `trust remove` are read-modify-write and lose each other's
change (`registry/trust.ts:97`). "Verified" means signed by a key that the process
read in the keyring.

### PluginHost and PluginReport

`phase` follows `DefaultPluginEngine.run`: start, parse, load, then done or
skipped; "down" is the loss of the process, to inline code or to a stray message of an
isolated plugin. In phase load, `outcomes`
grows as `loadPlugins` goes through the plugins and awaits each. `thread` is where
a plugin's code stands (`executePluginModule`, in a worker or in process), `inbox`
what its worker has sent and the host not yet seen, `settled` and `timer` those of
`runPluginInWorker`. The code of a plugin is free: it may fail to load, report or
not, return, throw, hang, exit with or without an error, break from a callback,
or post a message of its own. `worker.terminate()` is not awaited, so a worker goes
on for a while after its host has given up.

`plugin_host` has two isolated plugins (the later one has no validator at the
level asked for), one whose path leaves the project, an inline one, and an artifact that is not installed. `VerdictHonest`:
an outcome tells what its own plugin did (`Honest`), and nothing
reported of a plugin means that all of it ran (`CleanMeansChecked`). `OneOutcomeEach`: the phase refines
`PluginReport` (the outcomes are its reports; a lost process and skipped plugins
are states of it). `PhaseEnds` is the liveness property: the phase ends unless
inline code holds the process.

`docs/plugin-api.md:17` says that a misbehaving plugin never takes down the run.
The violation run `plugin_stray` states it of isolated plugins (`IsolatedContained`: the process
goes down only by inline code), and one that posts a message of its own on the worker's port
refutes it: the listener reads `msg.error.message` of a message that has none
(`plugins/worker-host.ts:88`), and nothing catches the exception. Inline plugins may take the run down by design.

### ThreeWayMerge

A blueprint maps its keys (fields of the spatial anchor; personas, rules and skills
under layer and name) to contents that are compared and never looked into.
`MergeAnchor` and `MergeItem` are one pass of the loops of `threeWayMerge` and
`mergeArrayLayer`, in any order of the items; `RemoveGone` is the second pass that takes
out what either side removed; `WriteResult`, `WriteFails` and `Report` are the command. The run
`blueprints`, which it shares with `Translation`, checks every base, ours and theirs over one field and two items: the count of
applied changes is right (`AppliedCounts`), and `MergeFaithful`: the result has no
change that neither side made (`NoForeignChange`, in terms of the differ), and a clean
merge has what either side alone did to an item (`CleanTakesBoth`).

With `--strategy ours` all conflicts are resolved, yet the command fails of
"unresolved" ones and advises `--strategy ours` (`blueprint-sync/merge.ts:110`,
`cli/commands/merge.ts:52` and `:78`): `ResolvedMergeSucceeds` states the contrary and is in the module
without a run. Also not true, each seen with TLC as an invariant of the same instance:

- a change of an item that both sides made *alike* is lost: the comment says "already in
  merged" (`merge.ts:201`), but `merged` is a clone of the base. The merge is clean;
- a change of the anchor that only theirs made is lost (`merge.ts:63` goes through
  ours alone), also in a clean merge;
- an item that one side removed and the other changed is removed without a conflict,
  though the comment speaks of "the other didn't change it" (`merge.ts:224`);
- an item that one side alone changed is a conflict, though the comment says "Both
  changed" (`merge.ts:151`): the base is not looked at;
- `--output` is written before the conflicts are looked at, so a merge that fails
  has replaced the file.

### LiveFeedback

`tool` is one of six programs: `bp dev` on its default directory and on one given
with `--watch`, its dashboard, `verify --watch`, and the two language servers. `text` counts
the changes of the project's files, `notice` is the timer of the debounce, `phase`
and `seen` are the validations under way and what each has read, `shown` is what is
on display. `Edit`, `Save`, `Request` and `Type` come from outside; `Fire` and
`FireDropped` are the timer; `Read`, `SaveCache`, `Finish` and `Fail` are a validation.
Two history variables record why a display may be behind: `lost` (a change went
unnoticed or was dropped, or a validation failed, and the files have not been read
since) and `overtaken` (the last result to come in was not that of the newest read).

The run `levels` checks `ShowsTruth`: there are no other reasons (`RestsUpToDate`), and `bp dev`
never goes back to an older text (`ShowsNewestRead`); and that all tools but
`bp dev` on its default directory come to rest (`ComesToRest`). Each reason
does occur, and each of these was seen with TLC as an invariant or property of the same
instance:

- `bp dev` watches its own `.bp/cache.json`, which each validation writes: it validates for
  ever (`cli/commands/dev.ts:163`);
- `bp dev` drops a change whose timer fires while it validates
  (`dev.ts:108`): it can rest with the old result on display;
- an older result replaces a newer one: verify, dashboard and both servers;
- a validation that throws leaves "passing" on the dashboard (`dx/dev-server.ts:65`) and "No
  issues found" in `bp dev` (`dev.ts:59`); `verify --watch` prints nothing at all, since
  only the spinner would tell (`verify.ts:330`);
- the servers validate the files on disk whenever the *editor's* text changes, and do nothing
  when it is saved, although the comment at `lsp/index.ts:44` speaks of `didSave`: what is
  shown lags behind by one save;
- a change during the first validation of dashboard or verify can go unnoticed, as the watcher
  is set up after it; and so does any change outside of `.claude` that is validated.

### Translation

The state is the project's files as the tools read them: skill files by directory and by
file form (`SKILL.md`-like or prompt-like), rule files, the position file of each tool, the
persona, the other parts, and the command files. What an adapter keeps is
a pair of records, `ClaudeParse` and `ClaudeRender` and so on for all 31 tools: the directory, the
fields of a skill, how its texts and a rule's scope are put into front matter (`dumped` by
js-yaml, `quoted` between double quotes, or `raw`), the severity a rule without one gets,
whether the position file is rewritten or passed on, how many headings are put round a
procedure. A text is one of six kinds, by what YAML makes of it (`Yaml`): written raw, a
text with a colon or a leading asterisk makes the file unreadable and a comment sign cuts it
short; between quotes, a quote makes it unreadable. A reader skips a file that it cannot
parse, and fills in a missing scope with an asterisk pattern. `Write` is a
blueprint written by hand, `Convert` is `bp convert` with the delivery mode and the
workflows of `backend_configs`; it does nothing when what was read does not conform to the
schema. A skill file also carries what its author gave it and which tools it came through,
for the properties.

`blueprints` converts between one tool of each kind of adapter. `LossesForeseen`: whatever
chain a skill has gone through and whichever tool reads it, what is missing, cut or changed,
and that its file can no longer be read, was foreseen by the fidelity report (`bp skill
test`) of some tool of the chain on the author's skill. `Arrives`: what the target can hold it
reads after the conversion, unless one of its texts is of a kind that the target's adapter
writes in a way YAML does not take. `OthersUntouched`: a conversion changes nothing for
the other tools, the three that share `rules/` and `skills/` of the project root among
themselves apart.

`translation_defaults` is a violation run. docs/api/translator.md:71 calls a round trip lossless
for fields present in both formats; `RulesArrive` asks that of rules, and a rule that leaves
its scope to the reader refutes it: the default `**/*` is written as `scope: **/*` by six
adapters, YAML takes it for an alias, and the target skips the file.

Seen while modelling, and not stated as properties:

- a conversion deletes nothing, so a skill that is gone from the source stays with the target,
  and one skill may come to stand in two files of different forms;
- `MarkdownAdapter` reads rules from `.bp-rules`, which no adapter writes;
- every adapter drops a rule's `check`, and converting from a tool without a position file
  empties the target's;
- `commands_only` sets `skills := []` before the target renders, so it delivers no skill commands
  either;
- the schema limits the position file's text to 512 characters (`ir.ts:8`, `surface`), so a
  blueprint with a longer one is refused by `bp convert`; Kiro's adapter puts headings round the
  text, so a converted blueprint can be refused later on;
- for rules there is no fidelity report: what a conversion loses of them shows nowhere;
- the contract at `translator/adapter.ts:30` ("must respect `bp:preserve` blocks") is not kept:
  the adapters write their files whole.

### Ownership, Drift, Templates

A file is described by who wrote its generated part (the project it was rendered for, `emit`
or the author), whether it has `bp-generated` markers, and the author's text outside
all blocks, in preserve blocks, and in preserve blocks nested in a generated one. `mergeContent`,
`wrapPreserve`, `writeFileImpl`, `classifyFile` and the rest translate the functions of
those names. A process runs one command at a time and goes through `next`, `write`,
`load`, `record` as the code does: every template is read and merged (`Read`, `Write`), the
fingerprint stored, the manifest loaded, the files read back and recorded, the manifest
saved. `adopt` loads the manifest before it reads any file. `sync` detects, analyses
(`Drift!validateDrift`), asks and stores. The author edits and deletes, the project changes, any
command may be killed at any step.

`ownership` has two processes, a rule with markers and a skill without. `PreserveKept`: text in a
preserve block outlives every command, `--force` included, in every interleaving, if no write
of its file was under way when it was put there. `ManagedIsOurs`: a file that counts as managed holds
no text of the author's outside preserve blocks but what was handed to `adopt` or `emit`, or
written between a command's write and its reading back. `DriftSeen`: between commands, a file that
the last ended `init` rendered and that no longer fits the project is reported as drift until `sync`
has taken the new project for granted. `RecordsKept`: without overlapping commands no record is lost.

Seen while modelling:

- two commands at a time do lose each other's records (the reason for `overlap` in `RecordsKept`);
- a kill between the writes and the save leaves files that a retry skips as identical: they are never
  recorded;
- a preserve block nested in a generated block is dropped by the next `init`, as is text outside of all
  blocks in a file with markers, although `docs/concepts.md:133` and `docs/philosophy.md:36` promise
  that preserve blocks are retained; `docs/skill-authoring.md:34` closes one with `<!-- /bp:preserve -->`, which
  the merger does not recognise;
- templates that are no longer rendered leave their files behind, and as the analysis compares the project
  with the last fingerprint only, such a file may go stale unreported (`DriftSeen` is about the files of
  the last `init` for that reason); the risk tier's templates replace others
  by base name, not by path;
- all that a drift fix ever does is to store the fingerprint. "Fixing" `TEST_COMMAND_DRIFT`
  touches no CLAUDE.md; `sync` counts at most one fix and yet compares the number of findings with
  the number of fixes; the answer `a` holds for one finding only; its `catch` turns `DRIFT_DETECTED`
  into a general error; `--auto-apply` stores the fingerprint even when nothing was fixed;
- a dependency's drift is absorbed by the next `sync` without any rule being written, and a framework first
  stored with a low confidence is never reported when it becomes certain;
- an `init` for several backends of which one fails ends with success.

### Levels: Enforcement, Governance, Cycles, Memory

These and `LiveFeedback` share one specification to share one run: each behaviour is a behaviour of one of the five.

`Enforcement`: the rule files are listed once; each is then read and its check evaluated read by
read: a step is one listing, one stat, one file, or one answer handed to the composite around it, and the
repository changes between any two. `task` is what the evaluation is at, `frames` the composites under way. All
twelve types of check are there, with the limits on files and bytes, skipped files, the depth and the number of
children, and directories that may not be read. `Checks` is the set of
checks that may occur, closed under taking the checks that one is made of; `CheckSchema[d]`,
`Leaves[d]` and the reference `Truth[d]` treat those no deeper than `d`, each by way of level `d - 1`, since no check
deeper than `MaxDepth` is evaluated. `looks` records what each leaf was shown: the listing of its moment and each
file as it was read (`view`), and whether that is all it is about (`whole`). `Enforced` is that a "pass" or "fail" is what
ordinary logic makes of the truth about each leaf as it was shown, *whatever* the leaves that were not asked
or could not answer would have said, if every leaf that was asked was shown all it is about (`VerdictTrue`); that a rule goes
unanswered only for want of a check or of a `package.json`; and that counts,
outcomes and findings agree rule by rule (`Tallied`). A check that has the same leaf twice, with different answers
because of an edit in between, is excused: no single truth about the leaf fits both.

`EvaluatedCounted`, in the module without a run, is what `validator/enforcement.ts:21` says of each rule that counts as enforced,
that its check was actually evaluated; add it to `Levels.cfg` to see it violated. An exception, such as that of a glob on a directory without permission, ends the
whole check as not passed, past any `not` or `anyOf`, and counts as a violation. `whole` is a condition of `VerdictTrue` because of
three more ways in which what was not evaluated becomes an answer: a check over files that were all skipped may pass
(`content-absent`, `frontmatter-field`, or `not` of a `content-match`); a missing fingerprint and a JSON file that cannot be
read answer "not passed", so that `not` of them passes; and with `BP_MAX_VALIDATION_FILES=0`, which the model leaves out, every
file counts as absent.

`Governance`: a document is a record of its layers; `Findings` is the union of the validators, operator by
operator, and `Resolutions` the alternatives printed with a finding, in the order of the text, each as what the document
may be once the author has done what it says: renaming to any fresh name, any tier where the text says to set
or adjust it, and the document unchanged where what is advised has no effect on what is checked ("add explicit precedence in
04-meta.md"). `Follow` is an author who takes up any finding and any alternative; `strayed` records that it
was ever not the first. `EndsClean`: an author who keeps to first alternatives, in any order of the findings, changes the
document only finitely often, and as long as anything is found (but `soc2_risk_tier`), each first alternative does change it: first advice
leads to a clean report, whichever layers it touches, and no two pieces of it undo each other. Of the others this is not true, and the
model has the loops: "or adjust risk tier" (`validator/layers-deep.ts:30`) and "or upgrade project risk tier" (`:93`) undo each other for
ever, as do defining a team for an unknown agent and removing it because it is empty. Remove `<>strayed \/` from
`EndsClean` to see one. `TierClassified`, in the module without a run, is about the finding that is left: it states its description, "Risk tier
must be classified (not unknown)", and a tier that is classified as `low` refutes it (`validator/compliance.ts:196`), so that an
author who follows the remediation to the letter is told the same again.
The built-in adapters parse few of these
layers, so that documents with the others come from an injected `BlueprintSource` or from library use, as in the
tests.

`Cycles`: depth-first search with colours (hooks), Tarjan's algorithm (skills) and recursion stack
(chains), in the order in which the code visits, step by step: the recursive calls under way are the sequence
`calls`, `looked` says how many dependencies each has looked at, and `entered` has the nodes that a call was ever made
for (not white; indexed; visited). A step begins a call, looks at one dependency, ends a call, or puts
one more node in front of the path of a hook cycle. The reference is reachability: a node reaches what is in
every set that has the node's dependencies and those of its own members (`Reaches`). `CyclesReported`: each
reports a cycle exactly if there is one; the path shown for hooks lies within one cycle; the groups shown for skills
are the strongly connected components; an agent named for a chain leads into a cycle. The path shown
is not always a path: for hooks a, b, c in a ring it can be `a, b, a, c`. A skill that needs itself is
not reported.

`Memory`: a cleanup lists, then stats and unlinks file by file while agents write and delete and time
passes; a file that vanishes in between aborts it. `CleanupMatchesAudit`: cleanup and audit agree on what
has expired, to the boundary; only a file rewritten after the cleanup began may be lost though fresh. That
does happen, as the age is judged before the unlink. The default `week` of the command's option keeps
the policy of the blueprint from ever being used by `bp memory audit`, and a cleanup may remove an expired `.keyring`.

## Runs and bounds

| run | instance | bound |
|---|---|---|
| `pack_solo` | two packs that share a path, two versions, two paths, one process | 2 user actions, 1 kill |
| `pack_interleaved` | one pack, one version, two paths (one ignored), two processes | 1 user action |
| `validation_quiet` | two validations of all levels, a rule with a scope of one project file, the skill it may cite, two kinds of text | 1 change, 1 kill |
| `validation_interleaved` | two validations, one file, two kinds of text | 1 change |
| `validation_short_circuit` | one validation at a time, one file | 2 changes, 1 kill |
| `artifact_install` | two processes, six artifacts of one id, one trusted key | 2 publications, 3 commands, 1 kill or file error |
| `plugin_host`, `plugin_stray` | four plugins, two of them in workers | none |
| `blueprints`, `translation_defaults` | conversion: six tools, one of each kind of adapter; one skill, one rule; five kinds of text, two of scopes; two delivery options (the third differs in the command files alone, which no property reads); merge: one field with three contents, one item with two and one with a single content, each item there or not | 1 blueprint by hand, 2 conversions, headings counted to 2 |
| `ownership` | two processes, a rule and a skill, two projects, one piece of text | 2 commands, 1 edit, 1 change of the project |
| `levels` | enforcement: two rules, three files, eight repositories, all types of check, composites of three of them, some within another, and one too deep, 1 edit; governance: documents with gaps in one layer or in two that meet, two names for what is renamed, any number of resolutions; cycles: the three searches in the graphs over three nodes with most orders of edges; memory: two files, two policies and none, clock to 3; feedback: six tools, three validations that may overlap, 2 changes, 2 requests, 1 failure | as listed |

Bounds count what comes from outside (edits, kills, publications, commands); the
steps of the program are not bounded. Two processes are enough for every race
of the code, since each shared file is read and written whole: what a third could do
to the first is what the second does. Two changes are enough for a value to be
read, replaced and compared with an older one. Two packs that share a path and two
versions that differ in their items are the smallest that distinguish own, foreign
and dropped files. Three contents let both sides change a key differently; one field and
two items are enough where no key's treatment depends on another's. Two conversions are
a chain with a tool in the middle, and the third reading is in the properties: they quantify over every reader. Two
commands and one edit let an edit fall into each window of a command and another command act on the result.
Composites of three leaves that pass, fail and cannot be asked give every row of their truth tables. Three nodes allow a
self loop, a cycle of two entered from outside, and a ring. Where a theorem exists, it holds for any bounds.

`CHECK_DEADLOCK FALSE` stands in `ArtifactInstall.cfg`, `PluginHost.cfg`, `PluginStray.cfg`, `Blueprints.cfg`,
`TranslationDefaults.cfg`, `Ownership.cfg` and `Levels.cfg`: the bounded commands and changes
run out, the phase, the merge or the checks end, and a display at rest is the end of its behaviour. Symmetry is
used only where processes or files differ in nothing but their names and no liveness
property is checked.

## Fairness

- `PackLifecycle!FairSpec`: each process goes on. A command is a sequence of awaited
  file operations with no loop that waits for another.
- `ValidationPipeline!FairSpec`: each validation goes on, one awaited file operation or level after the
  other. The timer is not assumed to fire: `index.ts:261` does not keep the process alive for it.
- `PluginHost!FairSpec`: the host's own steps and each armed timer. Of the plugins'
  code, and of its messages, nothing is assumed.
- Of the other machines of `Levels` no fairness is assumed. `EndsClean` needs none: that the document is changed only finitely often
  holds of an author who stops as well, and that there is always something to do is an invariant.
- `LiveFeedback!FeedbackFairness`, in `Levels!FairSpec`: the timer fires, and each validation goes on to its end, which
  the validation timeout sees to. Nothing is assumed of users, and nothing of the order.

## Theorems

TLAPS proves the following for any values of the constants that satisfy the module's
named assumptions (bounds are numbers, the values that stand for "nothing" or "unreadable" are no
files, contents or records), which TLC evaluates in the runs.

- **PackLifecycleProofs**: `TypeOK`, `LockTracksOwn`, `RemoveJudgesOwn` under
  every interleaving; `NoPartialRefusal`, `ForeignUntouched`, `TailPreserveSurvives` and
  `EntriesFaithful` with commands one at a time. `OwnInv` adds to `LockTracksOwn` that the lockfile in the hands of a
  process tracks only its pack's files, and that a file on an unforced remove's list
  was judged own and unedited. `QuietInv` adds for the quiet case that only one process
  is at work and that what it read is what is there (`Knows`). `CommitInv` adds what a command that
  goes through its files several times rests on (`Follows`): a file that a forced install has passed is
  its version's (`Current`), what is about to be written keeps the preserve block behind the file
  (`DraftRight`), what was read for the record is still on disk, and the lockfile read is still the lockfile.
- **ValidationPipelineProofs**: `TypeOK`, `StampedHash`, `StructuralTruth`, `SemanticTruth`.
  `StampInv` says of a time that was read and not yet used that, if it is still
  the file's time, the text has not changed; the order stat, hash then gives
  `StampedHash`. `QuietInv` says of every entry in the cache file, or held by a run,
  that its structural findings are right for the scan mode if its stamp or hash is
  the present one (`Right`), and of a run in each phase which files are
  accounted for; a run that began before the last change is free. `SemanticInv` says that an
  entry's semantic finding is of a text that deserves it, cites others or has a scope
  (`Suspicious`), and of a run in or past the semantic level that it has found all there is in what it looked at.
  It rests on `StampInv`: an entry is served for the text that its hash names.
- **ArtifactInstallProofs**: `TypeOK`, `OnlyVerified`, `TrustRecorded`, `NeverMixed`,
  `RegistryListed`, `NoLeftovers`, `DirectoryMatchesLock`, all but the last from one invariant `Safe`: what the files hold, and
  for each process, by where it stands, what its decision, its origin and its
  staging directory are worth. Histories of signed indexes and keyrings only grow
  (`Monotone`), so what was true of a process stays true while others step. For
  `DirectoryMatchesLock`, `Matching` says where a lone process is in its swap (`Swapping`, `Swapped`) and that the other
  directories match the lockfile; and that the lockfile in its hands is the one on disk.
- **PluginHostProofs**: `TypeOK`, `Honest`, `CleanMeansChecked`, and that `PluginHost` implements `PluginReport`. The heart of the
  invariant is that a plugin whose promise is not settled is the one awaited
  (`Pending(i) => Current(i)`): what settles it becomes its own outcome, and a late
  event finds the promise settled and becomes nobody's.
- **ThreeWayMergeProofs**: `MergeTypes`, `NoForeignChange`, `AppliedCounts` and
  `CleanTakesBoth`, for any finite sets of fields and items. The invariant says of the
  keys not yet visited that they are as in the base, of the others that they are in
  conflict or as their case says (`Settled`), and that the count and the changes
  agree (`Counted`); that `RemoveGone` takes out only what the loops left
  alone (`GoneUntouched`) makes the two passes agree.
- **CheckingProofs**, of the machines `LiveFeedback`, `Memory`, `Enforcement` and `Cycles`, which look at a project,
  the first three while others change it. Of the first: `FeedbackTypes`, `RestsUpToDate`, `ShowsNewestRead`, for any number of
  overlapping validations. `Accounted` says that the newest text has been read or is going to
  be, `OnItsWay` that its result is on display or on its way there; an older result that
  comes in knows by `Accounted` that it overtakes. For `bp dev`, `OneAtATime` gives `InOrder`.
  Of the second: `CleanupMatchesAudit`, for any files, policies and times. `MemoryInv` says of a cleanup
  under way that the expired files that are there were reported when it began, that what it is about to
  remove has expired or was written since, and that the files it has passed are gone or have not expired.
  Of the third: `Enforced`, for any set of checks and rule files, any repositories and limits, whatever changes between any two
  reads. `EnforcementInv` follows the evaluation step by step: what a leaf has sorted so far is what it was shown (`Sorted`); each composite
  under way waits for a child that is one level less deep (`Stacked`), and the children it has behind it were of the kind that
  does not decide (`Behind`), for every assignment of truth to leaves that agrees with what was looked at (`Sure`); and an answer on
  its way up is what logic makes of such assignments (`Offered`). `LeafGives` and `ConcludeStep` prove it of the leaves, `LeaveStep` of a connective, where what
  decides is the first child that does. The induction theorem of the library takes an operator, which the provers here
  cannot instantiate; `Induction`, about a set of numbers, is proved instead from the strict inclusion of finite sets being
  well founded (`LeastNumber`), and `Iteration` gives the functions that are defined level by level.
  Of the outcomes, the invariant says that each is sound for the looks it rests on (`Judged`), and that counts and findings are
  those of the outcomes (`Counted`).
  Of the fourth: `CyclesReported` (`CyclesFound`), for any nodes and graphs. `ControlInv`, of all three searches, says that each call
  was made by the one before it, that what a call has looked at was entered, and that the loop leaves nothing out.
  For hooks and chains, the nodes that are done with are a set without a cycle that nothing leads out of
  (`Harmless`): what is found later cannot pass through them, and an edge back to a waiting call closes a
  cycle. For skills, `Components` says that what was taken off the stack are the largest sets of nodes that need each
  other, and that nothing leads out of them; `StackTied`, that each node on the stack reaches a call under way and is reached by one;
  `LowlinksTied` and `LowlinksLow`, that a low link is the index of a node on the stack that is reached, and
  is no higher than what the calls that have ended have seen. A call that ends with its low link at
  its index is then the first of its component, and the rest of it lies above on the stack. As reaching is membership in every closed
  set, each of these is shown by a closed set, and none by induction over paths.
- **OwnershipProofs**: `TypeOK`, `PreserveKept`, `ManagedIsOurs`, `DriftSeen`, `RecordsKept`, for any
  files, projects, texts and number of processes. `Base` adds to `TypeOK` what a command holds at each
  place (`Fits`). Each property then has an invariant of its own. `Preserved`: the text of a
  preserve block is in the file and in the hands of every command about to write it, which is what
  a command that has read the file before an edit would break and why `PreserveKept` excuses text
  that comes in while a write is under way. `Carried`: the manifest that a command will save has a record of every file that
  the saved one has. `Owned`: what is on record, in hand, or written and not yet read back holds no
  author's text that nobody handed over. `Fresher`: the last `init` left nothing stale, and the one
  at work leaves nothing behind; with `Alone`, no other command interferes.
- **TranslationProofs**: `TranslationTypes`, `LossesForeseen`, `Arrives`, `OthersUntouched`, for all 31 tools
  where the run has six. `Fits` says of each adapter that its two halves agree on where things are; `RoundTrip`
  what a fidelity report lists; `Explained`, of every skill file, that what it lacks one of the tools
  on its way is known to drop.

The invariants need their strengthening because each property speaks of one file or
one moment, and what makes it true is what some process read earlier and still holds.

`LockSound`, `EntriesFaithful`, `OnlyVetted`, `SwapClean`, `VerdictHonest`, `MergeFaithful` and `ShowsTruth`, which the
runs check, are conjunctions; a theorem of their own each puts together the theorems of their parts.

Only model-checked: the liveness properties (`CommandsEnd`, `Answered`,
`PhaseEnds`, `ComesToRest`, `EndsClean`), as TLAPS does not reason about fairness here. Every other property of
a passing run has a theorem. What `Levels` checks of `Enforcement`, `Memory`, `Cycles` and `LiveFeedback`, and `Blueprints` of its two parts, is proved
from their own specifications, of which each of its behaviours is one.

## Assumptions

- SHA-256 is injective, and a signature verifies only for the key that made it.
- A modification time grows with every change of a file.
- A small file that appears is read whole; a write is two moments, truncated and
  complete, where the code writes in place (the lockfile, the cache, the keyring).
- The published pack does not change between the two times that an install reads it.
- `emit` reads all files at one moment, and an id names one place. Names are not empty.
- `fs.access` followed by a read of the same file in one helper is one step.
- A plugin posts no message that has the form of a result (the host would believe it), and a diagnostic it reports
  from a callback after its validator has returned does not count.

## Not modelled

Besides the components that PROJECT.json lists as such: `BP_REGISTRY_PUBLIC_KEY`,
the expected digest of an index entry beyond "the index names it", key generation, the
legacy registry client, dry runs of packs (they write nothing), the byte limit of a
validation (it acts as the file limit), what the structural and semantic checks look for in a text, the
zod schemas of the layers, alerting, the performance audit, the encryption of the memory, `.bp.json`, the hooks
`init` installs, the text of templates, and `bp diff`. The components without a module classify text and file names by
tables (detector, security patterns), print (reports, documents, help), or append to a log.

## Plan

1. An abstract specification of a managed file (untracked, managed, modified, missing), which the
   manifest implements while commands run one at a time.
2. Composition: the plugin phase reading the directory that `ArtifactInstall` swaps.
