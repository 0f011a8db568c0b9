---------------------------- MODULE Translation ----------------------------
(* Conversion of a project's governance files from one tool to another:    *)
(* the adapters of src/src/translator and the command that runs them       *)
(* (cli/commands/convert.ts).  An adapter reads a tool's files into one    *)
(* intermediate form and writes that form as another tool's files.  What   *)
(* an adapter drops is described by a pair of records, one for parse and   *)
(* one for render; the project's files are the state.  Most adapters put   *)
(* what they write into front matter without quoting it, and a file whose  *)
(* front matter does not parse is skipped by every reader.  A written file *)
(* is never deleted by a conversion, and several tools share directories,  *)
(* so what a tool reads depends on the conversions made before.            *)
EXTENDS Naturals, FiniteSets

CONSTANTS
    Backend,            \* the tools the project is converted between
    Skill, Rule,        \* names of skills and of rules
    Override,           \* entries of backend_configs in .bp.json
    Words, Scopes,      \* the kinds of text that authors write, and of scopes
    None,               \* no file
    MaxWrites,          \* bound on hand-written blueprints
    MaxConversions,     \* bound on conversions
    MaxWraps            \* headings put around a procedure are counted up to it

VARIABLES
    skills,        \* skills[dir][slot][s]: the file of skill s
    rules,         \* rules[dir][r]: the file of rule r
    anchors,       \* anchors[b]: the position file of tool b
    personas,      \* personas[dir]: the text of the persona's file there
    parts,         \* parts[dir]: the hooks and MCP servers found there
    commands,      \* commands[b]: the skills with a command file
    last,          \* the last conversion: from, to, and the skills AGENTS.md lists
    writes, conversions

translation == <<skills, rules, anchors, personas, parts, commands, last, writes, conversions>>

-----------------------------------------------------------------------------
(* A text, by what becomes of it in front matter: "special" has a leading  *)
(* asterisk or a colon and is no YAML scalar unless it is quoted, "quote"  *)
(* has a double quote or a backslash, of "comment" YAML keeps only a part  *)
(* or another value, "cut" is such a part, and "overlong" is more than the *)
(* schema takes.  "broken" stands for the text of a file that has become   *)
(* unreadable.  Names and identifiers are plain words.                     *)

Text == {"plain", "special", "quote", "comment", "cut", "overlong"}
Yaml(style, text) ==
    CASE style = "raw" /\ text = "special" -> "broken"
      [] style = "raw" /\ text = "comment" -> "cut"
      [] style = "quoted" /\ text = "quote" -> "broken"
      [] OTHER -> text

(* The form of a skill.  Its name is always kept.                          *)

BasicFields == {"description", "when_to_use", "tools_required", "procedure"}
SkillFields == BasicFields \cup {"disable_model_invocation", "id", "risk"}
Authored == {BasicFields, SkillFields}
RenderedCanonical == SkillFields
ParsedCanonical == SkillFields

Slot == {"plain", "prompt"}
Severity == {"soft", "hard"}
Markdown == {"amazon-q", "auggie", "bob", "cline", "codebuddy", "continue", "costrict",
    "crush", "factory", "iflow", "junie", "kilocode", "lingma", "opencode", "qoder",
    "qwen", "roocode", "windsurf"}
SkillOnly == {"forgecode", "kimi", "trae"}

(* Where a tool keeps its files.  Kiro, Gemini and the generic layout use  *)
(* rules/ and skills/ of the project itself.                               *)
Root == {"kiro", "gemini", "generic"}
Dir == Backend \cup {"root", "bp-rules"}

ASSUME ToolsAssumption ==
    /\ Backend \subseteq {"claude", "cursor", "codex", "pi", "github-copilot", "antigravity", "opendev"}
                             \cup Root \cup Markdown \cup SkillOnly
    /\ None \notin Dir /\ Words \cup Scopes \subseteq Text
    /\ MaxWrites \in Nat /\ MaxConversions \in Nat /\ MaxWraps \in Nat

ClaudeParse == [dir |-> "claude", rules |-> "claude", fields |-> ParsedCanonical,
    unmarked |-> "soft", anchor |-> TRUE, parts |-> {"persona", "hook", "mcp"}]
ClaudeRender == [dir |-> "claude", slot |-> "plain", fields |-> RenderedCanonical, wraps |-> 0,
    text |-> "dumped", rules |-> "quoted", anchor |-> "list",
    parts |-> {"persona", "hook", "mcp"}, commands |-> FALSE]

CursorParse == [dir |-> "cursor", rules |-> "cursor", fields |-> ParsedCanonical,
    unmarked |-> "soft", anchor |-> TRUE, parts |-> {"persona", "mcp"}]
CursorRender == [dir |-> "cursor", slot |-> "plain", fields |-> RenderedCanonical, wraps |-> 0,
    text |-> "dumped", rules |-> "quoted", anchor |-> "list",
    parts |-> {"persona", "mcp"}, commands |-> FALSE]

GenericParse == [dir |-> "root", rules |-> "root", fields |-> ParsedCanonical,
    unmarked |-> "soft", anchor |-> TRUE, parts |-> {"persona", "hook"}]
GenericRender == [dir |-> "root", slot |-> "plain", fields |-> RenderedCanonical, wraps |-> 0,
    text |-> "dumped", rules |-> "quoted", anchor |-> "list",
    parts |-> {"persona", "hook"}, commands |-> FALSE]

CodexParse == [dir |-> "codex", rules |-> "codex", fields |-> BasicFields,
    unmarked |-> "hard", anchor |-> TRUE, parts |-> {"persona", "hook"}]
CodexRender == [dir |-> "codex", slot |-> "plain", fields |-> BasicFields, wraps |-> 1,
    text |-> "raw", rules |-> "raw", anchor |-> "verbatim",
    parts |-> {"persona", "hook"}, commands |-> FALSE]

PIParse == [dir |-> "pi", rules |-> "pi", fields |-> BasicFields,
    unmarked |-> "hard", anchor |-> TRUE, parts |-> {"persona", "hook"}]
PIRender == [dir |-> "pi", slot |-> "plain", fields |-> BasicFields, wraps |-> 1,
    text |-> "raw", rules |-> "raw", anchor |-> "verbatim",
    parts |-> {"persona", "hook"}, commands |-> FALSE]

CopilotParse == [dir |-> "github-copilot", rules |-> "github-copilot", fields |-> BasicFields,
    unmarked |-> "hard", anchor |-> TRUE, parts |-> {}]
CopilotRender == [dir |-> "github-copilot", slot |-> "prompt", fields |-> BasicFields, wraps |-> 1,
    text |-> "raw", rules |-> "raw", anchor |-> "verbatim", parts |-> {}, commands |-> FALSE]

AntigravityParse == [dir |-> "antigravity", rules |-> "antigravity", fields |-> BasicFields,
    unmarked |-> "hard", anchor |-> TRUE, parts |-> {}]
AntigravityRender == [dir |-> "antigravity", slot |-> "plain", fields |-> BasicFields, wraps |-> 1,
    text |-> "raw", rules |-> "raw", anchor |-> "verbatim", parts |-> {}, commands |-> FALSE]

GeminiParse == [dir |-> "root", rules |-> "root", fields |-> BasicFields,
    unmarked |-> "hard", anchor |-> TRUE, parts |-> {}]
GeminiRender == [dir |-> "root", slot |-> "plain", fields |-> BasicFields, wraps |-> 1,
    text |-> "raw", rules |-> "raw", anchor |-> "verbatim", parts |-> {}, commands |-> TRUE]

KiroParse == [dir |-> "root", rules |-> "root", fields |-> BasicFields,
    unmarked |-> "hard", anchor |-> TRUE, parts |-> {}]
\* As the registry has it: Kiro's skills in a directory of their own.
KiroOwnSkills == [dir |-> "kiro", slot |-> "prompt", fields |-> BasicFields, wraps |-> 1,
    text |-> "raw", rules |-> "raw", anchor |-> "headed", parts |-> {}, commands |-> FALSE]
KiroRender == [dir |-> "root", slot |-> "prompt", fields |-> BasicFields, wraps |-> 1,
    text |-> "raw", rules |-> "raw", anchor |-> "headed", parts |-> {}, commands |-> FALSE]

OpenDevParse == [dir |-> "opendev", rules |-> None, fields |-> BasicFields,
    unmarked |-> "hard", anchor |-> FALSE, parts |-> {}]
OpenDevRender == [dir |-> "opendev", slot |-> "plain", fields |-> BasicFields, wraps |-> 0,
    text |-> "quoted", rules |-> "none", anchor |-> "none", parts |-> {}, commands |-> FALSE]

(* The tools without an adapter of their own share a base class.  The      *)
(* Markdown one reads rules from a directory that no render writes.        *)
MarkdownParse(b) == [dir |-> b, rules |-> "bp-rules", fields |-> BasicFields,
    unmarked |-> "hard", anchor |-> FALSE, parts |-> {}]
\* Rendered into the project's own skills directory.
MarkdownAtRoot(b) == [dir |-> "root", slot |-> "plain", fields |-> BasicFields, wraps |-> 0,
    text |-> "quoted", rules |-> "none", anchor |-> "none", parts |-> {}, commands |-> FALSE]
MarkdownRender(b) == [dir |-> b, slot |-> "plain", fields |-> BasicFields, wraps |-> 0,
    text |-> "quoted", rules |-> "none", anchor |-> "none", parts |-> {}, commands |-> FALSE]
TomlRender(b) == [MarkdownRender(b) EXCEPT !.commands = TRUE]

SkillOnlyParse(b) == [dir |-> b, rules |-> None, fields |-> BasicFields,
    unmarked |-> "hard", anchor |-> FALSE, parts |-> {}]
SkillOnlyRender(b) == [dir |-> b, slot |-> "plain", fields |-> BasicFields \ {"tools_required"},
    wraps |-> 1, text |-> "quoted", rules |-> "none", anchor |-> "none",
    parts |-> {}, commands |-> FALSE]

Parse == [b \in Backend |->
    CASE b = "claude" -> ClaudeParse
      [] b = "cursor" -> CursorParse
      [] b = "generic" -> GenericParse
      [] b = "codex" -> CodexParse
      [] b = "pi" -> PIParse
      [] b = "github-copilot" -> CopilotParse
      [] b = "antigravity" -> AntigravityParse
      [] b = "gemini" -> GeminiParse
      [] b = "kiro" -> KiroParse
      [] b = "opendev" -> OpenDevParse
      [] b \in Markdown -> MarkdownParse(b)
      [] b \in SkillOnly -> SkillOnlyParse(b)]

Render == [b \in Backend |->
    CASE b = "claude" -> ClaudeRender
      [] b = "cursor" -> CursorRender
      [] b = "generic" -> GenericRender
      [] b = "codex" -> CodexRender
      [] b = "pi" -> PIRender
      [] b = "github-copilot" -> CopilotRender
      [] b = "antigravity" -> AntigravityRender
      [] b = "gemini" -> GeminiRender
      [] b = "kiro" -> KiroRender
      [] b = "opendev" -> OpenDevRender
      [] b = "qwen" -> TomlRender(b)
      [] b \in Markdown \ {"qwen"} -> MarkdownRender(b)
      [] b \in SkillOnly -> SkillOnlyRender(b)]

(* backends/registry.ts: the tools with a directory for command files.     *)
HasCommands(b) == b \notin SkillOnly

-----------------------------------------------------------------------------
(* What an adapter makes of the files.  A file that holds a skill is a     *)
(* record: has are the fields in it, text what its description and its     *)
(* when_to_use say, wraps counts the headings put around its procedure.    *)
(* Three more fields are not in the file: born and words are what its      *)
(* author gave it, via the tools it was read or written for.               *)

NewSkill(b, F, text) ==
    [has |-> F, born |-> F, text |-> text, words |-> text, wraps |-> 0, via |-> {b}]
Capped(n) == IF n > MaxWraps THEN MaxWraps ELSE n
ReadSkill(b, c) == [c EXCEPT !.has = @ \cap Parse[b].fields]
\* Every field of the form, a default for those the skill leaves out.
WriteSkillFilled(b, c) ==
    [c EXCEPT !.has = Render[b].fields, !.text = Yaml(Render[b].text, @),
              !.wraps = Capped(@ + Render[b].wraps)]
WriteSkill(b, c) ==
    [c EXCEPT !.has = @ \cap Render[b].fields, !.text = Yaml(Render[b].text, @),
              !.wraps = Capped(@ + Render[b].wraps)]

\* Read by a, written by b.
ConvertSkill(a, b, c) == WriteSkill(b, [c EXCEPT !.via = @ \cup {a, b}])

(* A rule states its severity and its scope or leaves them to the reader,  *)
(* whose scope is an asterisk pattern; text is its action and rationale.   *)
DefaultScope == "special"
StatedRule(b, c) ==
    [c EXCEPT !.severity = IF @ = "unmarked" THEN Parse[b].unmarked ELSE @,
              !.scope = IF @ = "unmarked" THEN DefaultScope ELSE @]
WriteRule(b, c) == [c EXCEPT !.scope = Yaml(Render[b].rules, @), !.text = Yaml("raw", @)]

(* A file that does not parse is skipped, and one skill may be found in    *)
(* two files.                                                              *)
ReadSkills(b, s) ==
    {ReadSkill(b, c) : c \in {f \in {skills[Parse[b].dir][o][s] : o \in Slot} \ {None} : f.text # "broken"}}
ReadRule(b, r) ==
    IF Parse[b].rules = None THEN None
    ELSE LET found == rules[Parse[b].rules][r]
         IN  IF found = None \/ "broken" \in {found.scope, found.text} THEN None ELSE StatedRule(b, found)
ReadAnchor(b) == IF Parse[b].anchor THEN anchors[b] ELSE "none"
ReadPersona(b) ==
    IF "persona" \notin Parse[b].parts \/ personas[Parse[b].dir] = "broken" THEN "none"
    ELSE personas[Parse[b].dir]
ReadParts(b) == parts[Parse[b].dir] \cap Parse[b].parts
Reads(b) == [skills |-> [s \in Skill |-> ReadSkills(b, s)], rules |-> [r \in Rule |-> ReadRule(b, r)],
             anchor |-> ReadAnchor(b), persona |-> ReadPersona(b), parts |-> ReadParts(b)]

(* What the schema of the intermediate form takes.                         *)
Conforms(b) ==
    /\ \A s \in Skill : \A c \in ReadSkills(b, s) : c.text # "overlong"
    /\ \A r \in Rule : ReadRule(b, r) # None => "overlong" \notin {ReadRule(b, r).scope, ReadRule(b, r).text}
    /\ "overlong" \notin {ReadAnchor(b), ReadPersona(b)}

(* bp skill test: one skill is rendered into an empty directory, parsed    *)
(* back and compared field by field, if it is found there at all.          *)
\* Only the fields that are missing afterwards.
CompareMissing(before, after) == IF after.text = "broken" THEN {"(skill)"} ELSE before.has \ after.has
compareSkillFidelity(before, after) ==
    IF after.text = "broken" THEN {"(skill)"}
    ELSE {f \in before.has : \/ f \notin after.has
                             \/ f = "procedure" /\ before.wraps # after.wraps
                             \/ f \in {"description", "when_to_use"} /\ before.text # after.text}
roundTripSkill(b, F, text) ==
    compareSkillFidelity(NewSkill(b, F, text), ReadSkill(b, WriteSkill(b, NewSkill(b, F, text))))

-----------------------------------------------------------------------------
Unwritten ==
    /\ skills = [d \in Dir |-> [o \in Slot |-> [s \in Skill |-> None]]]
    /\ rules = [d \in Dir |-> [r \in Rule |-> None]]
    /\ anchors = [b \in Backend |-> "none"]
    /\ personas = [d \in Dir |-> "none"]
    /\ parts = [d \in Dir |-> {}]
    /\ commands = [b \in Backend |-> {}]
    /\ last = None
TranslationInit == Unwritten /\ writes = 0 /\ conversions = 0
NoTranslation == Unwritten /\ writes = MaxWrites /\ conversions = MaxConversions

(* The author writes the blueprint of tool b by hand: skills with the      *)
(* fields F, rules that may leave out their severity and their scope, and  *)
(* one kind of text in all of them, unreadable front matter included.      *)
Write(b, S, F, text, severity, scope) ==
    /\ writes < MaxWrites
    /\ writes' = writes + 1
    /\ skills' = [skills EXCEPT ![Parse[b].dir]["plain"] =
            [s \in Skill |-> IF s \in S THEN NewSkill(b, F, text) ELSE @[s]]]
    /\ rules' = IF Parse[b].rules = None THEN rules
                ELSE [rules EXCEPT ![Parse[b].rules] =
                    [r \in Rule |-> [severity |-> severity, scope |-> scope, text |-> text]]]
    /\ anchors' = [anchors EXCEPT ![b] = IF ~Parse[b].anchor THEN @
                                         ELSE IF text = "overlong" THEN text ELSE "text"]
    /\ personas' = [personas EXCEPT ![Parse[b].dir] = IF "persona" \in Parse[b].parts THEN text ELSE @]
    /\ parts' = [parts EXCEPT ![Parse[b].dir] = @ \cup (Parse[b].parts \ {"persona"})]
    /\ UNCHANGED <<commands, last, conversions>>

(* The position file is written from the conventions, or the text read is  *)
(* written as it is, or with headings around it, which may make it too     *)
(* long; a tool without one hands over an empty text.                      *)
RenderAnchor(b, text) ==
    CASE Render[b].anchor = "none" -> {anchors[b]}
      [] text \in {"none", "empty"} -> {"empty"}
      [] Render[b].anchor = "list" -> {"list"}
      [] Render[b].anchor = "verbatim" -> {text}
      [] Render[b].anchor = "headed" -> {text, "overlong"}

(* bp convert --from a --to b, with the entry o of backend_configs.  What  *)
(* is read has to conform to the schema, or nothing is written.            *)
Kept(a, o) ==
    IF o.delivery_mode = "commands_only" THEN {}
    ELSE {s \in Skill : ReadSkills(a, s) # {} /\ (o.workflows = {} \/ s \in o.workflows)}

Convert(a, b, o) ==
    /\ conversions < MaxConversions
    /\ Conforms(a)
    /\ conversions' = conversions + 1
    /\ LET kept == Kept(a, o)
       IN  /\ \E from \in [kept -> UNION {ReadSkills(a, s) : s \in kept}] :
                /\ \A s \in kept : from[s] \in ReadSkills(a, s)
                /\ skills' = [skills EXCEPT ![Render[b].dir][Render[b].slot] =
                       [s \in Skill |-> IF s \in kept THEN ConvertSkill(a, b, from[s]) ELSE @[s]]]
                /\ last' = [from |-> a, to |-> b, listed |-> [s \in kept |-> from[s].text]]
           /\ commands' = [commands EXCEPT ![b] =
                  IF ~Render[b].commands THEN @
                  ELSE IF o.delivery_mode = "skills_only" /\ HasCommands(b) THEN @ \ kept
                  ELSE @ \cup kept]
    /\ rules' = IF Render[b].rules = "none" THEN rules
                ELSE [rules EXCEPT ![Parse[b].rules] =
                    [r \in Rule |-> IF ReadRule(a, r) = None THEN @[r] ELSE WriteRule(b, ReadRule(a, r))]]
    /\ \E text \in RenderAnchor(b, ReadAnchor(a)) : anchors' = [anchors EXCEPT ![b] = text]
    /\ personas' = [personas EXCEPT ![Parse[b].dir] =
           IF "persona" \notin Render[b].parts \/ ReadPersona(a) = "none" THEN @
           ELSE Yaml("raw", ReadPersona(a))]
    /\ parts' = [parts EXCEPT ![Parse[b].dir] = @ \cup (ReadParts(a) \cap Render[b].parts)]
    /\ UNCHANGED writes

TranslationNext ==
    \/ \E b \in Backend, S \in SUBSET Skill \ {{}}, F \in Authored, text \in Words \cup {"broken"},
          severity \in Severity \cup {"unmarked"}, scope \in Scopes \cup {"unmarked"} :
              Write(b, S, F, text, severity, scope)
    \/ \E a, b \in Backend, o \in Override : Convert(a, b, o)

TranslationSpec == TranslationInit /\ [][TranslationNext]_translation

-----------------------------------------------------------------------------
(* Every file is a file of the kind its place is for, no skill has a field *)
(* its author did not give it, and headings are counted within their bound.*)
SkillFile == {c \in [has : SUBSET SkillFields, born : Authored, text : Text \cup {"broken"},
                     words : Text \cup {"broken"}, wraps : 0..MaxWraps, via : SUBSET Backend] :
                 c.has \subseteq c.born}
RuleFile == [severity : Severity \cup {"unmarked"}, scope : Text \cup {"broken", "unmarked"},
             text : Text \cup {"broken"}]
ASSUME FileAssumption == None \notin SkillFile /\ None \notin RuleFile
TranslationTypes ==
    /\ skills \in [Dir -> [Slot -> [Skill -> SkillFile \cup {None}]]]
    /\ rules \in [Dir -> [Rule -> RuleFile \cup {None}]]
    /\ anchors \in [Backend -> {"none", "empty", "list", "text", "overlong"}]
    /\ personas \in [Dir -> Text \cup {"none", "broken"}]
    /\ parts \in [Dir -> SUBSET {"hook", "mcp"}]
    /\ commands \in [Backend -> SUBSET Skill]
    /\ last = None \/ /\ last.from \in Backend /\ last.to \in Backend
                      /\ DOMAIN last.listed \subseteq Skill
    /\ writes \in 0..MaxWrites /\ conversions \in 0..MaxConversions

(* Whatever chain of conversions a skill has been through, and whichever   *)
(* tool reads it in the end, what is missing or changed is foreseen by     *)
(* bp skill test run on the author's skill for each tool of the chain: the *)
(* losses of a chain are no more than the losses of its tools.  That holds *)
(* of fields left out, of text that front matter cuts short and of files   *)
(* that can no longer be read at all                                       *)
(* (translator/fidelity.ts, convert.ts, and every adapter's two halves).   *)
Warnings == [t \in Backend |-> [F \in Authored |-> [w \in Text |-> roundTripSkill(t, F, w)]]]
Foreseen(T, c) == UNION {Warnings[t][c.born][c.words] : t \in T}
LossesForeseen ==
    /\ \A b \in Backend, s \in Skill : \A c \in ReadSkills(b, s) :
        LET foreseen == Foreseen(c.via \cup {b}, c)
        IN  "(skill)" \in foreseen \/ /\ c.born \ c.has \subseteq foreseen
                                      /\ c.wraps > 0 => "procedure" \in foreseen
                                      /\ c.text # c.words => "description" \in foreseen
    /\ \A d \in Dir, o \in Slot, s \in Skill :
        LET c == skills[d][o][s]
        IN  c # None /\ c.text = "broken" /\ c.words # "broken" => "(skill)" \in Foreseen(c.via, c)

Converted == conversions' # conversions

(* Texts that come through the front matter as tool b writes it.           *)
SkillFits(b, text) == Yaml(Render[b].text, text) # "broken"
RuleFits(b, c) == "broken" \notin {Yaml(Render[b].rules, c.scope), Yaml("raw", c.text)}

(* What the source tool reads and the target tool can hold, the target     *)
(* tool reads after the conversion: each skill that was kept and each rule *)
(* with its severity, the conventions and the personas, hooks and servers, *)
(* unless it has a text that the target's adapter writes unquoted where it *)
(* needs quotes.  An adapter whose render and parse disagree on a place    *)
(* breaks it.                                                              *)
Arrives ==
    [][Converted => \A a \in {last'.from}, b \in {last'.to} :
        /\ \A s \in DOMAIN last'.listed : SkillFits(b, last'.listed[s]) => ReadSkills(b, s)' # {}
        /\ Render[b].rules # "none" => \A r \in Rule : LET c == ReadRule(a, r)
               IN  c # None /\ RuleFits(b, c) =>
                       ReadRule(b, r)' # None /\ ReadRule(b, r)'.severity = c.severity
        /\ (Render[b].anchor # "none" /\ ReadAnchor(a) \in {"list", "text"})
               => ReadAnchor(b)' \in {"list", "text", "overlong"}
        /\ ("persona" \in Parse[b].parts /\ ReadPersona(a) \notin {"none", "special"}) => ReadPersona(b)' # "none"
        /\ ReadParts(a) \cap Parse[b].parts \subseteq ReadParts(b)']_translation

(* Every rule the source tool reads, a target that holds rules reads after *)
(* the conversion (docs/api/translator.md: "A round-trip is semantically   *)
(* lossless for fields present in both formats").                          *)
RulesArrive ==
    [][Converted => \A a \in {last'.from}, b \in {last'.to} : Render[b].rules # "none" =>
        \A r \in Rule : ReadRule(a, r) # None => ReadRule(b, r)' # None]_translation

(* A conversion changes nothing that a tool other than the target reads,   *)
(* but for the three tools that share the project's own rules/ and skills/ *)
(* and the rule directory that no conversion writes.                       *)
OthersUntouched ==
    [][Converted => \A a \in {last'.from}, b \in {last'.to} :
        \A c \in Backend \ {b} : {b, c} \subseteq Root \/ Reads(c)' = Reads(c)]_translation
=============================================================================
