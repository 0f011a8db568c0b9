-------------------------- MODULE TranslationProofs --------------------------
(***************************************************************************)
(* What Translation keeps for any set of the tools, any skills, rules and   *)
(* delivery options, and any number of conversions.                         *)
(***************************************************************************)
EXTENDS Translation, TLAPS

-----------------------------------------------------------------------------
(* The two halves of every adapter.                                        *)

Home(b) == IF b \in Root THEN "root" ELSE b

Fitting(b, parse, render) ==
    /\ parse.dir = Home(b) /\ render.dir = Home(b)
    /\ parse.rules \in {Home(b), "bp-rules", None} /\ render.rules \in {"raw", "quoted", "none"}
    /\ render.rules # "none" => parse.rules = Home(b)
    /\ render.text \in {"raw", "quoted", "dumped"}
    /\ render.slot \in Slot /\ render.wraps \in {0, 1} /\ render.commands \in BOOLEAN
    /\ parse.unmarked \in Severity /\ parse.anchor \in BOOLEAN
    /\ render.anchor \in {"list", "verbatim", "headed", "none"} /\ (render.anchor # "none" => parse.anchor)
    /\ parse.parts \subseteq render.parts /\ render.parts \subseteq {"persona", "hook", "mcp"}

LEMMA OwnFits ==
    /\ Fitting("claude", ClaudeParse, ClaudeRender) /\ Fitting("cursor", CursorParse, CursorRender)
    /\ Fitting("generic", GenericParse, GenericRender) /\ Fitting("codex", CodexParse, CodexRender)
    /\ Fitting("pi", PIParse, PIRender) /\ Fitting("github-copilot", CopilotParse, CopilotRender)
    /\ Fitting("antigravity", AntigravityParse, AntigravityRender)
    /\ Fitting("gemini", GeminiParse, GeminiRender) /\ Fitting("kiro", KiroParse, KiroRender)
    /\ Fitting("opendev", OpenDevParse, OpenDevRender)
<1> USE DEF Fitting, Home, Root, Slot, Severity
<1>1. Fitting("claude", ClaudeParse, ClaudeRender) /\ Fitting("cursor", CursorParse, CursorRender)
  BY DEF ClaudeParse, ClaudeRender, CursorParse, CursorRender
<1>2. Fitting("generic", GenericParse, GenericRender) /\ Fitting("codex", CodexParse, CodexRender)
  BY DEF GenericParse, GenericRender, CodexParse, CodexRender
<1>3. Fitting("pi", PIParse, PIRender) /\ Fitting("github-copilot", CopilotParse, CopilotRender)
  BY DEF PIParse, PIRender, CopilotParse, CopilotRender
<1>4. Fitting("antigravity", AntigravityParse, AntigravityRender)
  BY DEF AntigravityParse, AntigravityRender
<1>5. Fitting("gemini", GeminiParse, GeminiRender) /\ Fitting("kiro", KiroParse, KiroRender)
  BY DEF GeminiParse, GeminiRender, KiroParse, KiroRender
<1>6. Fitting("opendev", OpenDevParse, OpenDevRender)
  BY DEF OpenDevParse, OpenDevRender
<1> QED
  BY <1>1, <1>2, <1>3, <1>4, <1>5, <1>6

LEMMA SharedFits ==
    /\ \A b \in Markdown : /\ Fitting(b, MarkdownParse(b), MarkdownRender(b))
                           /\ Fitting(b, MarkdownParse(b), TomlRender(b))
    /\ \A b \in SkillOnly : Fitting(b, SkillOnlyParse(b), SkillOnlyRender(b))
<1>1. \A b \in Markdown \cup SkillOnly : Home(b) = b
  BY DEF Markdown, SkillOnly, Home, Root
<1> QED
  BY <1>1 DEF Fitting, Slot, Severity, MarkdownParse, MarkdownRender, TomlRender, SkillOnlyParse,
     SkillOnlyRender

LEMMA Fits == \A b \in Backend : Fitting(b, Parse[b], Render[b])
<1> SUFFICES ASSUME NEW b \in Backend PROVE Fitting(b, Parse[b], Render[b])
  OBVIOUS
<1>1. CASE b \in Markdown
  <2>1. Parse[b] = MarkdownParse(b)
    BY <1>1 DEF Parse, Markdown, SkillOnly
  <2>2. Render[b] \in {MarkdownRender(b), TomlRender(b)}
    BY <1>1 DEF Render, Markdown, SkillOnly
  <2> QED
    BY <1>1, <2>1, <2>2, SharedFits
<1>2. CASE b \in SkillOnly
  <2>1. Parse[b] = SkillOnlyParse(b) /\ Render[b] = SkillOnlyRender(b)
    BY <1>2 DEF Parse, Render, Markdown, SkillOnly
  <2> QED
    BY <1>2, <2>1, SharedFits
<1>3. CASE b \in {"claude", "cursor", "codex", "pi", "github-copilot", "antigravity", "opendev"} \cup Root
  <2>1. b \in {"claude", "cursor", "generic", "codex", "pi"} => Fitting(b, Parse[b], Render[b])
    BY OwnFits DEF Parse, Render, Markdown, SkillOnly
  <2>2. b \in {"github-copilot", "antigravity", "gemini", "kiro", "opendev"} => Fitting(b, Parse[b], Render[b])
    BY OwnFits DEF Parse, Render, Markdown, SkillOnly
  <2> QED
    BY <1>3, <2>1, <2>2 DEF Root
<1> QED
  BY <1>1, <1>2, <1>3, ToolsAssumption

-----------------------------------------------------------------------------
(* What front matter makes of a text.                                      *)

LEMMA YamlKeeps ==
    ASSUME NEW style, NEW w \in Text \cup {"broken"}
    PROVE  /\ Yaml(style, w) \in {w, "cut", "broken"}
           /\ Yaml(style, w) \in Text \cup {"broken"}
           /\ w = "cut" => Yaml(style, w) = "cut"
BY DEF Yaml, Text

-----------------------------------------------------------------------------
(* What a chain of adapters makes of a skill.                              *)

LEMMA RoundTrip ==
    ASSUME NEW b \in Backend, NEW F \in Authored, NEW w \in Text
    PROVE  \/ "(skill)" \in roundTripSkill(b, F, w)
           \/ /\ Yaml(Render[b].text, w) # "broken"
              /\ \A f \in F : f \notin Parse[b].fields \/ f \notin Render[b].fields
                                  => f \in roundTripSkill(b, F, w)
              /\ (Render[b].wraps = 1 /\ MaxWraps > 0) => "procedure" \in roundTripSkill(b, F, w)
              /\ Yaml(Render[b].text, w) # w => "description" \in roundTripSkill(b, F, w)
<1>1. PICK n \in {0, 1} : n = Render[b].wraps
  BY Fits DEF Fitting
<1>2. PICK c : c = NewSkill(b, F, w)
  OBVIOUS
<1>3. c = [has |-> F, born |-> F, text |-> w, words |-> w, wraps |-> 0, via |-> {b}]
  BY <1>2 DEF NewSkill
<1>4. PICK d : d = ReadSkill(b, WriteSkill(b, c))
  OBVIOUS
<1>5. d = [has |-> F \cap Render[b].fields \cap Parse[b].fields, born |-> F,
           text |-> Yaml(Render[b].text, w), words |-> w, wraps |-> Capped(0 + n), via |-> {b}]
  BY <1>1, <1>3, <1>4 DEF ReadSkill, WriteSkill
<1>6. /\ d.has = F \cap Render[b].fields \cap Parse[b].fields
      /\ d.text = Yaml(Render[b].text, w) /\ d.wraps = Capped(0 + n)
      /\ c.has = F /\ c.wraps = 0 /\ c.text = w
  BY <1>3, <1>5
<1>7. roundTripSkill(b, F, w) = compareSkillFidelity(c, d)
  BY <1>2, <1>4 DEF roundTripSkill
<1>8. CASE d.text = "broken"
  BY <1>7, <1>8 DEF compareSkillFidelity
<1>9. CASE d.text # "broken"
  <2>1. \A f \in F :
            (\/ f \notin d.has
             \/ f = "procedure" /\ c.wraps # d.wraps
             \/ f \in {"description", "when_to_use"} /\ c.text # d.text)
            => f \in roundTripSkill(b, F, w)
    BY <1>6, <1>7, <1>9 DEF compareSkillFidelity
  <2>2. "procedure" \in F /\ "description" \in F
    BY DEF Authored, BasicFields, SkillFields
  <2>3. (n = 1 /\ MaxWraps > 0) => d.wraps # 0
    BY <1>6, ToolsAssumption DEF Capped
  <2>4. \A f \in F : f \notin Parse[b].fields \/ f \notin Render[b].fields => f \notin d.has
    BY <1>6
  <2>5. \A f \in F : f \notin Parse[b].fields \/ f \notin Render[b].fields
                         => f \in roundTripSkill(b, F, w)
    BY <2>1, <2>4
  <2>6. (Render[b].wraps = 1 /\ MaxWraps > 0) => "procedure" \in roundTripSkill(b, F, w)
    BY <1>1, <1>6, <2>1, <2>2, <2>3
  <2>7. Yaml(Render[b].text, w) # w => "description" \in roundTripSkill(b, F, w)
    BY <1>6, <2>1, <2>2
  <2> QED
    BY <1>6, <1>9, <2>5, <2>6, <2>7
<1> QED
  BY <1>8, <1>9

\* What a file lacks, what its text has lost and what is around its procedure, one
\* of the tools it went through is known to drop, to cut or to put there, or one of
\* them is known to lose such a skill.
Explained(c) ==
    /\ c.text \in {c.words, "cut", "broken"}
    /\ c.words = "broken" => c.text = "broken"
    /\ c.words # "broken" =>
           \/ \E t \in c.via : "(skill)" \in roundTripSkill(t, c.born, c.words)
           \/ /\ c.text # "broken"
              /\ \A f \in c.born \ c.has : \E t \in c.via : f \in roundTripSkill(t, c.born, c.words)
              /\ c.wraps > 0 => \E t \in c.via : "procedure" \in roundTripSkill(t, c.born, c.words)
              /\ c.text # c.words => \E t \in c.via : "description" \in roundTripSkill(t, c.born, c.words)

SoundFile(c) == c \in SkillFile /\ Explained(c)

LEMMA NewSound ==
    ASSUME NEW b \in Backend, NEW F \in Authored, NEW text \in Text \cup {"broken"}
    PROVE  SoundFile(NewSkill(b, F, text))
BY ToolsAssumption DEF NewSkill, SoundFile, SkillFile, Explained, Authored, BasicFields, SkillFields

LEMMA ConvertedSound ==
    ASSUME NEW a \in Backend, NEW b \in Backend, NEW c, SoundFile(c), c.text # "broken"
    PROVE  /\ SoundFile(ConvertSkill(a, b, ReadSkill(a, c)))
           /\ ConvertSkill(a, b, ReadSkill(a, c)).text = Yaml(Render[b].text, c.text)
<1>1. /\ c \in [has : SUBSET SkillFields, born : Authored, text : Text \cup {"broken"},
                words : Text \cup {"broken"}, wraps : 0..MaxWraps, via : SUBSET Backend]
      /\ c.has \subseteq c.born
  BY DEF SoundFile, SkillFile
<1>2. PICK n \in {0, 1} : n = Render[b].wraps
  BY Fits DEF Fitting
<1>3. PICK d : d = ConvertSkill(a, b, ReadSkill(a, c))
  OBVIOUS
<1>4. PICK text \in Text \cup {"broken"} : text = Yaml(Render[b].text, c.text)
  BY <1>1, YamlKeeps
<1>5. d = [has |-> c.has \cap Parse[a].fields \cap Render[b].fields, born |-> c.born,
           text |-> text, words |-> c.words,
           wraps |-> Capped(c.wraps + n), via |-> c.via \cup {a, b}]
  BY <1>1, <1>2, <1>3, <1>4 DEF ConvertSkill, WriteSkill, ReadSkill
<1>6. Capped(c.wraps + n) \in 0..MaxWraps
  BY <1>1, ToolsAssumption DEF Capped
<1>7. d \in SkillFile
  BY <1>1, <1>5, <1>6 DEF SkillFile
<1>8. c.words \in Text /\ c.text \in {c.words, "cut"}
  BY <1>1 DEF SoundFile, Explained
<1>9. text \in {c.text, "cut", "broken"} /\ (c.text = "cut" => text = "cut")
  BY <1>1, <1>4, YamlKeeps
<1>10. d.text \in {d.words, "cut", "broken"} /\ d.words # "broken"
  BY <1>5, <1>8, <1>9 DEF Text
<1>11. CASE \E t \in d.via : "(skill)" \in roundTripSkill(t, d.born, d.words)
  BY <1>3, <1>4, <1>5, <1>7, <1>10, <1>11 DEF SoundFile, Explained
<1>12. CASE ~\E t \in d.via : "(skill)" \in roundTripSkill(t, d.born, d.words)
  <2>1. \A t \in c.via : "(skill)" \notin roundTripSkill(t, c.born, c.words)
    BY <1>5, <1>12
  <2>2. /\ \A f \in c.born \ c.has : \E t \in c.via : f \in roundTripSkill(t, c.born, c.words)
        /\ c.wraps > 0 => \E t \in c.via : "procedure" \in roundTripSkill(t, c.born, c.words)
        /\ c.text # c.words => \E t \in c.via : "description" \in roundTripSkill(t, c.born, c.words)
    BY <1>8, <2>1 DEF SoundFile, Explained, Text
  <2>3. "(skill)" \notin roundTripSkill(a, c.born, c.words) /\ "(skill)" \notin roundTripSkill(b, c.born, c.words)
    BY <1>5, <1>12
  <2>4. \A f \in c.born : f \notin Parse[a].fields => f \in roundTripSkill(a, c.born, c.words)
    BY <1>1, <1>8, <2>3, RoundTrip
  <2>5. /\ Yaml(Render[b].text, c.words) # "broken"
        /\ \A f \in c.born : f \notin Render[b].fields => f \in roundTripSkill(b, c.born, c.words)
        /\ (Render[b].wraps = 1 /\ MaxWraps > 0) => "procedure" \in roundTripSkill(b, c.born, c.words)
        /\ Yaml(Render[b].text, c.words) # c.words => "description" \in roundTripSkill(b, c.born, c.words)
    BY <1>1, <1>8, <2>3, RoundTrip
  <2>6. d.text # "broken"
    BY <1>4, <1>5, <1>8, <1>9, <2>5
  <2>7. ASSUME NEW f \in d.born \ d.has PROVE \E t \in d.via : f \in roundTripSkill(t, d.born, d.words)
    <3>1. f \notin c.has \/ f \notin Parse[a].fields \/ f \notin Render[b].fields
      BY <1>5, <2>7
    <3> QED
      BY <1>5, <2>2, <2>4, <2>5, <2>7, <3>1
  <2>8. ASSUME d.wraps > 0 PROVE \E t \in d.via : "procedure" \in roundTripSkill(t, d.born, d.words)
    <3>1. CASE c.wraps > 0
      BY <1>5, <2>2, <3>1
    <3>2. CASE ~(c.wraps > 0)
      <4>1. n = 1 /\ MaxWraps > 0
        BY <1>1, <1>5, <2>8, <3>2, ToolsAssumption DEF Capped
      <4> QED
        BY <1>2, <1>5, <2>5, <4>1
    <3> QED
      BY <3>1, <3>2
  <2>9. ASSUME d.text # d.words PROVE \E t \in d.via : "description" \in roundTripSkill(t, d.born, d.words)
    <3>1. CASE c.text # c.words
      BY <1>5, <2>2, <3>1
    <3>2. CASE c.text = c.words
      BY <1>4, <1>5, <2>5, <2>9, <3>2
    <3> QED
      BY <3>1, <3>2
  <2>10. Explained(d)
    BY <1>10, <2>6, <2>7, <2>8, <2>9 DEF Explained
  <2> QED
    BY <1>3, <1>4, <1>5, <1>7, <2>10 DEF SoundFile
<1> QED
  BY <1>11, <1>12

-----------------------------------------------------------------------------
(* Types, and what every file holds.                                       *)

FilesSound ==
    \A d \in Dir, o \in Slot, s \in Skill :
        skills[d][o][s] \in SkillFile => Explained(skills[d][o][s])

Base == TranslationTypes /\ FilesSound

LEMMA Homes == \A b \in Backend : Home(b) \in Dir
BY DEF Home, Dir

\* A skill that a tool reads comes from a readable file in its place.
LEMMA ReadFrom ==
    ASSUME Base, NEW b \in Backend, NEW s \in Skill, NEW c \in ReadSkills(b, s)
    PROVE  \E raw : SoundFile(raw) /\ raw.text # "broken" /\ c = ReadSkill(b, raw) /\ c.text = raw.text
<1>1. Parse[b].dir \in Dir
  BY Fits, Homes DEF Fitting
<1>2. PICK o \in Slot : /\ skills[Parse[b].dir][o][s] # None
                        /\ skills[Parse[b].dir][o][s].text # "broken"
                        /\ c = ReadSkill(b, skills[Parse[b].dir][o][s])
  BY DEF ReadSkills
<1>3. skills[Parse[b].dir][o][s] \in SkillFile
  BY <1>1, <1>2 DEF Base, TranslationTypes
<1>4. SoundFile(skills[Parse[b].dir][o][s])
  BY <1>1, <1>3 DEF Base, FilesSound, SoundFile
<1>5. PICK raw \in SkillFile : raw = skills[Parse[b].dir][o][s]
  BY <1>3
<1>6. ReadSkill(b, raw).text = raw.text
  BY DEF ReadSkill, SkillFile
<1> QED
  BY <1>2, <1>4, <1>5, <1>6

\* What a step leaves in the one directory that it writes to.
LEMMA FilesOver ==
    ASSUME Base, NEW d \in Dir, NEW dir \in [Slot -> [Skill -> SkillFile \cup {None}]],
           \A o \in Slot, s \in Skill : dir[o][s] = skills[d][o][s] \/ SoundFile(dir[o][s]),
           skills' = [skills EXCEPT ![d] = dir]
    PROVE  /\ skills' \in [Dir -> [Slot -> [Skill -> SkillFile \cup {None}]]]
           /\ FilesSound'
           /\ skills'[d] = dir
           /\ \A e \in Dir \ {d} : skills'[e] = skills[e]
<1>1. skills \in [Dir -> [Slot -> [Skill -> SkillFile \cup {None}]]]
  BY DEF Base, TranslationTypes
<1>2. skills' \in [Dir -> [Slot -> [Skill -> SkillFile \cup {None}]]]
  BY <1>1
<1>3. \A e \in Dir : skills'[e] = IF e = d THEN dir ELSE skills[e]
  BY <1>1
<1>4. FilesSound'
  BY <1>3 DEF FilesSound, Base, SoundFile
<1> QED
  BY <1>1, <1>2, <1>3, <1>4

LEMMA WriteSteps ==
    ASSUME Base, NEW b \in Backend, NEW S \in SUBSET Skill, NEW F \in Authored,
           NEW text \in Words \cup {"broken"}, NEW severity \in Severity \cup {"unmarked"},
           NEW scope \in Scopes \cup {"unmarked"}, Write(b, S, F, text, severity, scope)
    PROVE  Base'
<1>1. Fitting(b, Parse[b], Render[b]) /\ Home(b) \in Dir
  BY Fits, Homes
<1>2. PICK d \in Dir : d = Parse[b].dir
  BY <1>1 DEF Fitting
<1>3. PICK put : put = [s \in Skill |-> IF s \in S THEN NewSkill(b, F, text) ELSE skills[d]["plain"][s]]
  OBVIOUS
<1>4. PICK dir : dir = [skills[d] EXCEPT !["plain"] = put]
  OBVIOUS
<1>5. skills' = [skills EXCEPT ![d] = dir]
  <2>1. skills' = [skills EXCEPT ![d]["plain"] =
            [s \in Skill |-> IF s \in S THEN NewSkill(b, F, text) ELSE skills[d]["plain"][s]]]
    BY <1>2 DEF Write
  <2>2. skills' = [skills EXCEPT ![d]["plain"] = put]
    BY <1>3, <2>1
  <2> QED
    BY <1>4, <2>2
<1>6. text \in Text \cup {"broken"} /\ scope \in Text \cup {"unmarked"}
  BY ToolsAssumption
<1>7. /\ dir \in [Slot -> [Skill -> SkillFile \cup {None}]]
      /\ \A o \in Slot, s \in Skill : dir[o][s] = skills[d][o][s] \/ SoundFile(dir[o][s])
  <2>1. put \in [Skill -> SkillFile \cup {None}]
    BY <1>3, <1>6, NewSound DEF SoundFile, Base, TranslationTypes, Slot
  <2>2. \A s \in Skill : put[s] = skills[d]["plain"][s] \/ SoundFile(put[s])
    BY <1>3, <1>6, NewSound
  <2>3. skills[d] \in [Slot -> [Skill -> SkillFile \cup {None}]]
    BY DEF Base, TranslationTypes
  <2> QED
    BY <1>4, <2>1, <2>2, <2>3 DEF Slot
<1>8. skills' \in [Dir -> [Slot -> [Skill -> SkillFile \cup {None}]]] /\ FilesSound'
  BY <1>5, <1>7, FilesOver
<1>9. rules' \in [Dir -> [Rule -> RuleFile \cup {None}]]
  <2>1. [severity |-> severity, scope |-> scope, text |-> text] \in RuleFile
    BY <1>6 DEF RuleFile
  <2> QED
    BY <2>1 DEF Write, Base, TranslationTypes
<1>10. anchors' \in [Backend -> {"none", "empty", "list", "text", "overlong"}]
  BY DEF Write, Base, TranslationTypes
<1>11. personas' \in [Dir -> Text \cup {"none", "broken"}]
  BY <1>2, <1>6 DEF Write, Base, TranslationTypes
<1>12. parts' \in [Dir -> SUBSET {"hook", "mcp"}]
  <2>1. Parse[b].parts \ {"persona"} \subseteq {"hook", "mcp"}
    BY <1>1 DEF Fitting
  <2> QED
    BY <2>1 DEF Write, Base, TranslationTypes
<1>13. writes' \in 0..MaxWrites /\ UNCHANGED <<commands, last, conversions>>
  BY ToolsAssumption DEF Write, Base, TranslationTypes
<1> QED
  BY <1>8, <1>9, <1>10, <1>11, <1>12, <1>13 DEF Base, TranslationTypes

\* A conversion leaves sound files in the target's directory, one for each skill
\* that it keeps with the text as the target's front matter has it, and all other
\* directories alone.
LEMMA ConvertFiles ==
    ASSUME Base, NEW a \in Backend, NEW b \in Backend, NEW o \in Override, Convert(a, b, o)
    PROVE  /\ skills' \in [Dir -> [Slot -> [Skill -> SkillFile \cup {None}]]] /\ FilesSound'
           /\ last'.from = a /\ last'.to = b
           /\ DOMAIN last'.listed = Kept(a, o)
           /\ \A s \in Kept(a, o) :
                  /\ skills'[Home(b)][Render[b].slot][s] \in SkillFile
                  /\ skills'[Home(b)][Render[b].slot][s].text = Yaml(Render[b].text, last'.listed[s])
           /\ \A e \in Dir \ {Home(b)} : skills'[e] = skills[e]
<1>1. Fitting(b, Parse[b], Render[b]) /\ Home(b) \in Dir
  BY Fits, Homes
<1>2. PICK d \in Dir, q \in Slot : d = Home(b) /\ d = Render[b].dir /\ q = Render[b].slot
  BY <1>1 DEF Fitting
<1>3. PICK kept \in SUBSET Skill : kept = Kept(a, o)
  <2>1. Kept(a, o) \subseteq Skill
    BY DEF Kept
  <2> QED
    BY <2>1
<1>4. PICK from : /\ \A s \in kept : from[s] \in ReadSkills(a, s)
                  /\ skills' = [skills EXCEPT ![d][q] =
                         [s \in Skill |-> IF s \in kept THEN ConvertSkill(a, b, from[s])
                                          ELSE skills[d][q][s]]]
                  /\ last' = [from |-> a, to |-> b, listed |-> [s \in kept |-> from[s].text]]
  <2>1. PICK from : /\ \A s \in Kept(a, o) : from[s] \in ReadSkills(a, s)
                    /\ skills' = [skills EXCEPT ![Render[b].dir][Render[b].slot] =
                           [s \in Skill |-> IF s \in Kept(a, o) THEN ConvertSkill(a, b, from[s])
                                            ELSE skills[Render[b].dir][Render[b].slot][s]]]
                    /\ last' = [from |-> a, to |-> b, listed |-> [s \in Kept(a, o) |-> from[s].text]]
    BY DEF Convert
  <2> QED
    BY <1>2, <1>3, <2>1
<1>5. ASSUME NEW s \in kept
      PROVE  /\ SoundFile(ConvertSkill(a, b, from[s]))
             /\ ConvertSkill(a, b, from[s]).text = Yaml(Render[b].text, from[s].text)
  <2>1. PICK raw : SoundFile(raw) /\ raw.text # "broken" /\ from[s] = ReadSkill(a, raw) /\ from[s].text = raw.text
    BY <1>4, ReadFrom
  <2> QED
    BY <2>1, ConvertedSound
<1>6. PICK put : put = [s \in Skill |-> IF s \in kept THEN ConvertSkill(a, b, from[s])
                                        ELSE skills[d][q][s]]
  OBVIOUS
<1>7. PICK dir : dir = [skills[d] EXCEPT ![q] = put]
  OBVIOUS
<1>8. skills' = [skills EXCEPT ![d] = dir]
  <2>1. skills' = [skills EXCEPT ![d][q] = put]
    BY <1>4, <1>6
  <2> QED
    BY <1>7, <2>1
<1>9. /\ \A s \in kept : SoundFile(put[s]) /\ put[s].text = Yaml(Render[b].text, from[s].text)
      /\ \A s \in Skill \ kept : put[s] = skills[d][q][s]
      /\ put \in [Skill -> SkillFile \cup {None}]
  <2>1. \A s \in kept : SoundFile(put[s]) /\ put[s].text = Yaml(Render[b].text, from[s].text)
    BY <1>5, <1>6
  <2>2. \A s \in Skill \ kept : put[s] = skills[d][q][s]
    BY <1>6
  <2>3. \A s \in Skill : put[s] \in SkillFile \cup {None}
    BY <2>1, <2>2 DEF SoundFile, Base, TranslationTypes
  <2> QED
    BY <1>6, <2>1, <2>2, <2>3
<1>10. /\ dir \in [Slot -> [Skill -> SkillFile \cup {None}]]
       /\ \A p \in Slot, s \in Skill : dir[p][s] = skills[d][p][s] \/ SoundFile(dir[p][s])
       /\ dir[q] = put
  <2>1. skills[d] \in [Slot -> [Skill -> SkillFile \cup {None}]]
    BY DEF Base, TranslationTypes
  <2> QED
    BY <1>7, <1>9, <2>1
<1>11. /\ skills' \in [Dir -> [Slot -> [Skill -> SkillFile \cup {None}]]] /\ FilesSound'
       /\ skills'[d] = dir /\ \A e \in Dir \ {d} : skills'[e] = skills[e]
  BY <1>8, <1>10, FilesOver
<1>12. last'.listed = [s \in kept |-> from[s].text] /\ last'.from = a /\ last'.to = b
  BY <1>4
<1> QED
  BY <1>2, <1>3, <1>9, <1>10, <1>11, <1>12 DEF SoundFile

LEMMA ReadRuleType ==
    ASSUME Base, NEW b \in Backend, NEW r \in Rule
    PROVE  \/ ReadRule(b, r) = None
           \/ /\ ReadRule(b, r) \in [severity : Severity, scope : Text, text : Text]
              /\ ReadRule(b, r) # None
<1>1. Fitting(b, Parse[b], Render[b]) /\ Home(b) \in Dir
  BY Fits, Homes
<1>2. Parse[b].rules \in Dir \cup {None} /\ Parse[b].unmarked \in Severity
  BY <1>1 DEF Fitting, Dir
<1>3. SUFFICES ASSUME ReadRule(b, r) # None
               PROVE  ReadRule(b, r) \in [severity : Severity, scope : Text, text : Text]
  OBVIOUS
<1>4. PICK c \in RuleFile : /\ c.scope # "broken" /\ c.text # "broken" /\ ReadRule(b, r) = StatedRule(b, c)
                            /\ c = rules[Parse[b].rules][r]
  BY <1>2, <1>3 DEF ReadRule, Base, TranslationTypes
<1>5. DefaultScope \in Text
  BY DEF DefaultScope, Text
<1> QED
  BY <1>2, <1>4, <1>5 DEF StatedRule, RuleFile

\* A rule as the target writes it, with the severity it has.
LEMMA WriteRuleType ==
    ASSUME NEW b, NEW c \in [severity : Severity, scope : Text, text : Text]
    PROVE  /\ WriteRule(b, c) \in RuleFile
           /\ WriteRule(b, c).severity = c.severity /\ c.severity \in Severity
           /\ WriteRule(b, c).scope = Yaml(Render[b].rules, c.scope) /\ WriteRule(b, c).scope # "unmarked"
           /\ WriteRule(b, c).text = Yaml("raw", c.text)
<1>1. Yaml(Render[b].rules, c.scope) \in Text \cup {"broken"} /\ Yaml("raw", c.text) \in Text \cup {"broken"}
  BY YamlKeeps
<1>2. c = [severity |-> c.severity, scope |-> c.scope, text |-> c.text]
  OBVIOUS
<1>3. WriteRule(b, c) = [severity |-> c.severity, scope |-> Yaml(Render[b].rules, c.scope),
                         text |-> Yaml("raw", c.text)]
  <2>1. PICK v : v = WriteRule(b, c)
    OBVIOUS
  <2>2. v \in [{"severity", "scope", "text"} -> {v.severity, v.scope, v.text}]
    BY <1>2, <2>1 DEF WriteRule
  <2>3. /\ v.severity = c.severity /\ v.text = Yaml("raw", c.text)
        /\ v.scope = Yaml(Render[b].rules, c.scope)
    BY <1>2, <2>1 DEF WriteRule
  <2> QED
    BY <2>1, <2>2, <2>3
<1> QED
  BY <1>1, <1>3 DEF RuleFile, Text

LEMMA ReadPersonaType ==
    ASSUME Base, NEW b \in Backend PROVE ReadPersona(b) \in Text \cup {"none"}
<1>1. Parse[b].dir \in Dir
  BY Fits, Homes DEF Fitting
<1> QED
  BY <1>1 DEF ReadPersona, Base, TranslationTypes

\* The rules, the position file, the persona and the other parts after a conversion.
LEMMA ConvertRest ==
    ASSUME Base, NEW a \in Backend, NEW b \in Backend, NEW o \in Override, Convert(a, b, o)
    PROVE  /\ \A r \in Rule : Render[b].rules # "none" =>
                  rules'[Home(b)][r] = IF ReadRule(a, r) = None THEN rules[Home(b)][r]
                                       ELSE WriteRule(b, ReadRule(a, r))
           /\ \A e \in Dir : rules'[e] # rules[e] => e = Home(b)
           /\ anchors'[b] \in RenderAnchor(b, ReadAnchor(a))
           /\ \A c \in Backend \ {b} : anchors'[c] = anchors[c]
           /\ personas'[Home(b)] = IF "persona" \notin Render[b].parts \/ ReadPersona(a) = "none"
                                   THEN personas[Home(b)] ELSE Yaml("raw", ReadPersona(a))
           /\ \A e \in Dir \ {Home(b)} : personas'[e] = personas[e]
           /\ parts'[Home(b)] = parts[Home(b)] \cup (ReadParts(a) \cap Render[b].parts)
           /\ \A e \in Dir \ {Home(b)} : parts'[e] = parts[e]
           /\ rules' \in [Dir -> [Rule -> RuleFile \cup {None}]]
           /\ anchors' \in [Backend -> {"none", "empty", "list", "text", "overlong"}]
           /\ personas' \in [Dir -> Text \cup {"none", "broken"}]
           /\ parts' \in [Dir -> SUBSET {"hook", "mcp"}]
<1>1. Fitting(b, Parse[b], Render[b]) /\ Home(b) \in Dir
  BY Fits, Homes
<1>2. PICK d \in Dir : d = Home(b) /\ d = Parse[b].dir
  BY <1>1 DEF Fitting
<1>3. /\ \A r \in Rule : Render[b].rules # "none" =>
             rules'[d][r] = IF ReadRule(a, r) = None THEN rules[d][r] ELSE WriteRule(b, ReadRule(a, r))
      /\ \A e \in Dir : rules'[e] # rules[e] => e = d
      /\ rules' \in [Dir -> [Rule -> RuleFile \cup {None}]]
  <2>1. CASE Render[b].rules = "none"
    BY <2>1 DEF Convert, Base, TranslationTypes
  <2>2. CASE Render[b].rules # "none"
    <3>1. PICK put : put = [r \in Rule |-> IF ReadRule(a, r) = None THEN rules[d][r]
                                           ELSE WriteRule(b, ReadRule(a, r))]
      OBVIOUS
    <3>2. put \in [Rule -> RuleFile \cup {None}]
      BY <3>1, ReadRuleType, WriteRuleType DEF Base, TranslationTypes
    <3>3. Parse[b].rules = d
      BY <1>1, <1>2, <2>2 DEF Fitting
    <3>4. rules' = [rules EXCEPT ![d] = put]
      <4>1. rules' = [rules EXCEPT ![d] =
                [r \in Rule |-> IF ReadRule(a, r) = None THEN rules[d][r] ELSE WriteRule(b, ReadRule(a, r))]]
        BY <2>2, <3>3 DEF Convert
      <4> QED
        BY <3>1, <4>1
    <3> QED
      BY <2>2, <3>1, <3>2, <3>4 DEF Base, TranslationTypes
  <2> QED
    BY <2>1, <2>2
<1>4. /\ anchors'[b] \in RenderAnchor(b, ReadAnchor(a))
      /\ \A c \in Backend \ {b} : anchors'[c] = anchors[c]
      /\ anchors' \in [Backend -> {"none", "empty", "list", "text", "overlong"}]
  <2>1. ReadAnchor(a) \in {"none", "empty", "list", "text", "overlong"}
    BY DEF ReadAnchor, Base, TranslationTypes
  <2>2. RenderAnchor(b, ReadAnchor(a)) \subseteq {"none", "empty", "list", "text", "overlong"}
    <3>1. anchors[b] \in {"none", "empty", "list", "text", "overlong"}
      BY DEF Base, TranslationTypes
    <3> QED
      BY <1>1, <2>1, <3>1 DEF RenderAnchor, Fitting
  <2>3. PICK text \in RenderAnchor(b, ReadAnchor(a)) : anchors' = [anchors EXCEPT ![b] = text]
    BY DEF Convert
  <2> QED
    BY <2>2, <2>3 DEF Base, TranslationTypes
<1>5. /\ personas'[d] = IF "persona" \notin Render[b].parts \/ ReadPersona(a) = "none"
                        THEN personas[d] ELSE Yaml("raw", ReadPersona(a))
      /\ \A e \in Dir \ {d} : personas'[e] = personas[e]
      /\ personas' \in [Dir -> Text \cup {"none", "broken"}]
  <2>1. PICK persona : persona = IF "persona" \notin Render[b].parts \/ ReadPersona(a) = "none"
                                 THEN personas[d] ELSE Yaml("raw", ReadPersona(a))
    OBVIOUS
  <2>2. persona \in Text \cup {"none", "broken"}
    BY <2>1, ReadPersonaType, YamlKeeps DEF Base, TranslationTypes
  <2>3. personas' = [personas EXCEPT ![d] = persona]
    BY <1>2, <2>1 DEF Convert
  <2> QED
    BY <2>1, <2>2, <2>3 DEF Base, TranslationTypes
<1>6. /\ parts'[d] = parts[d] \cup (ReadParts(a) \cap Render[b].parts)
      /\ \A e \in Dir \ {d} : parts'[e] = parts[e]
      /\ parts' \in [Dir -> SUBSET {"hook", "mcp"}]
  <2>1. ReadParts(a) \subseteq {"hook", "mcp"}
    <3>1. Parse[a].dir \in Dir
      BY Fits, Homes DEF Fitting
    <3> QED
      BY <3>1 DEF ReadParts, Base, TranslationTypes
  <2> QED
    BY <1>2, <2>1 DEF Convert, Base, TranslationTypes
<1> QED
  BY <1>2, <1>3, <1>4, <1>5, <1>6

LEMMA ConvertSteps ==
    ASSUME Base, NEW a \in Backend, NEW b \in Backend, NEW o \in Override, Convert(a, b, o)
    PROVE  Base'
<1>1. Kept(a, o) \subseteq Skill
  BY DEF Kept
<1>2. commands' \in [Backend -> SUBSET Skill]
  <2>1. commands' = [commands EXCEPT ![b] =
            IF ~Render[b].commands THEN @
            ELSE IF o.delivery_mode = "skills_only" /\ HasCommands(b) THEN @ \ Kept(a, o)
            ELSE @ \cup Kept(a, o)]
    BY DEF Convert
  <2> QED
    BY <1>1, <2>1 DEF Base, TranslationTypes
<1>3. last'.from \in Backend /\ last'.to \in Backend /\ DOMAIN last'.listed \subseteq Skill
  BY <1>1, ConvertFiles
<1>4. conversions' \in 0..MaxConversions /\ writes' = writes
  BY ToolsAssumption DEF Convert, Base, TranslationTypes
<1>5. skills' \in [Dir -> [Slot -> [Skill -> SkillFile \cup {None}]]] /\ FilesSound'
  BY ConvertFiles
<1> QED
  BY <1>2, <1>3, <1>4, <1>5, ConvertRest DEF Base, TranslationTypes

LEMMA InitBase == TranslationInit => Base
<1> SUFFICES ASSUME TranslationInit PROVE Base
  OBVIOUS
<1>1. skills \in [Dir -> [Slot -> [Skill -> SkillFile \cup {None}]]]
  BY DEF TranslationInit, Unwritten
<1>2. FilesSound
  BY FileAssumption DEF TranslationInit, Unwritten, FilesSound
<1>3. writes \in 0..MaxWrites /\ conversions \in 0..MaxConversions
  BY ToolsAssumption DEF TranslationInit, Unwritten
<1> QED
  BY <1>1, <1>2, <1>3 DEF TranslationInit, Unwritten, Base, TranslationTypes

LEMMA NextBase == ASSUME Base, [TranslationNext]_translation PROVE Base'
<1>1. CASE UNCHANGED translation
  BY <1>1 DEF Base, TranslationTypes, FilesSound, translation
<1>2. CASE TranslationNext
  BY <1>2, WriteSteps, ConvertSteps DEF TranslationNext
<1> QED
  BY <1>1, <1>2

LEMMA BaseInvariant == TranslationSpec => []Base
BY InitBase, NextBase, PTL DEF TranslationSpec

\* Every file is of the kind its place is for, for any of the tools.
THEOREM TypeCorrect == TranslationSpec => []TranslationTypes
<1>1. Base => TranslationTypes
  BY DEF Base
<1> QED
  BY <1>1, BaseInvariant, PTL

\* Whatever chain of conversions a skill has been through, and whichever tool reads
\* it in the end: what is missing, cut or changed, and that a file can no longer be
\* read, is foreseen by bp skill test for one of the tools of the chain.
THEOREM LossesAreForeseen == TranslationSpec => []LossesForeseen
<1>1. ASSUME NEW c, SoundFile(c), c.words # "broken", NEW T, c.via \subseteq T, T \subseteq Backend
      PROVE  \/ "(skill)" \in Foreseen(T, c)
             \/ /\ c.text # "broken"
                /\ c.born \ c.has \subseteq Foreseen(T, c)
                /\ c.wraps > 0 => "procedure" \in Foreseen(T, c)
                /\ c.text # c.words => "description" \in Foreseen(T, c)
  <2>1. c.born \in Authored /\ c.words \in Text
    BY <1>1 DEF SoundFile, SkillFile
  <2>2. \A t \in T : roundTripSkill(t, c.born, c.words) \subseteq Foreseen(T, c)
    BY <1>1, <2>1 DEF Foreseen, Warnings
  <2>3. \A f : (\E t \in c.via : f \in roundTripSkill(t, c.born, c.words)) => f \in Foreseen(T, c)
    BY <1>1, <2>2
  <2> QED
    BY <1>1, <2>3 DEF SoundFile, Explained
<1>2. ASSUME Base, NEW b \in Backend, NEW s \in Skill, NEW c \in ReadSkills(b, s)
      PROVE  LET foreseen == Foreseen(c.via \cup {b}, c)
             IN  "(skill)" \in foreseen \/ /\ c.born \ c.has \subseteq foreseen
                                           /\ c.wraps > 0 => "procedure" \in foreseen
                                           /\ c.text # c.words => "description" \in foreseen
  <2>1. PICK raw : SoundFile(raw) /\ raw.text # "broken" /\ c = ReadSkill(b, raw)
    BY <1>2, ReadFrom
  <2>2. /\ raw \in [has : SUBSET SkillFields, born : Authored, text : Text \cup {"broken"},
                    words : Text \cup {"broken"}, wraps : 0..MaxWraps, via : SUBSET Backend]
        /\ raw.words # "broken"
    BY <2>1 DEF SoundFile, SkillFile, Explained
  <2>3. /\ c.has = raw.has \cap Parse[b].fields /\ c.born = raw.born /\ c.wraps = raw.wraps
        /\ c.via = raw.via /\ c.text = raw.text /\ c.words = raw.words
    BY <2>1, <2>2 DEF ReadSkill
  <2>4. PICK T : T = raw.via \cup {b}
    OBVIOUS
  <2>5. T \subseteq Backend /\ Foreseen(T, raw) = Foreseen(c.via \cup {b}, c)
    BY <2>2, <2>3, <2>4 DEF Foreseen
  <2>6. roundTripSkill(b, c.born, c.words) \subseteq Foreseen(T, raw)
    BY <2>2, <2>3, <2>4 DEF Foreseen, Warnings
  <2>7. \/ "(skill)" \in Foreseen(T, raw)
        \/ /\ raw.born \ raw.has \subseteq Foreseen(T, raw)
           /\ raw.wraps > 0 => "procedure" \in Foreseen(T, raw)
           /\ raw.text # raw.words => "description" \in Foreseen(T, raw)
    BY <1>1, <2>1, <2>2, <2>4, <2>5
  <2>8. "(skill)" \in Foreseen(T, raw) \/ \A f \in c.born : f \notin Parse[b].fields => f \in Foreseen(T, raw)
    BY <2>2, <2>3, <2>6, RoundTrip
  <2> QED
    BY <2>3, <2>5, <2>7, <2>8
<1>3. ASSUME Base, NEW d \in Dir, NEW o \in Slot, NEW s \in Skill, skills[d][o][s] # None,
             skills[d][o][s].text = "broken", skills[d][o][s].words # "broken"
      PROVE  "(skill)" \in Foreseen(skills[d][o][s].via, skills[d][o][s])
  <2>1. skills[d][o][s] \in SkillFile
    BY <1>3 DEF Base, TranslationTypes
  <2>2. SoundFile(skills[d][o][s])
    BY <1>3, <2>1 DEF Base, FilesSound, SoundFile
  <2>3. skills[d][o][s].via \subseteq Backend
    BY <2>1 DEF SkillFile
  <2> QED
    BY <1>1, <1>3, <2>2, <2>3
<1>4. Base => LossesForeseen
  BY <1>2, <1>3 DEF LossesForeseen
<1> QED
  BY <1>4, BaseInvariant, PTL

LEMMA ConvertedBy ==
    ASSUME Base, [TranslationNext]_translation, Converted, NEW a \in {last'.from}, NEW b \in {last'.to}
    PROVE  a \in Backend /\ b \in Backend /\ \E o \in Override : Convert(a, b, o)
<1>1. conversions' # conversions
  BY DEF Converted
<1>2. ASSUME NEW c \in Backend, NEW S, NEW F, NEW text, NEW severity, NEW scope,
             Write(c, S, F, text, severity, scope)
      PROVE  FALSE
  BY <1>1, <1>2 DEF Write
<1>3. PICK x \in Backend, y \in Backend, o \in Override : Convert(x, y, o)
  BY <1>1, <1>2 DEF TranslationNext, translation
<1>4. last'.from = x /\ last'.to = y
  BY <1>3, ConvertFiles
<1>5. x = a /\ y = b
  BY <1>4
<1> QED
  BY <1>3, <1>5

\* What the source reads and the target can hold, the target reads afterwards, for
\* every pair of the thirty-one tools, but for the texts that the target's adapter
\* writes unquoted where they need quotes.
THEOREM ConversionArrives == TranslationSpec => Arrives
<1>1. ASSUME Base, [TranslationNext]_translation, Converted, NEW a \in {last'.from}, NEW b \in {last'.to}
      PROVE  /\ \A s \in DOMAIN last'.listed : SkillFits(b, last'.listed[s]) => ReadSkills(b, s)' # {}
             /\ Render[b].rules # "none" => \A r \in Rule : LET c == ReadRule(a, r)
                    IN  c # None /\ RuleFits(b, c) =>
                            ReadRule(b, r)' # None /\ ReadRule(b, r)'.severity = c.severity
             /\ (Render[b].anchor # "none" /\ ReadAnchor(a) \in {"list", "text"})
                    => ReadAnchor(b)' \in {"list", "text", "overlong"}
             /\ ("persona" \in Parse[b].parts /\ ReadPersona(a) \notin {"none", "special"})
                    => ReadPersona(b)' # "none"
             /\ ReadParts(a) \cap Parse[b].parts \subseteq ReadParts(b)'
  <2>0. a \in Backend /\ b \in Backend
    BY <1>1, ConvertedBy
  <2>1. PICK o \in Override : Convert(a, b, o)
    BY <1>1, ConvertedBy
  <2>2. Fitting(b, Parse[b], Render[b]) /\ Home(b) \in Dir
    BY <2>0, Fits, Homes
  <2>3. ASSUME NEW s \in DOMAIN last'.listed, SkillFits(b, last'.listed[s])
        PROVE  ReadSkills(b, s)' # {}
    <3>1. s \in Kept(a, o)
      BY <1>1, <2>0, <2>1, <2>3, ConvertFiles
    <3>2. PICK q \in Slot : q = Render[b].slot
      BY <2>2 DEF Fitting
    <3>3. /\ skills'[Parse[b].dir][q][s] \in SkillFile
          /\ skills'[Parse[b].dir][q][s].text # "broken"
      BY <1>1, <2>0, <2>1, <2>2, <2>3, <3>1, <3>2, ConvertFiles DEF Fitting, SkillFits
    <3>4. ReadSkill(b, skills'[Parse[b].dir][q][s]) \in ReadSkills(b, s)'
      BY <3>2, <3>3, FileAssumption DEF ReadSkills
    <3> QED
      BY <3>4
  <2>4. ASSUME Render[b].rules # "none", NEW r \in Rule, ReadRule(a, r) # None, RuleFits(b, ReadRule(a, r))
        PROVE  ReadRule(b, r)' # None /\ ReadRule(b, r)'.severity = ReadRule(a, r).severity
    <3>1. Parse[b].rules = Home(b) /\ Parse[b].rules # None
      BY <2>2, <2>4, ToolsAssumption DEF Fitting
    <3>2. rules'[Home(b)][r] = WriteRule(b, ReadRule(a, r))
      BY <1>1, <2>0, <2>1, <2>4, ConvertRest
    <3>3. PICK c \in [severity : Severity, scope : Text, text : Text] : c = ReadRule(a, r)
      BY <1>1, <2>0, <2>4, ReadRuleType
    <3>4. PICK w \in RuleFile : /\ w = WriteRule(b, c) /\ w.severity = c.severity /\ w.severity # "unmarked"
                                /\ w.scope \notin {"unmarked", "broken"} /\ w.text # "broken"
      BY <2>4, <3>3, WriteRuleType DEF RuleFits, Severity
    <3>5. w # None /\ StatedRule(b, w) = w
      BY <3>4, FileAssumption DEF StatedRule, RuleFile
    <3>6. ReadRule(b, r)' = w
      BY <3>1, <3>2, <3>3, <3>4, <3>5 DEF ReadRule
    <3> QED
      BY <3>3, <3>4, <3>5, <3>6
  <2>5. ASSUME Render[b].anchor # "none", ReadAnchor(a) \in {"list", "text"}
        PROVE  ReadAnchor(b)' \in {"list", "text", "overlong"}
    <3>1. RenderAnchor(b, ReadAnchor(a)) \subseteq {"list", "text", "overlong"}
      BY <2>2, <2>5 DEF RenderAnchor, Fitting
    <3>2. Parse[b].anchor
      BY <2>2, <2>5 DEF Fitting
    <3>3. anchors'[b] \in RenderAnchor(b, ReadAnchor(a))
      BY <1>1, <2>0, <2>1, ConvertRest
    <3> QED
      BY <3>1, <3>2, <3>3 DEF ReadAnchor
  <2>6. ASSUME "persona" \in Parse[b].parts, ReadPersona(a) \notin {"none", "special"}
        PROVE  ReadPersona(b)' # "none"
    <3>1. "persona" \in Render[b].parts /\ Parse[b].dir = Home(b)
      BY <2>2, <2>6 DEF Fitting
    <3>2. personas'[Home(b)] = Yaml("raw", ReadPersona(a))
      BY <1>1, <2>0, <2>1, <2>6, <3>1, ConvertRest
    <3>3. ReadPersona(a) \in Text
      BY <1>1, <2>0, <2>6, ReadPersonaType
    <3>4. Yaml("raw", ReadPersona(a)) \notin {"none", "broken"}
      BY <2>6, <3>3 DEF Yaml, Text
    <3> QED
      BY <2>6, <3>1, <3>2, <3>4 DEF ReadPersona
  <2>7. ReadParts(a) \cap Parse[b].parts \subseteq ReadParts(b)'
    <3>1. parts'[Home(b)] = parts[Home(b)] \cup (ReadParts(a) \cap Render[b].parts)
      BY <1>1, <2>0, <2>1, ConvertRest
    <3> QED
      BY <2>2, <3>1 DEF ReadParts, Fitting
  <2> QED
    BY <2>3, <2>4, <2>5, <2>6, <2>7
<1>2. Base /\ [TranslationNext]_translation => (Converted => \A a \in {last'.from}, b \in {last'.to} :
          /\ \A s \in DOMAIN last'.listed : SkillFits(b, last'.listed[s]) => ReadSkills(b, s)' # {}
          /\ Render[b].rules # "none" => \A r \in Rule : LET c == ReadRule(a, r)
                 IN  c # None /\ RuleFits(b, c) =>
                         ReadRule(b, r)' # None /\ ReadRule(b, r)'.severity = c.severity
          /\ (Render[b].anchor # "none" /\ ReadAnchor(a) \in {"list", "text"})
                 => ReadAnchor(b)' \in {"list", "text", "overlong"}
          /\ ("persona" \in Parse[b].parts /\ ReadPersona(a) \notin {"none", "special"})
                 => ReadPersona(b)' # "none"
          /\ ReadParts(a) \cap Parse[b].parts \subseteq ReadParts(b)')
  BY <1>1
<1> QED
  BY <1>2, BaseInvariant, PTL DEF TranslationSpec, Arrives

\* A conversion changes nothing that another tool reads, but for the three tools
\* that share a directory.
THEOREM OtherToolsUntouched == TranslationSpec => OthersUntouched
<1>1. ASSUME Base, [TranslationNext]_translation, Converted, NEW a \in {last'.from}, NEW b \in {last'.to},
             NEW c \in Backend \ {b}, ~({b, c} \subseteq Root)
      PROVE  Reads(c)' = Reads(c)
  <2>0. a \in Backend /\ b \in Backend
    BY <1>1, ConvertedBy
  <2>1. PICK o \in Override : Convert(a, b, o)
    BY <1>1, ConvertedBy
  <2>2. Fitting(c, Parse[c], Render[c]) /\ Home(c) \in Dir /\ Home(b) \in Dir
    BY <2>0, Fits, Homes
  <2>3. Home(c) # Home(b) /\ Home(b) # "bp-rules" /\ Home(b) # None
    BY <1>1, <2>0, <2>2, ToolsAssumption DEF Home, Root, Markdown, SkillOnly
  <2>4. \A s \in Skill : ReadSkills(c, s)' = ReadSkills(c, s)
    <3>1. skills'[Parse[c].dir] = skills[Parse[c].dir]
      BY <1>1, <2>0, <2>1, <2>2, <2>3, ConvertFiles DEF Fitting
    <3> QED
      BY <3>1 DEF ReadSkills
  <2>5. \A r \in Rule : ReadRule(c, r)' = ReadRule(c, r)
    <3>1. Parse[c].rules # None => Parse[c].rules \in Dir /\ Parse[c].rules # Home(b)
      BY <2>2, <2>3 DEF Fitting, Dir
    <3>2. Parse[c].rules # None => rules'[Parse[c].rules] = rules[Parse[c].rules]
      BY <1>1, <2>0, <2>1, <3>1, ConvertRest
    <3> QED
      BY <3>2 DEF ReadRule
  <2>6. ReadAnchor(c)' = ReadAnchor(c)
    BY <1>1, <2>0, <2>1, ConvertRest DEF ReadAnchor
  <2>7. ReadPersona(c)' = ReadPersona(c) /\ ReadParts(c)' = ReadParts(c)
    <3>1. personas'[Parse[c].dir] = personas[Parse[c].dir] /\ parts'[Parse[c].dir] = parts[Parse[c].dir]
      BY <1>1, <2>0, <2>1, <2>2, <2>3, ConvertRest DEF Fitting
    <3> QED
      BY <3>1 DEF ReadPersona, ReadParts
  <2> QED
    BY <2>4, <2>5, <2>6, <2>7 DEF Reads
<1>2. Base /\ [TranslationNext]_translation => (Converted => \A a \in {last'.from}, b \in {last'.to} :
          \A c \in Backend \ {b} : {b, c} \subseteq Root \/ Reads(c)' = Reads(c))
  BY <1>1
<1> QED
  BY <1>2, BaseInvariant, PTL DEF TranslationSpec, OthersUntouched
=============================================================================
