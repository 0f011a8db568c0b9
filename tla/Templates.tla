----------------------------- MODULE Templates -----------------------------
(* Which templates bp init renders for a project: the pack of the project's *)
(* language and framework, the files of its risk tier, and each template's *)
(* own conditions (templater/selector.ts, risk-selector.ts, metadata.ts,   *)
(* conditional.ts).                                                        *)
EXTENDS Fingerprints

CONSTANTS
    Template,       \* records: the file rendered, its base name, pack and conditions
    Packs,          \* the packs there are
    Generic,        \* the backend's own directory, the pack of last resort
    PackOf,         \* PackOf[l, w]: the pack made for language l and framework w, or None
    LanguagePack,   \* LanguagePack[l]: the pack named after language l
    Features        \* what the backend's manifest supports

selectTemplatePack(q) ==
    LET special == PackOf[Facts[q].primary_language, Facts[q].framework]
        base == LanguagePack[Facts[q].primary_language]
    IN  IF special \in Packs THEN special ELSE IF base \in Packs THEN base ELSE Generic

\* A pack is a directory: the generic one holds the others.
findTemplateFiles(pack) == {t \in Template : t.tier = None /\ (pack = Generic \/ t.pack = pack)}
resolveRiskTemplatePack(tier) == {t \in Template : t.tier = tier}
\* Files are told apart by their base name; the risk tier's come last.
mergeRiskTemplates(base, risk) == risk \cup {t \in base : \A r \in risk : r.name # t.name}

\* A condition that a template does not state holds.
Holding(condition, value) == condition = None \/ value \in condition
shouldRenderTemplate(t, q) ==
    /\ Holding(t.risk_tier, Facts[q].risk_tier)
    /\ t.backend_features \subseteq Features
    /\ Holding(t.languages, Facts[q].primary_language)
    /\ Holding(t.frameworks, Facts[q].framework)
    /\ Holding(t.project_types, Facts[q].type)

Rendered(q) ==
    LET files == mergeRiskTemplates(findTemplateFiles(selectTemplatePack(q)),
                                    resolveRiskTemplatePack(Facts[q].risk_tier))
    IN  {t.file : t \in {u \in files : shouldRenderTemplate(u, q)}}
=============================================================================
