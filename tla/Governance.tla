----------------------------- MODULE Governance -----------------------------
(* What is found in a document and how it is cleared: the enterprise       *)
(* layers (validator/levels/governance.ts and the validators it calls),    *)
(* conflicts between rules (validator/logical.ts), the gaps of a           *)
(* compliance report (validator/compliance.ts), and an author who follows  *)
(* the resolutions they print, in any order.                               *)
EXTENDS Integers, Sequences, FiniteSets, SequencesExt

CONSTANTS
    Documents,      \* the documents an author starts from, as records of their layers
    Fresh,          \* names for what an author renames
    Unset         \* a layer or field that is not there; also an empty name

VARIABLES
    ir,
    strayed         \* whether the author ever took another alternative than the first
governance == <<ir, strayed>>

Signals == {"has_external_apis", "has_secrets_manager", "has_auth_layer", "has_data_sensitive"}
Names(s) == {s[i].name : i \in DOMAIN s}
Repeats(s) == {i \in DOMAIN s : \E j \in 1..(i - 1) : s[j].name = s[i].name}
\* The entries of a list that need a finding of this type.
Each(type, s, Bad(_)) == {<<type, s[i].name>> : i \in {j \in DOMAIN s : Bad(s[j])}}
Twice(type, s) == {<<type, s[i].name>> : i \in Repeats(s)}
Missing(type, names, known) == {<<type, n>> : n \in names \ known}
Check(type, bad) == IF bad THEN {<<type, Unset>>} ELSE {}

-----------------------------------------------------------------------------
riskToApprovalModeAuto(tier) == IF tier = "medium" THEN "confirm" ELSE "auto"
riskToApprovalMode(tier) ==
    CASE tier = "low" -> "auto" [] tier = "medium" -> "confirm" [] OTHER -> "read-only"
validateSettingsDeep(d) ==
    Check("SETTINGS_RISK_MISMATCH", /\ Unset \notin {d.tier, d.approval}
                                    /\ d.approval # riskToApprovalMode(d.tier))
    \cup Check("INVALID_BUDGET", d.budget = "not positive")
validateCommandsDeep(d) == Twice("DUPLICATE_COMMAND", d.commands)
validateMCPServersDeep(d) ==
    LET TooRisky(s) == d.tier = "low" /\ s.risk = "high"
        Open(s) == ~s.auth /\ \E i \in DOMAIN s.tools : s.tools[i].high
    IN  Each("MCP_RISK_MISMATCH", d.servers, TooRisky) \cup Each("MCP_AUTH_MISSING", d.servers, Open)

validateRBAC(d) ==
    LET roles == d.identity.roles
        Idle(r) == r.permissions = {}
        Wild(r) == "*" \in r.permissions
    IN  IF d.identity = Unset THEN {}
        ELSE IF ~d.identity.rbac THEN {}
        ELSE IF roles = <<>> THEN {<<"RBAC_ROLES_EMPTY", Unset>>}
        ELSE Check("RBAC_OWNER_MISSING", ~d.identity.owner) \cup Twice("RBAC_DUPLICATE_ROLE", roles)
             \cup Each("RBAC_ROLE_PERMISSIONS_EMPTY", roles, Idle)
             \cup Each("RBAC_WILDCARD_PERMISSION", roles, Wild)

collectKnownAgents(d) ==
    Names(d.teams) \cup UNION {d.teams[i].agents : i \in DOMAIN d.teams} \cup Names(d.personas) \cup Names(d.agents)
validateAgentRegistry(d) ==
    LET Unversioned(a) == a.certified /\ ~a.version
    IN  Twice("DUPLICATE_AGENT", d.agents) \cup Each("CERTIFIED_NO_VERSION", d.agents, Unversioned)
validateToolRegistry(d) ==
    LET Twins(s) == Repeats(s.tools) # {}
        Unguarded(s) == \E i \in DOMAIN s.tools : s.tools[i].admin /\ ~s.tools[i].scopes
    IN  Each("DUPLICATE_TOOL", d.servers, Twins) \cup Each("ADMIN_TOOL_NO_AUTH", d.servers, Unguarded)
validateMCPGovernance(d) ==
    LET Ungoverned(s) == s.risk = "high" /\ ~s.permission_validation
    IN  Each("HIGH_RISK_NO_GOVERNANCE", d.servers, Ungoverned)
validateTeams(d) ==
    LET Empty(t) == t.agents = {}
        Anonymous(t) == ~t.described
    IN  Each("EMPTY_TEAM", d.teams, Empty) \cup Each("MISSING_TEAM_METADATA", d.teams, Anonymous)
validateChains(d) ==
    Missing("UNKNOWN_CHAIN_AGENT", d.chain, collectKnownAgents(d))
    \cup Missing("UNKNOWN_ERROR_HANDLER", d.error_handler, collectKnownAgents(d))
validateMemory(d) ==
    IF d.memory.enabled THEN Missing("UNKNOWN_MEMORY_AGENT", d.memory.access_control, collectKnownAgents(d)) ELSE {}
validateCrossAgentComm(d) == Check("VALIDATION_NO_SCHEMAS", d.comm = "validation only")
validateCrossLayerRefs(d) ==
    Missing("UNKNOWN_SKILL_METRIC", d.metrics, Names(d.skills))
    \cup Missing("BUDGET_AGENT_NOT_FOUND", Names(d.budgets), collectKnownAgents(d))
validateCostConfig(d) ==
    LET Worthless(b) == ~b.positive
    IN  Each("INVALID_AGENT_BUDGET", d.budgets, Worthless) \cup Missing("INVALID_COST", d.misset, {})

\* What rules, agents and skills name must be there; "Read" is a tool every
\* project has.
validateCrossLayerReferences(d) ==
    LET Of(s, Refs(_)) == UNION {Refs(s[i]) : i \in DOMAIN s}
        Tools(p) == p.allowed_tools
        Commands(k) == k.commands
    IN  Missing("MISSING_SKILL_REFERENCE", d.rules, Names(d.skills))
        \cup Missing("UNKNOWN_TOOL_REFERENCE", Of(d.personas, Tools), Names(d.skills) \cup {"Read"})
        \cup Missing("UNKNOWN_COMMAND_REFERENCE", Of(d.skills, Commands), Names(d.commands))

(* Of the logical level: two rules for the same files, at least one of     *)
(* them hard; and two rules whose actions contradict each other, whatever  *)
(* files they are for.                                                     *)
Overlap(a, b) == a.files \cap b.files # {}
Rivals(d, type, Bad(_, _)) ==
    {<<type, d.guides[x[1]].name, d.guides[x[2]].name>> :
        x \in {y \in (DOMAIN d.guides) \X (DOMAIN d.guides) : y[1] < y[2] /\ Bad(d.guides[y[1]], d.guides[y[2]])}}
Antonyms == {<<"require", "forbid">>, <<"forbid", "require">>}
checkScopeIntersection(d) ==
    LET BothHard(a, b) == Overlap(a, b) /\ a.severity = "hard" /\ b.severity = "hard"
        OneHard(a, b) == Overlap(a, b) /\ (a.severity = "hard") # (b.severity = "hard")
    IN  Rivals(d, "RULE_CONFLICT_HARD", BothHard) \cup Rivals(d, "RULE_CONFLICT_SOFT", OneHard)
checkAntonyms(d) ==
    LET Contradict(a, b) == <<a.action, b.action>> \in Antonyms
    IN  Rivals(d, "SEMANTIC_CONTRADICTION", Contradict)

(* The checklists, each item with what it asks of the document.  That the  *)
(* framework is listed is an item as well, and holds: only listed ones are *)
(* reported.                                                               *)
Guarded(d) == IF d.identity = Unset THEN FALSE ELSE d.identity.rbac /\ d.identity.roles # <<>>
eu_ai_act(d) ==
    [eu_ai_act_risk_tier |-> d.tier # Unset, eu_ai_act_audit |-> "enabled" \in d.audit,
     eu_ai_act_approval_mode |-> d.approval # Unset /\ ~(d.tier = "critical" /\ d.approval = "auto")]
iso_42001(d) ==
    [iso_42001_rbac |-> Guarded(d), iso_42001_audit_retention |-> "retention" \in d.audit,
     iso_42001_certified |-> d.certified, iso_42001_identity |-> d.identity # Unset]
nist_ai_rmf(d) ==
    [nist_ai_rmf_risk_signals |-> d.signals = Signals, nist_ai_rmf_escalation |-> d.escalation,
     nist_ai_rmf_audit |-> {"enabled", "log_level"} \subseteq d.audit]
gdpr(d) ==
    [gdpr_data_sensitive |-> "has_data_sensitive" \in d.holding, gdpr_audit |-> "enabled" \in d.audit,
     gdpr_retention |-> "retention" \in d.audit]
hipaa(d) ==
    [hipaa_audit |-> "enabled" \in d.audit, hipaa_rbac |-> Guarded(d),
     hipaa_secrets |-> "has_secrets_manager" \in d.holding]
soc2(d) ==
    [soc2_audit |-> "enabled" \in d.audit, soc2_risk_tier |-> d.tier \notin {Unset, "low"},
     soc2_approval_mode |-> d.tier = "critical" => d.approval \in {"confirm", "read-only"}]
Checklist(d, framework) ==
    CASE framework = "eu_ai_act" -> eu_ai_act(d) [] framework = "iso_42001" -> iso_42001(d)
      [] framework = "nist_ai_rmf" -> nist_ai_rmf(d) [] framework = "gdpr" -> gdpr(d)
      [] framework = "hipaa" -> hipaa(d) [] framework = "soc2" -> soc2(d)
generateComplianceReport(d) ==
    UNION {{<<id, Unset>> : id \in {i \in DOMAIN Checklist(d, f) : ~Checklist(d, f)[i]}} : f \in d.frameworks}

Findings(d) ==
    validateRBAC(d) \cup validateAgentRegistry(d) \cup validateToolRegistry(d) \cup validateMCPGovernance(d)
    \cup validateTeams(d) \cup validateChains(d) \cup validateMemory(d) \cup validateCrossAgentComm(d)
    \cup validateCrossLayerRefs(d) \cup validateCrossLayerReferences(d) \cup validateSettingsDeep(d)
    \cup validateCommandsDeep(d) \cup validateMCPServersDeep(d) \cup validateCostConfig(d)
    \cup checkScopeIntersection(d) \cup checkAntonyms(d) \cup generateComplianceReport(d)

-----------------------------------------------------------------------------
(* The resolutions: the alternatives printed with a finding of this type   *)
(* about n, in the order of the text, each as what the document may be     *)
(* once the author has done what it says.                                  *)
Amend(s, n, New(_)) == [i \in DOMAIN s |-> IF s[i].name = n THEN New(s[i]) ELSE s[i]]
Without(s, n) == LET Other(x) == x.name # n IN SelectSeq(s, Other)
Repeat(s) == CHOOSE i \in Repeats(s) : TRUE
Once(s) == RemoveAt(s, Repeat(s))
Renamed(s) == {[s EXCEPT ![Repeat(s)].name = n] : n \in Fresh \ Names(s)}
Agent(n) == [name |-> n, certified |-> FALSE, version |-> TRUE]
Persona(n) == [name |-> n, allowed_tools |-> {}]
Team(n) == [name |-> n, agents |-> {}, described |-> FALSE]
Skill(n) == [name |-> n, commands |-> {}]
Role(n) == [name |-> n, permissions |-> {"read:agents"}]
NoIdentity == [rbac |-> FALSE, owner |-> FALSE, roles |-> <<>>]

\* "Define agent in personas, teams, or agent_registry": as a team, or in one.
InPersonas(d, n) == {[d EXCEPT !.personas = Append(@, Persona(n))]}
InTeams(d, n) ==
    {[d EXCEPT !.teams = Append(@, Team(n))]} \cup {[d EXCEPT !.teams[i].agents = @ \cup {n}] : i \in DOMAIN d.teams}
InRegistry(d, n) == {[d EXCEPT !.agents = Append(@, Agent(n))]}
Define(d, n) == <<InPersonas(d, n), InTeams(d, n), InRegistry(d, n)>>
AgentResolutions(d, type, n) ==
    LET Versioned(a) == [a EXCEPT !.version = TRUE]
        Staffed(t) == [t EXCEPT !.agents = {n}]
        Described(t) == [t EXCEPT !.described = TRUE]
        Paid(b) == [b EXCEPT !.positive = TRUE]
        Known(p) == [p EXCEPT !.allowed_tools = IF n \in @ THEN (@ \ {n}) \cup {"Read"} ELSE @]
        Spared(k) == [k EXCEPT !.commands = @ \ {n}]
    IN  CASE type = "DUPLICATE_AGENT" -> <<{[d EXCEPT !.agents = Once(@)]}>>
          [] type = "CERTIFIED_NO_VERSION" -> <<{[d EXCEPT !.agents = Amend(@, n, Versioned)]}>>
          [] type = "EMPTY_TEAM" ->
                <<{[d EXCEPT !.teams = Amend(@, n, Staffed)]}, {[d EXCEPT !.teams = Without(@, n)]}>>
          [] type = "MISSING_TEAM_METADATA" -> <<{[d EXCEPT !.teams = Amend(@, n, Described)]}>>
          [] type = "UNKNOWN_ERROR_HANDLER" ->
                <<UNION {Define(d, n)[i] : i \in 1..3}, {[d EXCEPT !.error_handler = {}]}>>
          [] type \in {"UNKNOWN_CHAIN_AGENT", "UNKNOWN_MEMORY_AGENT"} -> Define(d, n)
          [] type = "BUDGET_AGENT_NOT_FOUND" ->
                <<InPersonas(d, n), InRegistry(d, n), {[d EXCEPT !.budgets = Without(@, n)]}>>
          [] type = "INVALID_AGENT_BUDGET" ->
                <<{[d EXCEPT !.budgets = Amend(@, n, Paid)]}, {[d EXCEPT !.budgets = Without(@, n)]}>>
          [] type = "INVALID_COST" -> <<{[d EXCEPT !.misset = @ \ {n}]}>>
          [] type = "VALIDATION_NO_SCHEMAS" ->
                <<{[d EXCEPT !.comm = "validation and schemas"]}, {[d EXCEPT !.comm = Unset]}>>
          [] type = "UNKNOWN_SKILL_METRIC" ->
                <<{[d EXCEPT !.skills = Append(@, Skill(n))]}, {[d EXCEPT !.metrics = @ \ {n}]}>>
          [] type = "MISSING_SKILL_REFERENCE" ->
                <<{[d EXCEPT !.skills = Append(@, Skill(n))]}, {[d EXCEPT !.rules = @ \ {n}]}>>
          [] type = "UNKNOWN_TOOL_REFERENCE" ->
                <<{[d EXCEPT !.skills = Append(@, Skill(n))]},
                  {[d EXCEPT !.personas = [i \in DOMAIN @ |-> Known(@[i])]]}>>
          [] type = "UNKNOWN_COMMAND_REFERENCE" ->
                <<{[d EXCEPT !.commands = Append(@, [name |-> n])]},
                  {[d EXCEPT !.skills = [i \in DOMAIN @ |-> Spared(@[i])]]}>>
          [] type = "DUPLICATE_COMMAND" ->
                <<{[d EXCEPT !.commands = c] : c \in Renamed(d.commands)}, {[d EXCEPT !.commands = Once(@)]}>>
          [] OTHER -> <<>>

ServerResolutions(d, type, n) ==
    LET Server(New(_)) == <<{[d EXCEPT !.servers = Amend(@, n, New)]}>>
        Downgraded(s) == [s EXCEPT !.risk = "low"]
        Scoped(s) == [s EXCEPT !.auth = TRUE]
        Governed(s) == [s EXCEPT !.permission_validation = TRUE]
        Unique(s) == [s EXCEPT !.tools = Once(@)]
        Authorised(s) == [s EXCEPT !.tools = [i \in DOMAIN @ |-> [@[i] EXCEPT !.scopes = TRUE]]]
    IN  CASE type = "MCP_RISK_MISMATCH" ->
                Server(Downgraded) \o <<{[d EXCEPT !.tier = t] : t \in {"medium", "high", "critical"}}>>
          [] type = "MCP_AUTH_MISSING" -> Server(Scoped)
          [] type = "HIGH_RISK_NO_GOVERNANCE" -> Server(Governed)
          [] type = "DUPLICATE_TOOL" -> Server(Unique)
          [] type = "ADMIN_TOOL_NO_AUTH" -> Server(Authorised)
          [] OTHER -> <<>>

IdentityResolutions(d, type, n) ==
    LET identity == IF d.identity = Unset THEN NoIdentity ELSE d.identity
        roles == identity.roles
        With(s) == [d EXCEPT !.identity = [identity EXCEPT !.rbac = TRUE, !.roles = s]]
        Permitted(r) == Role(r.name)
    IN  CASE type = "RBAC_ROLES_EMPTY" -> <<{With(<<Role("reader")>>)}>>
          [] type = "RBAC_OWNER_MISSING" -> <<{[d EXCEPT !.identity.owner = TRUE]}>>
          [] type = "RBAC_DUPLICATE_ROLE" -> <<{With(s) : s \in Renamed(roles)}, {With(Once(roles))}>>
          [] type = "RBAC_ROLE_PERMISSIONS_EMPTY" -> <<{With(Amend(roles, n, Permitted))}, {With(Without(roles, n))}>>
          [] type = "RBAC_WILDCARD_PERMISSION" -> <<{With(Amend(roles, n, Permitted))}>>
          [] type = "iso_42001_identity" -> <<{With(roles)}>>
          [] type \in {"iso_42001_rbac", "hipaa_rbac"} ->
                <<{With(IF roles = <<>> THEN <<Role("reader")>> ELSE roles)}>>
          [] OTHER -> <<>>

\* Unset that is checked heeds the precedence in 04-meta.md.
Precedence(d) == {d}
ConflictResolutions(d, type, f) ==
    LET Files(n) == UNION {d.guides[i].files : i \in {j \in DOMAIN d.guides : d.guides[j].name = n}}
        Narrow(a, b) ==
            LET Narrowed(r) == [r EXCEPT !.files = @ \ Files(b)] IN {[d EXCEPT !.guides = Amend(@, a, Narrowed)]}
        Soften(a) == LET Soft(r) == [r EXCEPT !.severity = "soft"] IN {[d EXCEPT !.guides = Amend(@, a, Soft)]}
        Merge(a, b) ==
            LET Both(r) == [r EXCEPT !.files = @ \cup Files(b)]
            IN  {[d EXCEPT !.guides = Without(Amend(@, a, Both), b)]}
        Drop(a) == {[d EXCEPT !.guides = Without(@, a)]}
        NarrowOne == Narrow(f[2], f[3]) \cup Narrow(f[3], f[2])
    IN  CASE type = "RULE_CONFLICT_HARD" ->
                <<Narrow(f[2], f[3]), Narrow(f[3], f[2]), Soften(f[2]) \cup Soften(f[3]), Merge(f[2], f[3]), Precedence(d)>>
          [] type = "RULE_CONFLICT_SOFT" -> <<NarrowOne, Precedence(d)>>
          [] type = "SEMANTIC_CONTRADICTION" -> <<Merge(f[2], f[3]), Drop(f[2]) \cup Drop(f[3]), NarrowOne>>
          [] OTHER -> <<>>
Tiers == {"low", "medium", "high", "critical"}
RiskResolutions(d, type) ==
    LET Holding(s) == <<{[d EXCEPT !.signals = @ \cup {s}, !.holding = @ \cup {s}]}>>
        Audit(parts) == <<{[d EXCEPT !.audit = @ \cup parts]}>>
        AnyTier == {[d EXCEPT !.tier = t] : t \in Tiers}
    IN  CASE type = "SETTINGS_RISK_MISMATCH" -> <<{[d EXCEPT !.approval = riskToApprovalMode(d.tier)]}, AnyTier>>
          [] type = "INVALID_BUDGET" -> <<{[d EXCEPT !.budget = "positive"]}, {[d EXCEPT !.budget = Unset]}>>
          [] type \in {"eu_ai_act_risk_tier", "soc2_risk_tier"} -> <<AnyTier>>
          [] type = "eu_ai_act_approval_mode" -> <<{[d EXCEPT !.approval = a] : a \in {"confirm", "read-only"}}>>
          [] type = "soc2_approval_mode" -> <<{[d EXCEPT !.approval = "confirm"]}>>
          [] type \in {"eu_ai_act_audit", "gdpr_audit", "hipaa_audit", "soc2_audit"} -> Audit({"enabled"})
          [] type \in {"iso_42001_audit_retention", "gdpr_retention"} -> Audit({"retention"})
          [] type = "nist_ai_rmf_audit" -> Audit({"enabled", "log_level"})
          [] type = "iso_42001_certified" -> <<{[d EXCEPT !.certified = TRUE]}>>
          [] type = "nist_ai_rmf_risk_signals" -> <<{[d EXCEPT !.signals = Signals]}>>
          [] type = "nist_ai_rmf_escalation" -> <<{[d EXCEPT !.escalation = TRUE]}>>
          [] type = "gdpr_data_sensitive" -> Holding("has_data_sensitive")
          [] type = "hipaa_secrets" -> Holding("has_secrets_manager")
          [] OTHER -> <<>>
Resolutions(d, f) ==
    AgentResolutions(d, f[1], f[2]) \o ServerResolutions(d, f[1], f[2])
    \o IdentityResolutions(d, f[1], f[2]) \o RiskResolutions(d, f[1]) \o ConflictResolutions(d, f[1], f)

GovernanceInit == ir \in Documents /\ strayed = FALSE
NoGovernance == ir = Unset /\ strayed = FALSE

\* The author takes up any finding and any of the alternatives printed with it.
Follow ==
    /\ ir # Unset
    /\ \E f \in Findings(ir) : \E i \in DOMAIN Resolutions(ir, f) :
          /\ ir' \in Resolutions(ir, f)[i]
          /\ strayed' = (strayed \/ i > 1)
GovernanceNext == Follow

-----------------------------------------------------------------------------
(* The soc2 checklist prints "explicitly set" and accepts no low tier: of  *)
(* all findings, this one may be left after its resolution is followed.    *)
Settled == {<<"soc2_risk_tier", Unset>>}

(* An author who takes the first alternative of each finding, in any order *)
(* and as often as they like, changes the document only finitely often:    *)
(* no first alternative, alone or with others, brings back what another    *)
(* has cleared.  And there is always one that changes it, until nothing is *)
(* found but a low tier under soc2.  So first advice leads to a clean      *)
(* report, whichever layers it touches.  Later alternatives do not: the    *)
(* two about the risk tier undo each other, as do defining a team for an   *)
(* agent and removing it for being empty.                                  *)
EndsClean ==
    /\ <>strayed \/ <>[][FALSE]_ir
    /\ [](ir # Unset => \A f \in Findings(ir) \ Settled : \A d \in Resolutions(ir, f)[1] : d # ir)

(* What compliance.ts:194 says of the tier that soc2 asks for: it "must be *)
(* classified (not unknown)".                                              *)
TierClassified ==
    ir # Unset => (<<"soc2_risk_tier", Unset>> \in Findings(ir) => ir.tier = Unset)
=============================================================================
