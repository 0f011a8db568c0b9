------------------------------ MODULE MCLevels ------------------------------
EXTENDS Levels

CONSTANTS f1, f2, f3, r1, r2, n1, n2, n3, m1, m2, v1, v2, v3

MCOrder == <<f1, f2, f3>>
MCRuleOrder == <<r1, r2>>
MCNodes == <<n1, n2, n3>>

MCLimits == [session |-> 1, day |-> 2]

(* Checks of each type, alone and in composites that stop at one or another *)
(* child, that invert, and that are as deep as allowed or deeper.           *)
Glob(type) == [type |-> type, glob |-> {f1, f2}]
Match(scope) == [type |-> "content-match", glob |-> {f1, f2, f3}, minMatches |-> 1, scope |-> scope]
Field == [type |-> "frontmatter-field", glob |-> {f2}, expect |-> {"x"}]
NoText == [type |-> "content-absent", glob |-> {f1}]
Library(range) == [type |-> "dependency-present", name |-> "lib", range |-> range]
NoLibrary == [type |-> "dependency-absent", name |-> "lib"]
Stack == [type |-> "fingerprint", expect |-> {"ts"}]
Value == [type |-> "json-key", expect |-> {"x"}]
Not(c) == [type |-> "not", checks |-> <<c>>]
Both(x, y) == [type |-> "allOf", checks |-> <<x, y>>]
Either(x, y) == [type |-> "anyOf", checks |-> <<x, y>>]
Exists == Glob("file-exists")
TooDeep == Not(Not(Not(Exists)))
Evaluated == { Match("every"), Field, Not(NoText), Not(Not(Exists)), Not(Library("2")), Both(NoLibrary, Glob("file-absent")),
               Either(Match("any"), Field), Both(Match("any"), Exists), Either(Not(Library("2")), Exists),
               Both(Not(Exists), Library(None)), Either(Stack, Value) }
MCChecks == Evaluated \cup
    { Match("any"), NoText, Exists, Not(Exists), Library("2"), Library(None), NoLibrary,
      Glob("file-absent"), Stack, Value, Not(Not(Exists)), TooDeep }
MCRuleFiles ==
    {Unreadable, [severity |-> "soft", check |-> Exists]}
    \cup [severity : {"hard"}, check : Evaluated \cup {TooDeep, None, Malformed}]

File(h, v) == [size |-> 1, hits |-> h, field |-> v, readable |-> TRUE]
MCRepositories ==
    LET ok == [files |-> [f \in {f1, f2, f3} |-> IF f = f3 THEN Unreadable ELSE File(1, "x")], dependencies |-> [lib |-> "2"],
               fingerprint |-> "ts", json |-> "x", locked |-> {}]
    IN  { ok, [ok EXCEPT !.dependencies = None, !.files[f1] = File(0, "y")],
          [ok EXCEPT !.dependencies.lib = None, !.files = [f \in {f1, f2, f3} |-> Unreadable]],
          [ok EXCEPT !.dependencies.lib = "1", !.files[f1].size = 3, !.fingerprint = None],
          [ok EXCEPT !.files[f2] = Unreadable, !.json = Unreadable, !.files[f1] = File(0, "y")],
          [ok EXCEPT !.files[f1].size = 2, !.files[f2].size = 2, !.files[f1].readable = FALSE],
          [ok EXCEPT !.locked = {f2}, !.files[f3] = File(1, "x")],
          [ok EXCEPT !.files[f1] = File(0, "y"), !.files[f3] = File(1, "x")] }

MCGraphs == [{n1, n2, n3} -> {<<>>, <<n1>>, <<n2>>, <<n3>>, <<n1, n2>>, <<n2, n1>>, <<n2, n3>>,
                              <<n3, n2>>, <<n1, n3>>, <<n3, n1>>, <<n1, n2, n3>>, <<n3, n2, n1>>}]

(* Documents that lack something in one layer or in two that meet.         *)
Callable == [name |-> "t", admin |-> FALSE, high |-> FALSE, scopes |-> FALSE]
Server == [name |-> "s", risk |-> "high", auth |-> FALSE, permission_validation |-> FALSE, tools |-> <<>>]
Base == [tier |-> Unset, approval |-> Unset, budget |-> Unset, servers |-> <<>>, identity |-> Unset,
         frameworks |-> {}, audit |-> {}, certified |-> FALSE, escalation |-> FALSE, signals |-> {}, holding |-> {},
         teams |-> <<>>, agents |-> <<>>, personas |-> <<>>, chain |-> {}, error_handler |-> {},
         memory |-> [enabled |-> FALSE, access_control |-> {}], comm |-> Unset, budgets |-> <<>>, misset |-> {},
         metrics |-> {}, rules |-> {}, guides |-> <<>>, skills |-> <<>>, commands |-> <<>>]
Risk == {[Base EXCEPT !.tier = t, !.approval = a, !.budget = "not positive", !.frameworks = f, !.servers = s] :
            t \in {Unset, "low", "high", "critical"}, a \in {Unset, "auto", "read-only"},
            f \in {{"eu_ai_act"}, {"eu_ai_act", "soc2"}},
            s \in {<<>>, <<Server>>, <<[Server EXCEPT !.risk = "low", !.tools =
                     <<[Callable EXCEPT !.high = TRUE], [Callable EXCEPT !.admin = TRUE]>>]>>}}
Frameworks == {[Base EXCEPT !.frameworks = f] :
            f \in {{"gdpr", "hipaa"}, {"iso_42001", "nist_ai_rmf"}, {"gdpr", "iso_42001"}, {"hipaa", "nist_ai_rmf"}}}
Identities == {[Base EXCEPT !.identity = [rbac |-> TRUE, owner |-> FALSE, roles |-> r], !.frameworks = f] :
            r \in {<<>>, <<[name |-> "r", permissions |-> {}], [name |-> "r", permissions |-> {"*"}]>>,
                   <<[name |-> "q", permissions |-> {}], [name |-> "r", permissions |-> {}]>>},
            f \in {{}, {"hipaa"}, {"iso_42001"}}}
Agents == {[Base EXCEPT !.teams = t, !.agents = g, !.chain = {"a", "t"}, !.error_handler = {"b"},
                        !.memory = [enabled |-> m, access_control |-> {"a", "c"}], !.budgets = b] :
            t \in {<<>>, <<[name |-> "t", agents |-> {}, described |-> FALSE]>>}, m \in BOOLEAN,
            g \in {<<>>, <<[name |-> "a", certified |-> TRUE, version |-> FALSE], [name |-> "a", certified |-> FALSE, version |-> FALSE]>>},
            b \in {<<>>, <<[name |-> "b", positive |-> FALSE]>>}}
References == {[Base EXCEPT !.rules = {"k", "j"}, !.skills = <<[name |-> "k", commands |-> {"c", "d"}]>>, !.metrics = {"j", "i"},
                            !.personas = <<[name |-> "p", allowed_tools |-> {"k", "w"}]>>, !.comm = "validation only",
                            !.commands = c, !.misset = {"monthly_budget_usd"}] :
            c \in {<<>>, <<[name |-> "c"], [name |-> "c"]>>}}
Guide(n, f, v, a) == [name |-> n, files |-> f, severity |-> v, action |-> a]
Conflicts == {[Base EXCEPT !.guides = <<Guide("x", f, "hard", a), Guide("y", {"u"}, "hard", "forbid"), Guide("z", {"u", "v"}, v, "require")>>] :
            f \in {{"u"}, {"u", "v"}, {}}, v \in {"hard", "soft"}, a \in {"require", Unset}}
MCDocuments == Conflicts \cup Risk \cup Frameworks \cup Identities \cup Agents \cup References
=============================================================================
