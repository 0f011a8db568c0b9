---------------------------- MODULE Enforcement ----------------------------
(* The enforcement level: the rule files are listed once, then read, and   *)
(* their declarative checks evaluated read by read, while the repository   *)
(* changes (validator/enforcement.ts, checks/evaluate.ts, checks/schema.ts). *)
EXTENDS Integers, Sequences, FiniteSets

CONSTANTS
    Order,          \* the repository's content files in the order of their paths
    RuleOrder,      \* the rule files in the order of theirs
    Checks,         \* the checks that rules may have, and what these are made of
    RuleFiles,      \* what a rule file may be: Unreadable or a record of its fields
    Repositories,   \* what the repository may be: files, dependencies, values
    Unreadable,     \* a file that is not there, cannot be read or does not parse
    None,           \* no check, no range, no fingerprint, no manifest
    Malformed,      \* a check of no known form
    MaxFiles, MaxBytes, MaxSize, MaxDepth, MaxChildren, MaxChanges

Composite == {"allOf", "anyOf", "not"}
Listing == {"file-exists", "file-absent"}
Contents == {"content-match", "content-absent", "frontmatter-field"}
Dependency == {"dependency-present", "dependency-absent"}
Others == {"fingerprint", "json-key"}

\* With no file allowed (BP_MAX_VALIDATION_FILES=0), every file would be absent.
ASSUME EnforcementAssumption ==
    /\ Order \in Seq({Order[i] : i \in DOMAIN Order})
    /\ RuleOrder \in Seq({RuleOrder[i] : i \in DOMAIN RuleOrder})
    /\ MaxFiles \in Nat \ {0} /\ MaxDepth \in Nat /\ MaxChildren \in Nat
    /\ \A c \in Checks :
          /\ c.type \in Composite \cup Listing \cup Contents \cup Dependency \cup Others
          /\ c.type \in Composite => c.checks \in Seq(Checks)
          /\ c.type = "not" => Len(c.checks) = 1
    /\ None \notin Checks /\ Malformed \notin Checks \cup {None}
    /\ \A x \in RuleFiles \ {Unreadable} :
          x.check \in Checks \cup {None, Malformed} /\ x.severity \in {"hard", "soft"}
    /\ \A w \in Repositories :
          /\ w.files \in [{Order[i] : i \in DOMAIN Order} -> {w.files[Order[i]] : i \in DOMAIN Order}]
          /\ \A i \in DOMAIN Order : w.files[Order[i]] # Unreadable => w.files[Order[i]].hits \in Nat

VARIABLES
    repo, rules,    \* the repository and its rule files
    todo,           \* the rule files listed and not read yet, by number
    rule,           \* the fields of the one whose check is being evaluated
    frames,         \* the composites under way: how many children each has behind it
    task,           \* what the evaluation is at
    looks,          \* what the leaves of this rule have looked at so far
    outcomes, summary, errors,
    basis,          \* the looks that each outcome rests on
    edits
enforcement == <<repo, rules, todo, rule, frames, task, looks, outcomes, summary, errors, basis, edits>>
reports == <<outcomes, summary, errors, basis>>

-----------------------------------------------------------------------------
(* What a check reads.  A file has a size, the number of matches of the    *)
(* pattern and the value of the front matter field.  A glob fails on a     *)
(* directory that may not be read, and gives any MaxFiles of more files.   *)

Present(w, glob) == {f \in glob : (\E i \in DOMAIN Order : f = Order[i]) /\ w.files[f] # Unreadable}
Least(m, n) == IF m <= n THEN m ELSE n
globFiles(w, glob) ==
    {fs \in SUBSET Present(w, glob) : Cardinality(fs) = Least(MaxFiles, Cardinality(Present(w, glob)))}
GlobFails(w, glob) == glob \cap w.locked # {}

Passed == [passed |-> TRUE, unsupported |-> FALSE]
Failed == [passed |-> FALSE, unsupported |-> FALSE]
Unsupported == [passed |-> FALSE, unsupported |-> TRUE]
Verdict(b) == IF b THEN Passed ELSE Failed

evaluateDependency(c, w) ==
    IF w.dependencies = None THEN Unsupported
    ELSE IF c.type = "dependency-absent" THEN Verdict(w.dependencies[c.name] = None)
    ELSE Verdict(w.dependencies[c.name] # None /\ c.range \in {None, w.dependencies[c.name]})
evaluateFingerprint(c, w) == Verdict(w.fingerprint # None /\ w.fingerprint \in c.expect)
evaluateJsonKey(c, w) == Verdict(w.json # Unreadable /\ w.json \in c.expect)
SingleRead(c, w) ==
    IF c.type \in Dependency THEN evaluateDependency(c, w)
    ELSE IF c.type = "fingerprint" THEN evaluateFingerprint(c, w) ELSE evaluateJsonKey(c, w)

\* Whether a file that was read is one the check is content with, and what the
\* files read come to: passing and failing ones, and the ones listed.
Meets(c, file) ==
    CASE c.type = "content-match" -> file.hits >= c.minMatches
      [] c.type = "content-absent" -> file.hits = 0
      [] c.type = "frontmatter-field" -> file.field \in c.expect
Concludes(c, listed, passing, failing) ==
    CASE c.type = "content-match" ->
            passing \cup failing # {} /\ IF c.scope = "any" THEN passing # {} ELSE failing = {}
      [] c.type = "content-absent" -> failing = {}
      [] c.type = "frontmatter-field" -> listed # {} /\ failing = {}

(* Composites stop at the first child that decides or is unsupported.      *)
Decides(type, o) == o.unsupported \/ o.passed = (type = "anyOf")
\* Only a failure decides: an unsupported child is one more that did not pass.
InvertAll(o) == Verdict(~o.passed)
Invert(o) == IF o.unsupported THEN Unsupported ELSE Verdict(~o.passed)
evaluateComposite(type, o) == IF type = "not" THEN Invert(o) ELSE o

\* Which checks are no deeper than d and no wider than allowed.
SchemaLevel(below) ==
    [c \in Checks |->
        c.type \in Composite => /\ Len(c.checks) \in 1..MaxChildren
                                /\ \A i \in DOMAIN c.checks : below[c.checks[i]]]
CheckSchema[d \in Nat] == IF d = 0 THEN [c \in Checks |-> FALSE] ELSE SchemaLevel(CheckSchema[d - 1])

\* The leaves of such a check.
LeavesLevel(below) ==
    [c \in Checks |-> IF c.type \notin Composite THEN {c}
                      ELSE UNION {below[c.checks[i]] : i \in DOMAIN c.checks}]
Leaves[d \in Nat] == IF d = 0 THEN [c \in Checks |-> {}] ELSE LeavesLevel(Leaves[d - 1])

-----------------------------------------------------------------------------
Idle == [at |-> "idle"]
EvaluateNode(c) == [at |-> "node", check |-> c]
Given(o) == [at |-> "given", outcome |-> o]
\* What a leaf has looked at: the listing of one moment and each file as it was
\* read, whether that is all it is about, and whether it answered.
Look(c, view, whole, said) == [leaf |-> c, view |-> view, whole |-> whole, said |-> said]
Answered(o) == IF o.unsupported THEN "unsupported" ELSE "answer"

EnforcementInit ==
    /\ repo \in Repositories
    /\ rules \in [{RuleOrder[i] : i \in DOMAIN RuleOrder} -> RuleFiles]
    /\ todo = {i \in DOMAIN RuleOrder : rules[RuleOrder[i]] # Unreadable}
    /\ rule = None /\ frames = <<>> /\ task = Idle /\ looks = {}
    /\ outcomes = <<>> /\ errors = <<>> /\ basis = <<>>
    /\ summary = [enforced |-> 0, violations |-> 0, manual |-> 0]
    /\ edits = 0
NoEnforcement ==
    /\ repo = None /\ rules = None /\ todo = {}
    /\ rule = None /\ frames = <<>> /\ task = Idle /\ looks = {}
    /\ outcomes = <<>> /\ errors = <<>> /\ basis = <<>>
    /\ summary = [enforced |-> 0, violations |-> 0, manual |-> 0]
    /\ edits = 0

\* Whatever was not checked counts as manual, a malformed check as well.
TallyRest(s, status) ==
    [enforced |-> s.enforced + (IF status \in {"pass", "fail"} THEN 1 ELSE 0),
     violations |-> s.violations + (IF status = "fail" THEN 1 ELSE 0),
     manual |-> s.manual + (IF status \in {"manual", "invalid"} THEN 1 ELSE 0)]
Tally(s, status) ==
    [enforced |-> s.enforced + (IF status \in {"pass", "fail"} THEN 1 ELSE 0),
     violations |-> s.violations + (IF status = "fail" THEN 1 ELSE 0),
     manual |-> s.manual + (IF status = "manual" THEN 1 ELSE 0)]
Found(status, severity) ==
    CASE status = "manual" -> <<"info">> [] status = "invalid" -> <<"error">> [] status = "pass" -> <<>>
      [] status = "fail" -> <<IF severity = "hard" THEN "error" ELSE "warning">>
Report(x, status, seen) ==
    /\ outcomes' = Append(outcomes, [severity |-> x.severity, check |-> x.check, status |-> status])
    /\ summary' = Tally(summary, status)
    /\ errors' = errors \o Found(status, x.severity)
    /\ basis' = Append(basis, seen)

(* The next rule file is read.  One that went away or does not parse is    *)
(* left to the structural level; one with no check, or one that is         *)
(* malformed, too deep or too wide, is settled at once.                    *)
Upcoming(i) == task = Idle /\ i \in todo /\ \A j \in todo : i <= j
SkipRule(i) ==
    /\ Upcoming(i) /\ rules[RuleOrder[i]] = Unreadable
    /\ todo' = todo \ {i}
    /\ UNCHANGED <<repo, rules, rule, frames, task, looks, reports, edits>>
Evaluable(c) == c \in Checks /\ CheckSchema[MaxDepth][c]
SettleRule(i) ==
    LET x == rules[RuleOrder[i]]
    IN  /\ Upcoming(i) /\ x # Unreadable /\ ~Evaluable(x.check)
        /\ todo' = todo \ {i}
        /\ Report(x, IF x.check = None THEN "manual" ELSE "invalid", {})
        /\ UNCHANGED <<repo, rules, rule, frames, task, looks, edits>>
BeginRule(i) ==
    LET x == rules[RuleOrder[i]]
    IN  /\ Upcoming(i) /\ x # Unreadable /\ Evaluable(x.check)
        /\ todo' = todo \ {i}
        /\ rule' = x /\ task' = EvaluateNode(x.check)
        /\ UNCHANGED <<repo, rules, frames, looks, reports, edits>>
EndRule(status, seen) ==
    /\ Report(rule, status, seen)
    /\ rule' = None /\ frames' = <<>> /\ task' = Idle /\ looks' = {}

(* A composite evaluates its children one after the other.                 *)
EnterComposite ==
    /\ task.at = "node" /\ task.check.type \in Composite
    /\ frames' = Append(frames, [check |-> task.check, done |-> 0])
    /\ task' = EvaluateNode(task.check.checks[1])
    /\ UNCHANGED <<repo, rules, todo, rule, looks, reports, edits>>

(* A leaf of one read; the fingerprint was taken before the level began.   *)
Give(o, look) == task' = Given(o) /\ looks' = looks \cup {look}
Available(c, w) == (c.type = "fingerprint" => w.fingerprint # None) /\ (c.type = "json-key" => w.json # Unreadable)
AskLeaf ==
    /\ task.at = "node" /\ task.check.type \in Dependency \cup Others
    /\ LET o == SingleRead(task.check, repo)
       IN  Give(o, Look(task.check, repo, Available(task.check, repo), Answered(o)))
    /\ UNCHANGED <<repo, rules, todo, rule, frames, reports, edits>>

(* A leaf over files lists them, then looks at the size of each and reads  *)
(* it.  What is too large, over the budget or gone is skipped.             *)
ListFiles ==
    /\ task.at = "node" /\ task.check.type \in Listing \cup Contents
    /\ ~GlobFails(repo, task.check.glob)
    /\ \E fs \in globFiles(repo, task.check.glob) :
          \/ /\ task.check.type \in Listing
             /\ Give(Verdict((fs # {}) = (task.check.type = "file-exists")), Look(task.check, repo, TRUE, "answer"))
          \/ /\ task.check.type \in Contents
             /\ task' = [at |-> "files", check |-> task.check, listed |-> fs, left |-> fs, used |-> 0,
                         passing |-> {}, failing |-> {}, files |-> repo.files,
                         whole |-> fs = Present(repo, task.check.glob)]
             /\ looks' = looks
    /\ UNCHANGED <<repo, rules, todo, rule, frames, reports, edits>>
Skips(w, f) == w.files[f] = Unreadable \/ w.files[f].size > MaxSize \/ task.used + w.files[f].size > MaxBytes
StatFile ==
    /\ task.at = "files" /\ task.left # {}
    /\ \E i \in DOMAIN Order :
          /\ Order[i] \in task.left /\ \A j \in DOMAIN Order : Order[j] \in task.left => i <= j
          /\ task' = IF Skips(repo, Order[i])
                     THEN [task EXCEPT !.left = @ \ {Order[i]}, !.whole = FALSE]
                     ELSE [task EXCEPT !.at = "opened", !.used = @ + repo.files[Order[i]].size]
    /\ UNCHANGED <<repo, rules, todo, rule, frames, looks, reports, edits>>
ReadFile ==
    /\ task.at = "opened"
    /\ \E i \in DOMAIN Order :
          /\ Order[i] \in task.left /\ \A j \in DOMAIN Order : Order[j] \in task.left => i <= j
          /\ LET f == Order[i]
                 file == repo.files[f]
             IN  task' = IF file = Unreadable \/ ~file.readable
                         THEN [task EXCEPT !.at = "files", !.left = @ \ {f}, !.whole = FALSE]
                         ELSE [task EXCEPT !.at = "files", !.left = @ \ {f}, !.files[f] = file,
                                           !.passing = IF Meets(task.check, file) THEN @ \cup {f} ELSE @,
                                           !.failing = IF Meets(task.check, file) THEN @ ELSE @ \cup {f}]
    /\ UNCHANGED <<repo, rules, todo, rule, frames, looks, reports, edits>>
Conclude ==
    /\ task.at = "files" /\ task.left = {}
    /\ Give(Verdict(Concludes(task.check, task.listed, task.passing, task.failing)),
            Look(task.check, [files |-> task.files], task.whole, "answer"))
    /\ UNCHANGED <<repo, rules, todo, rule, frames, reports, edits>>

(* A child has answered: the next one is evaluated, or the composite is    *)
(* left with the answer that decided or came last.                         *)
NextChild ==
    /\ task.at = "given" /\ frames # <<>>
    /\ LET top == frames[Len(frames)]
           n == top.done + 1
       IN  /\ top.check.type # "not" /\ ~Decides(top.check.type, task.outcome) /\ n < Len(top.check.checks)
           /\ frames' = [frames EXCEPT ![Len(frames)] = [check |-> top.check, done |-> n]]
           /\ task' = EvaluateNode(top.check.checks[n + 1])
    /\ UNCHANGED <<repo, rules, todo, rule, looks, reports, edits>>
LeaveComposite ==
    /\ task.at = "given" /\ frames # <<>>
    /\ LET top == frames[Len(frames)]
       IN  /\ \/ top.check.type = "not" \/ Decides(top.check.type, task.outcome)
              \/ top.done + 1 = Len(top.check.checks)
           /\ frames' = SubSeq(frames, 1, Len(frames) - 1)
           /\ task' = Given(evaluateComposite(top.check.type, task.outcome))
    /\ UNCHANGED <<repo, rules, todo, rule, looks, reports, edits>>

(* The whole check has answered, or a glob in it failed: whatever stands   *)
(* around that leaf, the check then did not pass.                          *)
FinishRule ==
    /\ task.at = "given" /\ frames = <<>>
    /\ EndRule(IF task.outcome.unsupported THEN "manual" ELSE IF task.outcome.passed THEN "pass" ELSE "fail", looks)
    /\ UNCHANGED <<repo, rules, todo, edits>>
FailRule ==
    /\ task.at = "node" /\ task.check.type \in Listing \cup Contents /\ GlobFails(repo, task.check.glob)
    /\ EndRule("fail", looks \cup {Look(task.check, repo, FALSE, "threw")})
    /\ UNCHANGED <<repo, rules, todo, edits>>

(* A rule file that was not read yet, or the repository changes.           *)
EditRule(i) ==
    /\ i \in todo /\ edits < MaxChanges /\ edits' = edits + 1
    /\ \E x \in RuleFiles : rules' = [rules EXCEPT ![RuleOrder[i]] = x]
    /\ UNCHANGED <<repo, todo, rule, frames, task, looks, reports>>
EditRepository ==
    /\ todo # {} \/ task # Idle
    /\ edits < MaxChanges /\ edits' = edits + 1
    /\ repo' \in {w \in Repositories : w.fingerprint = repo.fingerprint}
    /\ UNCHANGED <<rules, todo, rule, frames, task, looks, reports>>

EnforcementNext ==
    \/ EnterComposite \/ AskLeaf \/ ListFiles \/ StatFile \/ ReadFile \/ Conclude
    \/ NextChild \/ LeaveComposite \/ FinishRule \/ FailRule \/ EditRepository
    \/ \E i \in DOMAIN RuleOrder : SkipRule(i) \/ SettleRule(i) \/ BeginRule(i) \/ EditRule(i)
EnforcementSpec == EnforcementInit /\ [][EnforcementNext]_enforcement

-----------------------------------------------------------------------------
(* The reference: what a leaf says about what it is shown, with no limits, *)
(* and a check whose leaves in g hold, as connectives of logic.            *)
LeafTruth(c, w) ==
    CASE c.type = "file-exists" -> Present(w, c.glob) # {}
      [] c.type = "file-absent" -> Present(w, c.glob) = {}
      [] c.type = "content-match" ->
            IF c.scope = "any" THEN \E f \in Present(w, c.glob) : w.files[f].hits >= c.minMatches
            ELSE Present(w, c.glob) # {} /\ \A f \in Present(w, c.glob) : w.files[f].hits >= c.minMatches
      [] c.type = "content-absent" -> ~\E f \in Present(w, c.glob) : w.files[f].hits > 0
      [] c.type = "frontmatter-field" ->
            Present(w, c.glob) # {} /\ \A f \in Present(w, c.glob) : w.files[f].field \in c.expect
      [] c.type = "fingerprint" -> w.fingerprint \in c.expect
      [] c.type = "json-key" -> w.json \in c.expect
      [] c.type = "dependency-present" ->
            w.dependencies[c.name] # None /\ (c.range = None \/ c.range = w.dependencies[c.name])
      [] c.type = "dependency-absent" -> w.dependencies[c.name] = None
TruthAt(below, c, g) ==
    IF c.type \notin Composite THEN c \in g
    ELSE IF c.type = "not" THEN ~below[c.checks[1]][g]
    ELSE IF c.type = "allOf" THEN \A i \in DOMAIN c.checks : below[c.checks[i]][g]
    ELSE \E i \in DOMAIN c.checks : below[c.checks[i]][g]
TruthLevel(below) == [c \in Checks |-> [g \in SUBSET Checks |-> TruthAt(below, c, g)]]
Truth[d \in Nat] ==
    IF d = 0 THEN [c \in Checks |-> [g \in SUBSET Checks |-> FALSE]] ELSE TruthLevel(Truth[d - 1])

\* Of the leaves that answered, just those are in g of which it is true.
Agrees(g, seen) == \A a \in seen : a.said = "answer" => ((a.leaf \in g) <=> LeafTruth(a.leaf, a.view))
Reported(status) == {i \in DOMAIN outcomes : outcomes[i].status \in status}

(* A definite verdict is what logic makes of the truth about each leaf     *)
(* when it was looked at, and of each of its files when that was read,     *)
(* whatever may be said of the leaves that were not asked, as long as no   *)
(* limit, failure or missing file kept anything from being read: however   *)
(* the repository changes between two reads, the short-circuiting          *)
(* evaluation never turns "unknown" into an answer.                        *)
VerdictTrue ==
    \A i \in Reported({"pass", "fail"}) :
        LET c == outcomes[i].check
        IN  (\A a \in basis[i] : a.whole) =>
                \A g \in SUBSET Leaves[MaxDepth][c] :
                    Agrees(g, basis[i]) => Truth[MaxDepth][c][g] = (outcomes[i].status = "pass")

(* A rule goes unenforced only for want of a check or of a package.json,   *)
(* and the counts, the outcomes and the findings tell the same story: what *)
(* is manual is never counted as enforced, a violated or malformed rule    *)
(* always has a finding, and none that passes does.                        *)
Tallied ==
    /\ \A i \in Reported({"manual"}) :
          outcomes[i].check = None \/ \E a \in basis[i] : a.said = "unsupported"
    /\ summary.manual = Cardinality(Reported({"manual"}))
    /\ summary.violations = Cardinality(Reported({"fail"}))
    /\ summary.enforced = Cardinality(Reported({"pass", "fail"}))
    /\ Len(errors) = Len(outcomes) - Cardinality(Reported({"pass"}))
    /\ (\E i \in DOMAIN errors : errors[i] = "error") <=>
          \E i \in DOMAIN outcomes :
             outcomes[i].status = "invalid" \/ (outcomes[i].status = "fail" /\ outcomes[i].severity = "hard")

(* Enforced: each definite verdict is the truth, and the summary and the   *)
(* findings account for every rule (validator/enforcement.ts).             *)
Enforced == VerdictTrue /\ Tallied

(* What enforcement.ts:21 says of the rules it counts as enforced: each    *)
(* has "a check that was actually evaluated (pass or fail)".               *)
EvaluatedCounted ==
    summary.enforced =
        Cardinality({i \in Reported({"pass", "fail"}) : ~\E a \in basis[i] : a.said = "threw"})
=============================================================================
