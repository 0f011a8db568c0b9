------------------------------- MODULE Cycles -------------------------------
(* The three searches for cycles: between hooks (validator/hook.ts),       *)
(* between skills (validator/logical.ts) and between the agents of a chain *)
(* (multiagent/chains.ts).  A graph maps each node to the sequence of the  *)
(* nodes it depends on, in the order they are declared.  Each is a         *)
(* recursive function: the calls under way are kept as a sequence of their *)
(* nodes, the innermost last, with the dependencies each has looked at.    *)
EXTENDS Integers, Sequences, FiniteSets

CONSTANTS
    Nodes,      \* the nodes in the order they are declared
    Graphs,     \* the graphs to search
    Null        \* no parent, no graph

Node == {Nodes[i] : i \in DOMAIN Nodes}

ASSUME CyclesAssumption ==
    /\ Nodes \in Seq(Node)
    /\ Graphs \subseteq [Node -> Seq(Node)]
    /\ Null \notin Node

VARIABLES
    graph, validator,           \* what is searched, and by which search
    from,                       \* the search is at Nodes[from]
    calls, looked, entered,     \* the calls under way, and the nodes ever called for
    parent, black, cyclePath, cur,              \* of hooks; the path is empty until found
    index, lowlink, counter, stack, sccs,       \* of skills
    recStack, involved                          \* of a chain: agents the errors name

control == <<graph, validator>>
hooks == <<parent, black, cyclePath, cur>>
skills == <<index, lowlink, counter, stack, sccs>>
chain == <<recStack, involved>>
search == <<control, from, calls, looked, entered, hooks, skills, chain>>

NothingCalled ==
    /\ calls = <<>> /\ looked = [n \in Node |-> 0] /\ entered = {}
    /\ parent = [n \in Node |-> Null] /\ black = {} /\ cyclePath = <<>> /\ cur = Null
    /\ index = [n \in Node |-> 0] /\ lowlink = index /\ counter = 0 /\ stack = <<>> /\ sccs = {}
    /\ recStack = {} /\ involved = {}
CyclesInit == graph \in Graphs /\ validator \in {"hooks", "skills", "chain"} /\ from = 1 /\ NothingCalled
NoSearch == graph = Null /\ validator = "none" /\ from = Len(Nodes) + 1 /\ NothingCalled

(* The innermost call, and the dependency it looks at next.                *)
Here == calls[Len(calls)]
More == looked[Here] < Len(graph[Here])
Target == graph[Here][looked[Here] + 1]
Searching == calls # <<>> /\ cyclePath = <<>>
LookedAt == looked' = [looked EXCEPT ![Here] = @ + 1]

-----------------------------------------------------------------------------
(* A call begins: by the loop over the nodes, or by a call that meets a    *)
(* node no call was made for.                                              *)
Enter(v, caller) ==
    /\ calls' = Append(calls, v) /\ entered' = entered \cup {v}
    /\ \/ /\ validator = "hooks" /\ parent' = [parent EXCEPT ![v] = caller]
          /\ UNCHANGED <<black, cyclePath, cur, skills, chain>>
       \/ /\ validator = "skills"
          /\ index' = [index EXCEPT ![v] = counter] /\ lowlink' = [lowlink EXCEPT ![v] = counter]
          /\ counter' = counter + 1 /\ stack' = Append(stack, v)
          /\ UNCHANGED <<hooks, sccs, chain>>
       \/ /\ validator = "chain" /\ recStack' = recStack \cup {v}
          /\ UNCHANGED <<hooks, skills, involved>>
SkipNode ==
    /\ calls = <<>> /\ from <= Len(Nodes) /\ Nodes[from] \in entered
    /\ from' = from + 1
    /\ UNCHANGED <<control, calls, looked, entered, hooks, skills, chain>>
CallRoot ==
    /\ calls = <<>> /\ from <= Len(Nodes) /\ Nodes[from] \notin entered
    /\ Enter(Nodes[from], Null)
    /\ UNCHANGED <<control, from, looked>>
Call ==
    /\ Searching /\ More /\ Target \notin entered
    /\ LookedAt /\ Enter(Target, Here)
    /\ UNCHANGED <<control, from>>

(* Hooks are white, gray or black; an edge back to a gray one is a cycle,  *)
(* whose path is then put together from the parents.                       *)
LookHook ==
    /\ validator = "hooks" /\ Searching /\ More /\ Target \in entered
    /\ LookedAt
    /\ \/ Target \in black /\ UNCHANGED <<cyclePath, cur>>
       \/ Target \notin black /\ cyclePath' = <<Target, Here>> /\ cur' = Here
    /\ UNCHANGED <<control, from, calls, entered, parent, black, skills, chain>>
LeaveHook ==
    /\ validator = "hooks" /\ Searching /\ ~More
    /\ black' = black \cup {Here} /\ calls' = SubSeq(calls, 1, Len(calls) - 1)
    /\ UNCHANGED <<control, from, looked, entered, parent, cyclePath, cur, skills, chain>>
AtEnd == cur = cyclePath[Len(cyclePath) - 1] \/ parent[cur] = Null
TraceBack ==
    /\ cyclePath # <<>> /\ calls # <<>>
    /\ \/ /\ ~AtEnd /\ cyclePath' = <<parent[cur]>> \o cyclePath /\ cur' = parent[cur]
          /\ UNCHANGED <<from, calls>>
       \/ /\ AtEnd /\ calls' = <<>> /\ from' = Len(Nodes) + 1
          /\ UNCHANGED <<cyclePath, cur>>
    /\ UNCHANGED <<control, looked, entered, parent, black, skills, chain>>

(* Tarjan's strongly connected components.                                 *)
Smaller(a, b) == IF a < b THEN a ELSE b
\* The low link of a finished component is taken over as well.
LowlinkAny(v, w) == Smaller(index[w], lowlink[v])
Lowlink(v, w) ==
    IF \E i \in DOMAIN stack : stack[i] = w THEN Smaller(index[w], lowlink[v]) ELSE lowlink[v]
LookSkill ==
    /\ validator = "skills" /\ Searching /\ More /\ Target \in entered
    /\ LookedAt /\ lowlink' = [lowlink EXCEPT ![Here] = Lowlink(Here, Target)]
    /\ UNCHANGED <<control, from, calls, entered, hooks, index, counter, stack, sccs, chain>>
Place == CHOOSE i \in DOMAIN stack : stack[i] = Here
LeaveSkill ==
    /\ validator = "skills" /\ Searching /\ ~More
    /\ \/ /\ lowlink[Here] = index[Here]
          /\ sccs' = sccs \cup {{stack[i] : i \in Place..Len(stack)}}
          /\ stack' = SubSeq(stack, 1, Place - 1)
       \/ lowlink[Here] # index[Here] /\ UNCHANGED <<stack, sccs>>
    /\ calls' = SubSeq(calls, 1, Len(calls) - 1)
    /\ lowlink' = IF Len(calls) = 1 THEN lowlink
                  ELSE [lowlink EXCEPT ![calls[Len(calls) - 1]] = Smaller(lowlink[Here], @)]
    /\ UNCHANGED <<control, from, looked, entered, hooks, index, counter, chain>>

(* An agent of a chain on the recursion stack is a cycle: every call       *)
(* returns at once and leaves its agent there, where later agents may      *)
(* meet it.  An agent whose call has ended without one is off the stack.   *)
LookAgent ==
    /\ validator = "chain" /\ Searching /\ More /\ Target \in entered
    /\ LookedAt
    /\ \/ Target \notin recStack /\ UNCHANGED <<calls, involved>>
       \/ Target \in recStack /\ calls' = <<>> /\ involved' = involved \cup {Nodes[from]}
    /\ UNCHANGED <<control, from, entered, hooks, skills, recStack>>
LeaveAgent ==
    /\ validator = "chain" /\ Searching /\ ~More
    /\ recStack' = recStack \ {Here} /\ calls' = SubSeq(calls, 1, Len(calls) - 1)
    /\ UNCHANGED <<control, from, looked, entered, hooks, skills, involved>>

CyclesNext ==
    \/ SkipNode \/ CallRoot \/ Call \/ LookHook \/ LeaveHook \/ TraceBack
    \/ LookSkill \/ LeaveSkill \/ LookAgent \/ LeaveAgent
CyclesSpec == CyclesInit /\ [][CyclesNext]_search
SearchOver == calls = <<>> /\ from > Len(Nodes)

-----------------------------------------------------------------------------
(* The reference: m is in every set that has what n depends on and what    *)
(* its members depend on, so that n needs m, through others or directly.   *)
Succ(g, n) == {g[n][k] : k \in DOMAIN g[n]}
Closed(g, S) == \A n \in S : Succ(g, n) \subseteq S
Reaches(g, n, m) == \A S \in SUBSET Node : Succ(g, n) \subseteq S /\ Closed(g, S) => m \in S
Mutual(g, n) == {m \in Node : Reaches(g, n, m) /\ Reaches(g, m, n)}
OnCycle(g, n) == Reaches(g, n, n)
LeadsToCycle(g, n) == \E m \in Node : OnCycle(g, m) /\ (m = n \/ Reaches(g, n, m))
Cyclic(g) == \E n \in Node : OnCycle(g, n)

HooksRight ==
    /\ cyclePath # <<>> <=> Cyclic(graph)
    /\ \A i, j \in DOMAIN cyclePath : Reaches(graph, cyclePath[i], cyclePath[j])
SkillsRight ==
    {scc \in sccs : Cardinality(scc) > 1} =
        {scc \in {Mutual(graph, n) : n \in Node} : Cardinality(scc) > 1}
ChainRight ==
    /\ involved # {} <=> Cyclic(graph)
    /\ \A n \in involved : LeadsToCycle(graph, n)

(* Every search reports a cycle exactly when there is one; the path that   *)
(* is shown for hooks names only nodes of one cycle, the components shown  *)
(* for skills are the largest sets of skills that need each other, and an  *)
(* agent named for a chain leads into a cycle.  A skill that needs itself  *)
(* is the one cycle not reported.                                          *)
CyclesReported ==
    SearchOver =>
        /\ validator = "hooks" => HooksRight
        /\ validator = "skills" => SkillsRight
        /\ validator = "chain" => ChainRight
=============================================================================
