------------------------------- MODULE Memory -------------------------------
(* The memory directory of a team of agents: `bp memory cleanup` removes   *)
(* expired files one by one while agents write, and `bp memory audit`      *)
(* reports what is wrong (multiagent/memory.ts, cli/commands/memory.ts).   *)
EXTENDS Integers, FiniteSets

CONSTANTS
    Memories,       \* the files agents may keep there
    Limits,         \* the longest age each retention policy allows
    Persistent,     \* the policy under which nothing expires
    Gone,           \* no such file, no cleanup
    MaxTime         \* bound on the clock

Policies == DOMAIN Limits \cup {Persistent}

\* A cleanup under way or ended: its policy, the time it began, the files it listed and
\* has still to visit, the one it is about to remove, and what an audit would have said.
Cleanup ==
    [policy : Policies, now : 0..MaxTime, status : {"running", "done", "failed", "killed"},
     victim : Memories \cup {Gone}, files : SUBSET Memories, todo : SUBSET Memories,
     audit : SUBSET Memories]

ASSUME MemoryAssumption ==
    /\ Limits \in [DOMAIN Limits -> Nat] /\ MaxTime \in Nat
    /\ Gone \notin Nat /\ Gone \notin Memories /\ Gone \notin Cleanup

VARIABLES mtime, clock, cleanup, unlinked
memory == <<mtime, clock, cleanup, unlinked>>

listFiles == {f \in Memories : mtime[f] # Gone}

\* What an audit at time `now` says of the ages of the files.
Overdue(now, policy) ==
    {f \in listFiles : policy # Persistent /\ now - mtime[f] > Limits[policy]}

\* A file of exactly the longest age goes as well.
ExpiresAt(f) == cleanup.now - mtime[f] >= Limits[cleanup.policy]
Expires(f) == cleanup.now - mtime[f] > Limits[cleanup.policy]

MemoryInit ==
    /\ mtime \in [Memories -> {Gone, 0}] /\ clock = 0
    /\ cleanup = Gone /\ unlinked = {}
NoMemory == mtime = Gone /\ clock = 0 /\ cleanup = Gone /\ unlinked = {}

List(policy) ==
    /\ mtime # Gone /\ cleanup = Gone
    /\ cleanup' = [policy |-> policy, now |-> clock, status |-> "running", victim |-> Gone,
                   files |-> listFiles, todo |-> IF policy = Persistent THEN {} ELSE listFiles,
                   audit |-> Overdue(clock, policy)]
    /\ UNCHANGED <<mtime, clock, unlinked>>
Running == IF cleanup = Gone THEN FALSE ELSE cleanup.status = "running"
\* A file that went away between two of the calls ends the command.
Stat(f) ==
    /\ Running /\ f \in cleanup.todo /\ cleanup.victim = Gone
    /\ cleanup' = IF mtime[f] = Gone THEN [cleanup EXCEPT !.status = "failed"]
                  ELSE IF Expires(f) THEN [cleanup EXCEPT !.victim = f]
                  ELSE [cleanup EXCEPT !.todo = @ \ {f}]
    /\ UNCHANGED <<mtime, clock, unlinked>>
Unlink ==
    /\ Running /\ cleanup.victim # Gone
    /\ IF mtime[cleanup.victim] = Gone
       THEN cleanup' = [cleanup EXCEPT !.status = "failed"] /\ UNCHANGED <<mtime, unlinked>>
       ELSE /\ mtime' = [mtime EXCEPT ![cleanup.victim] = Gone]
            /\ unlinked' = unlinked \cup {[file |-> cleanup.victim, mtime |-> mtime[cleanup.victim]]}
            /\ cleanup' = [cleanup EXCEPT !.victim = Gone, !.todo = @ \ {cleanup.victim}]
    /\ UNCHANGED clock
EndCleanup ==
    /\ Running /\ cleanup.todo = {}
    /\ cleanup' = [cleanup EXCEPT !.status = "done"]
    /\ UNCHANGED <<mtime, clock, unlinked>>
KillCleanup ==
    /\ Running /\ cleanup' = [cleanup EXCEPT !.status = "killed"]
    /\ UNCHANGED <<mtime, clock, unlinked>>
AgentWrites(f) ==
    /\ mtime # Gone /\ mtime' = [mtime EXCEPT ![f] = clock]
    /\ UNCHANGED <<clock, cleanup, unlinked>>
AgentDeletes(f) ==
    /\ mtime # Gone /\ mtime' = [mtime EXCEPT ![f] = Gone]
    /\ UNCHANGED <<clock, cleanup, unlinked>>
Tick ==
    /\ mtime # Gone /\ clock < MaxTime /\ clock' = clock + 1
    /\ UNCHANGED <<mtime, cleanup, unlinked>>

MemoryNext ==
    \/ Unlink \/ EndCleanup \/ KillCleanup \/ Tick
    \/ \E policy \in Policies : List(policy)
    \/ \E f \in Memories : Stat(f) \/ AgentWrites(f) \/ AgentDeletes(f)

-----------------------------------------------------------------------------
(* The two agree on what has expired: a cleanup removes a file an audit    *)
(* would not have reported only when an agent rewrote it after the command *)
(* had started, and one that ran to its end leaves nothing that was listed *)
(* for a second audit with the same policy to report.                      *)
CleanupMatchesAudit ==
    cleanup # Gone =>
        /\ \A u \in unlinked : u.file \in cleanup.audit \/ u.mtime >= cleanup.now
        /\ cleanup.status = "done" => Overdue(cleanup.now, cleanup.policy) \cap cleanup.files = {}
=============================================================================
