--------------------------- MODULE PluginHostProofs ---------------------------
(***************************************************************************)
(* Proofs about PluginHost, for any plugins: the shape of its variables,    *)
(* that outcomes are honest, that a clean phase has checked everything,     *)
(* and that the phase implements PluginReport.                              *)
(*                                                                         *)
(* One inductive invariant, Inv, carries them all.  Its heart is Awaited: a *)
(* worker whose promise is not settled is the one that loadPlugins awaits.  *)
(* So whatever settles it becomes that plugin's outcome, and a late event,  *)
(* which finds the promise settled, becomes nobody's.                       *)
(***************************************************************************)
EXTENDS PluginHost, SequenceTheorems, TLAPS

\* What plugin i may be said to have come to.
Told(i, o) ==
    /\ o \in Possible(Plugins[i])
    /\ o.kind = "ok" => /\ thread[i] \in {"posted", "gone"}
                        /\ o.diags = diags[i]
                        /\ o.crash <=> ran[i] # Active(i)

Started(i) == thread[i] # "off"

\* Its code is at work on an answer, or the host waits for one.
Pending(i) == /\ phase = "load" /\ Started(i)
              /\ IF Isolated(i) THEN ~settled[i] ELSE thread[i] \notin {"posted", "gone"}

PluginInv(i) ==
    /\ ran[i] \subseteq Active(i) /\ diags[i] \subseteq Active(i)
    /\ Started(i) => Plugins[i].inside /\ phase \notin {"start", "parse", "skipped"}
    /\ settled[i] \/ timer[i] \/ inbox[i] # {} => Isolated(i) /\ Started(i)
    /\ Pending(i) => Current(i)
    /\ \A e \in inbox[i] : e.type = "message" => Told(i, e.body)

HostInv ==
    /\ phase \in {"start", "parse", "skipped"} => outcomes = <<>> /\ answer = None
    /\ \A i \in 1 .. Len(outcomes) : Told(i, outcomes[i])
    /\ answer # None => Len(outcomes) < Len(Plugins) /\ Told(Len(outcomes) + 1, answer)
    /\ phase = "done" => /\ Len(outcomes) = Len(Plugins)
                         /\ \A i \in Index : Errors(i, outcomes[i]) \subseteq report

Inv == TypeOK /\ HostInv /\ \A i \in Index : PluginInv(i)

-----------------------------------------------------------------------------
USE PluginAssumption

LEMMA PluginTypes ==
  ASSUME NEW i \in Index
  PROVE  /\ Plugins[i] \in Plugin
         /\ Len(Plugins[i].levels) \in Nat
         /\ Active(i) \subseteq 1 .. Len(Plugins[i].levels)
         /\ Active(i) \subseteq Nat
<1>1. Plugins[i] \in Plugin
  BY DEF Index
<1>2. Plugins[i].levels \in Seq(Level)
  BY <1>1 DEF Plugin
<1>3. Len(Plugins[i].levels) \in Nat
  BY <1>2
<1> QED
  BY <1>1, <1>3 DEF Active

\* Every outcome that the configuration allows is an outcome.
LEMMA PossibleTypes ==
  ASSUME NEW i \in Index, NEW o \in Possible(Plugins[i])
  PROVE  o \in Outcome
<1>1. Len(Plugins[i].levels) \in Nat
  BY PluginTypes
<1> QED
  BY <1>1 DEF Possible, Outcome

LEMMA InitInv == Init => Inv
<1> SUFFICES ASSUME Init PROVE Inv
  OBVIOUS
<1>1. TypeOK
  BY EmptySeq DEF Init, TypeOK, Phases
<1>2. HostInv
  BY DEF Init, HostInv
<1>3. ASSUME NEW i \in Index PROVE PluginInv(i)
  BY <1>3 DEF Init, PluginInv, Pending, Started
<1> QED
  BY <1>1, <1>2, <1>3 DEF Inv

LEMMA FailureTold ==
  ASSUME NEW i \in Index, NEW kind \in {"timeout", "load-error"}, Plugins[i].inside,
         kind = "timeout" => Isolated(i)
  PROVE  Told(i, Failure(kind))
<1>1. Plugins[i].inside /\ Len(Plugins[i].levels) \in Nat
  BY PluginTypes
<1> QED
  BY <1>1 DEF Told, Failure, Possible, Isolated

-----------------------------------------------------------------------------
(* What a plugin was told stays so while its code and the level do *)

LEMMA ToldKept ==
  ASSUME NEW i, NEW o, Told(i, o), level' = level,
         thread[i] \in {"posted", "gone"} => /\ thread'[i] \in {"posted", "gone"}
                                             /\ ran'[i] = ran[i] /\ diags'[i] = diags[i]
  PROVE  Told(i, o)'
<1>1. Active(i)' = Active(i)
  BY DEF Active, Wanted
<1> QED
  BY <1>1 DEF Told

\* A plugin that a step leaves alone, unless the step makes it the awaited one.
LEMMA PluginKept ==
  ASSUME NEW i \in Index, PluginInv(i), level' = level, thread'[i] = thread[i],
         ran'[i] = ran[i], diags'[i] = diags[i], inbox'[i] = inbox[i],
         settled'[i] = settled[i], timer'[i] = timer[i],
         Started(i) => phase' \notin {"start", "parse", "skipped"},
         Pending(i)' => Current(i)'
  PROVE  PluginInv(i)'
<1>1. Active(i)' = Active(i) /\ Started(i)' = Started(i)
  BY DEF Active, Wanted, Started
<1>2. \A e \in inbox[i] : e.type = "message" => Told(i, e.body)'
  BY ToldKept DEF PluginInv
<1> QED
  BY <1>1, <1>2 DEF PluginInv, Isolated

-----------------------------------------------------------------------------
(* The steps of the phase *)

LEMMA StartInv == Inv /\ Start => Inv'
<1> SUFFICES ASSUME Inv, Start PROVE Inv'
  OBVIOUS
<1>1. /\ TypeOK /\ HostInv /\ phase = "start" /\ phase' \in {"skipped", "parse"}
      /\ report' \in {report, NotInstalled}
      /\ UNCHANGED <<level, outcomes, answer, settled, timer, thread, ran, diags, inbox>>
  BY DEF Inv, Start, code
<1>2. TypeOK'
  <2>1. NotInstalled \subseteq [type : FindingType, plugin : Index \union Missing \union {0}, validator : Nat]
    BY DEF NotInstalled, Finding, FindingType
  <2> QED
    BY <1>1, <2>1 DEF TypeOK, Phases
<1>3. HostInv'
  BY <1>1 DEF HostInv
<1>4. ASSUME NEW i \in Index PROVE PluginInv(i)'
  <2>1. PluginInv(i) /\ ~Started(i) /\ ~Pending(i)'
    BY <1>1 DEF Inv, PluginInv, Pending
  <2> QED
    BY <1>1, <2>1, PluginKept
<1> QED
  BY <1>2, <1>3, <1>4 DEF Inv, Index

LEMMA ParseInv == Inv /\ Parse => Inv'
<1> SUFFICES ASSUME Inv, Parse PROVE Inv'
  OBVIOUS
<1>1. /\ TypeOK /\ HostInv /\ phase = "parse" /\ phase' \in {"skipped", "load"}
      /\ report' \in {report, report \union {Finding("PLUGIN_CONTEXT_UNAVAILABLE", 0, 0)}}
      /\ UNCHANGED <<level, outcomes, answer, settled, timer, thread, ran, diags, inbox>>
  BY DEF Inv, Parse, code
<1>2. TypeOK'
  BY <1>1 DEF TypeOK, Phases, Finding, FindingType
<1>3. HostInv'
  BY <1>1 DEF HostInv
<1>4. ASSUME NEW i \in Index PROVE PluginInv(i)'
  <2>1. PluginInv(i) /\ ~Started(i) /\ ~Started(i)'
    BY <1>1 DEF Inv, PluginInv, Started
  <2>2. Pending(i)' => Current(i)'
    BY <2>1 DEF Pending
  <2> QED
    BY <1>1, <2>1, <2>2, PluginKept
<1> QED
  BY <1>2, <1>3, <1>4 DEF Inv, Index

\* An outcome is recorded, and the plugins before it keep theirs.
LEMMA AppendTold ==
  ASSUME Inv, NEW o, Len(outcomes) < Len(Plugins), Told(Len(outcomes) + 1, o),
         phase = "load", outcomes' = Append(outcomes, o),
         UNCHANGED <<phase, level, thread, ran, diags>>
  PROVE  /\ outcomes' \in Seq(Outcome) /\ Len(outcomes') = Len(outcomes) + 1
         /\ Len(outcomes') <= Len(Plugins)
         /\ (\A i \in 1 .. Len(outcomes) : Told(i, outcomes[i]))'
<1>1. outcomes \in Seq(Outcome) /\ Len(outcomes) \in Nat /\ Len(Plugins) \in Nat
  BY DEF Inv, TypeOK
<1>2. o \in Outcome
  BY <1>1, PossibleTypes DEF Told, Index
<1>3. outcomes' \in Seq(Outcome) /\ Len(outcomes') = Len(outcomes) + 1
  BY <1>1, <1>2
<1>4. ASSUME NEW i \in 1 .. Len(outcomes') PROVE Told(i, outcomes[i])'
  <2>1. CASE i = Len(outcomes) + 1
    <3>1. outcomes'[i] = o /\ Told(i, o)
      BY <1>1, <1>2, <2>1
    <3>2. Told(i, o)'
      BY <3>1, ToldKept
    <3> QED
      BY <3>1, <3>2 DEF Told
  <2>2. CASE i \in 1 .. Len(outcomes)
    <3>1. outcomes'[i] = outcomes[i] /\ Told(i, outcomes[i])
      BY <1>1, <1>2, <2>2 DEF Inv, HostInv
    <3>2. Told(i, outcomes[i])'
      BY <3>1, ToldKept
    <3> QED
      BY <3>1, <3>2 DEF Told
  <2> QED
    BY <1>1, <1>3, <2>1, <2>2
<1> QED
  BY <1>1, <1>3, <1>4

LEMMA EscapeInv == \A i \in Index : Inv /\ Escape(i) => Inv'
<1> SUFFICES ASSUME NEW i \in Index, Inv, Escape(i) PROVE Inv'
  OBVIOUS
<1> DEFINE o == Failure("path-escape")
<1>1. /\ TypeOK /\ HostInv /\ phase = "load" /\ Current(i) /\ ~Plugins[i].inside
      /\ i = Len(outcomes) + 1 /\ answer = None
      /\ outcomes' = Append(outcomes, o)
      /\ UNCHANGED <<phase, level, answer, settled, timer, report, thread, ran, diags, inbox>>
  BY DEF Inv, Escape, Current, code
<1>2. Len(outcomes) \in Nat /\ Len(Plugins) \in Nat /\ Len(outcomes) < Len(Plugins)
  BY <1>1 DEF TypeOK, Index
<1>3. Told(i, o)
  BY <1>1, PluginTypes DEF Told, Failure, Possible
<1>4. /\ outcomes' \in Seq(Outcome) /\ Len(outcomes') <= Len(Plugins)
      /\ (\A k \in 1 .. Len(outcomes) : Told(k, outcomes[k]))'
  BY <1>1, <1>2, <1>3, AppendTold
<1>5. TypeOK'
  BY <1>1, <1>4 DEF TypeOK
<1>6. HostInv'
  BY <1>1, <1>4 DEF HostInv
<1>7. ASSUME NEW j \in Index PROVE PluginInv(j)'
  <2>1. PluginInv(j) /\ (j = i => ~Started(j))
    BY <1>1 DEF Inv, PluginInv
  <2>2. Pending(j)' => Pending(j) /\ j # i
    BY <1>1, <2>1 DEF Pending, Started
  <2>3. Pending(j) => j = i
    BY <1>1, <2>1 DEF PluginInv, Current
  <2> QED
    BY <1>1, <2>1, <2>2, <2>3, PluginKept
<1> QED
  BY <1>5, <1>6, <1>7 DEF Inv, Index

LEMMA LaunchInv == \A i \in Index : Inv /\ Launch(i) => Inv'
<1> SUFFICES ASSUME NEW i \in Index, Inv, Launch(i) PROVE Inv'
  OBVIOUS
<1>1. /\ TypeOK /\ HostInv /\ PluginInv(i) /\ phase = "load" /\ Current(i)
      /\ Plugins[i].inside /\ thread[i] = "off"
      /\ thread' = [thread EXCEPT ![i] = "loading"]
      /\ timer' = [timer EXCEPT ![i] = Isolated(i)]
      /\ UNCHANGED <<phase, level, outcomes, answer, settled, report, ran, diags, inbox>>
  BY DEF Inv, Launch, Current
<1>2. TypeOK'
  BY <1>1 DEF TypeOK, Isolated
<1>3. \A k \in Index : k # i => thread'[k] = thread[k] /\ timer'[k] = timer[k]
  BY <1>1 DEF TypeOK
<1>4. thread'[i] = "loading" /\ timer'[i] = Isolated(i)
  BY <1>1 DEF TypeOK
<1>5. ASSUME NEW k \in Index, NEW o, Told(k, o) PROVE Told(k, o)'
  BY <1>1, <1>3, <1>5, ToldKept
<1>6. HostInv'
  <2>1. outcomes \in Seq(Outcome) /\ Len(outcomes) \in Nat /\ Len(Plugins) \in Nat
        /\ Len(outcomes) <= Len(Plugins)
    BY <1>1 DEF TypeOK
  <2>2. ASSUME NEW k \in 1 .. Len(outcomes) PROVE Told(k, outcomes[k])'
    BY <1>1, <1>5, <2>1 DEF HostInv, Index
  <2> QED
    BY <1>1, <2>1, <2>2 DEF HostInv, Current
<1>7. ASSUME NEW j \in Index PROVE PluginInv(j)'
  <2>1. CASE j = i
    <3>1. Active(i)' = Active(i)
      BY <1>1 DEF Active, Wanted
    <3>2. inbox[i] = {} /\ ~settled[i]
      BY <1>1 DEF PluginInv, Started
    <3> QED
      BY <1>1, <1>4, <2>1, <3>1, <3>2 DEF PluginInv, Started, Pending, Current, Isolated
  <2>2. CASE j # i
    <3>1. PluginInv(j)
      BY DEF Inv
    <3>2. (Pending(j)' => Pending(j)) /\ (Current(j) => Current(j)')
      BY <1>1, <1>3, <2>2 DEF Pending, Started, Current
    <3> QED
      BY <1>1, <1>3, <2>2, <3>1, <3>2, PluginKept DEF PluginInv
  <2> QED
    BY <2>1, <2>2
<1> QED
  BY <1>2, <1>6, <1>7 DEF Inv, Index

LEMMA RecordInv == Inv /\ Record => Inv'
<1> SUFFICES ASSUME Inv, Record PROVE Inv'
  OBVIOUS
<1>1. /\ TypeOK /\ HostInv /\ phase = "load" /\ answer # None /\ answer' = None
      /\ outcomes' = Append(outcomes, answer)
      /\ UNCHANGED <<phase, level, settled, timer, report, thread, ran, diags, inbox>>
  BY DEF Inv, Record, code
<1>2. /\ outcomes' \in Seq(Outcome) /\ Len(outcomes') <= Len(Plugins)
      /\ (\A k \in 1 .. Len(outcomes) : Told(k, outcomes[k]))'
  BY <1>1, AppendTold DEF HostInv
<1>3. TypeOK'
  BY <1>1, <1>2 DEF TypeOK
<1>4. HostInv'
  BY <1>1, <1>2 DEF HostInv
<1>5. ASSUME NEW j \in Index PROVE PluginInv(j)'
  <2>1. PluginInv(j) /\ ~Current(j)
    BY <1>1 DEF Inv, Current
  <2>2. ~Pending(j) /\ (Pending(j)' => Pending(j))
    BY <1>1, <2>1 DEF PluginInv, Pending, Started
  <2> QED
    BY <1>1, <2>1, <2>2, PluginKept
<1> QED
  BY <1>3, <1>4, <1>5 DEF Inv, Index

\* What an outcome adds to the report has the shape of a diagnostic.
LEMMA ErrorTypes ==
  ASSUME NEW i \in Index, NEW o \in Outcome
  PROVE  Errors(i, o) \subseteq [type : FindingType, plugin : Index \union Missing \union {0}, validator : Nat]
<1>1. o.diags \subseteq Nat
  BY DEF Outcome
<1> QED
  BY <1>1 DEF Errors, Finding, FindingType, Trouble

LEMMA FinishInv == Inv /\ Finish => Inv'
<1> SUFFICES ASSUME Inv, Finish PROVE Inv'
  OBVIOUS
<1>1. /\ TypeOK /\ HostInv /\ phase = "load" /\ answer = None
      /\ Len(outcomes) = Len(Plugins) /\ phase' = "done"
      /\ report' = report \union UNION {Errors(i, outcomes[i]) : i \in Index}
      /\ UNCHANGED <<level, outcomes, answer, settled, timer, thread, ran, diags, inbox>>
  BY DEF Inv, Finish, code
<1>2. \A i \in Index : outcomes[i] \in Outcome
  BY <1>1 DEF TypeOK, Index
<1>3. TypeOK'
  BY <1>1, <1>2, ErrorTypes DEF TypeOK, Phases
<1>4. ASSUME NEW k \in 1 .. Len(outcomes) PROVE Told(k, outcomes[k])'
  BY <1>1, ToldKept DEF HostInv
<1>5. HostInv'
  BY <1>1, <1>4 DEF HostInv, Errors, Finding
<1>6. ASSUME NEW j \in Index PROVE PluginInv(j)'
  <2>1. PluginInv(j) /\ ~Pending(j)'
    BY <1>1 DEF Inv, Pending
  <2> QED
    BY <1>1, <2>1, PluginKept
<1> QED
  BY <1>3, <1>5, <1>6 DEF Inv, Index

-----------------------------------------------------------------------------
(* The steps of the plugins and of their hosts *)

\* A step that settles nothing: the code of plugin i goes on, ends or sends
\* something that is not a result, or the host takes note of it.
LEMMA QuietInv ==
  ASSUME Inv, NEW i \in Index, Started(i), phase = "load", TypeOK',
         phase' \in {"load", "down"}, UNCHANGED <<level, outcomes, answer, report>>,
         \/ UNCHANGED <<settled, timer>>
         \/ /\ phase' = "down" /\ Isolated(i)
            /\ \A k \in Index : k # i => settled'[k] = settled[k] /\ timer'[k] = timer[k],
         \A k \in Index : k # i => /\ thread'[k] = thread[k] /\ ran'[k] = ran[k]
                                  /\ diags'[k] = diags[k] /\ inbox'[k] = inbox[k],
         ran'[i] \subseteq Active(i), diags'[i] \subseteq Active(i),
         thread[i] \in {"posted", "gone"} => /\ thread'[i] \in {"posted", "gone"}
                                             /\ ran'[i] = ran[i] /\ diags'[i] = diags[i],
         thread'[i] # "off",
         inbox'[i] # {} => inbox[i] # {} \/ Isolated(i),
         \A e \in inbox'[i] : e.type = "message" => e \in inbox[i]
  PROVE  Inv'
<1>1. TypeOK /\ HostInv /\ PluginInv(i)
  BY DEF Inv
<1>2. ASSUME NEW k \in Index, NEW o, Told(k, o) PROVE Told(k, o)'
  BY <1>2, ToldKept
<1>3. HostInv'
  <2>1. outcomes \in Seq(Outcome) /\ Len(outcomes) \in Nat /\ Len(Plugins) \in Nat
        /\ Len(outcomes) <= Len(Plugins)
    BY <1>1 DEF TypeOK
  <2>2. ASSUME NEW k \in 1 .. Len(outcomes) PROVE Told(k, outcomes[k])'
    BY <1>1, <1>2, <2>1 DEF HostInv, Index
  <2>3. answer # None => Told(Len(outcomes) + 1, answer)'
    BY <1>1, <1>2, <2>1 DEF HostInv, Index
  <2> QED
    BY <1>1, <2>1, <2>2, <2>3 DEF HostInv
<1>4. ASSUME NEW j \in Index PROVE PluginInv(j)'
  <2>1. PluginInv(j)
    BY DEF Inv
  <2>2. Pending(j)' => Pending(j)
    BY <1>1 DEF Pending, Started
  <2>3. Pending(j)' => Current(j)'
    BY <2>1, <2>2 DEF PluginInv, Current, Pending
  <2>4. CASE j # i
    BY <2>1, <2>3, <2>4, PluginKept DEF PluginInv
  <2>5. CASE j = i
    <3>1. Active(i)' = Active(i)
      BY DEF Active, Wanted
    <3>2. \A e \in inbox'[i] : e.type = "message" => Told(i, e.body)'
      BY <1>1, <1>2 DEF PluginInv
    <3> QED
      BY <1>1, <2>3, <2>5, <3>1, <3>2 DEF PluginInv, Started, Isolated
  <2> QED
    BY <2>4, <2>5
<1> QED
  BY <1>3, <1>4 DEF Inv, Index

LEMMA SignalTypes ==
  \A type \in {"stray", "error", "exit", "failed exit"} :
      Signal(type) \in Event /\ Signal(type).type = type
  BY DEF Signal, Event

LEMMA CheckInv == \A i \in Index : Inv /\ Check(i) => Inv'
<1> SUFFICES ASSUME NEW i \in Index, Inv, Check(i) PROVE Inv'
  OBVIOUS
<1>1. PICK v \in Active(i) :
        /\ NextUp(i, v)
        /\ diags' \in {diags, [diags EXCEPT ![i] = @ \union {v}]}
        /\ \/ ran' = [ran EXCEPT ![i] = @ \union {v}] /\ UNCHANGED thread
           \/ thread' = [thread EXCEPT ![i] = "stuck"] /\ UNCHANGED ran
  BY DEF Check
<1>2. /\ TypeOK /\ PluginInv(i) /\ phase = "load" /\ thread[i] = "checking"
      /\ UNCHANGED <<phase, level, outcomes, answer, settled, timer, report, inbox>>
  BY DEF Inv, Check, Alive, host
<1>3. v \in Nat
  BY PluginTypes
<1>4. /\ thread' \in [Index -> {"off", "loading", "checking", "stuck", "posted", "gone"}]
      /\ ran' \in [Index -> SUBSET Nat] /\ diags' \in [Index -> SUBSET Nat]
      /\ thread'[i] \in {"checking", "stuck"}
      /\ ran'[i] \in {ran[i], ran[i] \union {v}} /\ diags'[i] \in {diags[i], diags[i] \union {v}}
      /\ \A k \in Index : k # i => thread'[k] = thread[k] /\ ran'[k] = ran[k] /\ diags'[k] = diags[k]
  BY <1>1, <1>2, <1>3 DEF TypeOK
<1>5. TypeOK'
  BY <1>2, <1>4 DEF TypeOK
<1>6. ran'[i] \subseteq Active(i) /\ diags'[i] \subseteq Active(i) /\ Started(i)
  BY <1>2, <1>4 DEF PluginInv, Started
<1> QED
  BY <1>2, <1>4, <1>5, <1>6, QuietInv DEF PluginInv

LEMMA EndsInv == \A i \in Index : Inv /\ (Exit(i) \/ Break(i)) => Inv'
<1> SUFFICES ASSUME NEW i \in Index, Inv, Exit(i) \/ Break(i) PROVE Inv'
  OBVIOUS
<1>1. /\ TypeOK /\ PluginInv(i) /\ phase = "load"
      /\ thread[i] \in {"loading", "checking", "stuck", "posted"}
      /\ thread' = [thread EXCEPT ![i] = "gone"]
      /\ UNCHANGED <<level, outcomes, answer, settled, timer, report, ran, diags>>
  BY DEF Inv, Exit, Break, Alive
<1>2. PICK e \in {"error", "exit", "failed exit"} :
        \/ /\ Isolated(i) /\ UNCHANGED phase
           /\ inbox' = [inbox EXCEPT ![i] = @ \union {Signal(e)}]
        \/ ~Isolated(i) /\ phase' = "down" /\ UNCHANGED inbox
  BY DEF Exit, Break
<1>3. Signal(e) \in Event /\ Signal(e).type # "message"
  BY SignalTypes
<1>4. /\ thread' \in [Index -> {"off", "loading", "checking", "stuck", "posted", "gone"}]
      /\ thread'[i] = "gone" /\ \A k \in Index : k # i => thread'[k] = thread[k]
      /\ inbox' \in [Index -> SUBSET Event]
      /\ inbox'[i] \subseteq inbox[i] \union {Signal(e)}
      /\ inbox'[i] # {} => inbox[i] # {} \/ Isolated(i)
      /\ \A k \in Index : k # i => inbox'[k] = inbox[k]
  <2>1. inbox \in [Index -> SUBSET Event]
    BY <1>1 DEF TypeOK
  <2>2. CASE Isolated(i)
    <3>1. inbox' = [inbox EXCEPT ![i] = @ \union {Signal(e)}]
      BY <1>2, <2>2
    <3> QED
      BY <1>1, <1>3, <2>1, <2>2, <3>1 DEF TypeOK
  <2>3. CASE ~Isolated(i)
    <3>1. inbox' = inbox
      BY <1>2, <2>3
    <3> QED
      BY <1>1, <2>1, <3>1 DEF TypeOK
  <2> QED
    BY <2>2, <2>3
<1>5. TypeOK'
  BY <1>1, <1>2, <1>4 DEF TypeOK, Phases
<1>6. \A m \in inbox'[i] : m.type = "message" => m \in inbox[i]
  BY <1>3, <1>4
<1> QED
  BY <1>1, <1>2, <1>4, <1>5, <1>6, QuietInv DEF PluginInv, Started

LEMMA StrayInv == \A i \in Index : Inv /\ Stray(i) => Inv'
<1> SUFFICES ASSUME NEW i \in Index, Inv, Stray(i) PROVE Inv'
  OBVIOUS
<1>1. /\ TypeOK /\ PluginInv(i) /\ phase = "load" /\ thread[i] # "off" /\ Isolated(i)
      /\ inbox' = [inbox EXCEPT ![i] = @ \union {Signal("stray")}]
      /\ UNCHANGED <<phase, level, outcomes, answer, settled, timer, report, thread, ran, diags>>
  BY DEF Inv, Stray, Alive, host
<1>2. Signal("stray") \in Event /\ Signal("stray").type # "message"
  BY SignalTypes
<1>3. /\ inbox' \in [Index -> SUBSET Event] /\ inbox'[i] = inbox[i] \union {Signal("stray")}
      /\ \A k \in Index : k # i => inbox'[k] = inbox[k]
  BY <1>1, <1>2 DEF TypeOK
<1>4. TypeOK'
  BY <1>1, <1>3 DEF TypeOK
<1>5. \A m \in inbox'[i] : m.type = "message" => m \in inbox[i]
  BY <1>2, <1>3
<1> QED
  BY <1>1, <1>3, <1>4, <1>5, QuietInv DEF PluginInv, Started

LEMMA TerminatedInv == \A i \in Index : Inv /\ Terminated(i) => Inv'
<1> SUFFICES ASSUME NEW i \in Index, Inv, Terminated(i) PROVE Inv'
  OBVIOUS
<1>1. /\ TypeOK /\ PluginInv(i) /\ phase = "load" /\ thread[i] # "off"
      /\ thread' = [thread EXCEPT ![i] = "gone"]
      /\ UNCHANGED <<phase, level, outcomes, answer, settled, timer, report, ran, diags, inbox>>
  BY DEF Inv, Terminated, Alive, host
<1>2. /\ thread' \in [Index -> {"off", "loading", "checking", "stuck", "posted", "gone"}]
      /\ thread'[i] = "gone" /\ \A k \in Index : k # i => thread'[k] = thread[k]
  BY <1>1 DEF TypeOK
<1>3. TypeOK'
  BY <1>1, <1>2 DEF TypeOK
<1> QED
  BY <1>1, <1>2, <1>3, QuietInv DEF PluginInv, Started

\* A step that brings plugin i to a result, which the worker sends or inline
\* code hands over.
LEMMA PostInv ==
  ASSUME Inv, NEW i \in Index, NEW o, phase = "load", thread[i] \in {"loading", "checking"},
         Post(i, o), o \in Possible(Plugins[i]),
         UNCHANGED <<phase, level, outcomes, settled, timer, report, ran>>,
         diags' \in [Index -> SUBSET Nat], diags'[i] \subseteq Active(i),
         \A k \in Index : k # i => diags'[k] = diags[k],
         o.kind = "ok" => o.diags = diags'[i] /\ (o.crash <=> ran[i] # Active(i))
  PROVE  Inv'
<1>1. TypeOK /\ HostInv /\ PluginInv(i) /\ Started(i) /\ Plugins[i].inside
  BY DEF Inv, PluginInv, Started
<1>2. Active(i)' = Active(i)
  BY DEF Active, Wanted
<1>3. o \in Outcome /\ [type |-> "message", body |-> o] \in Event
  BY PossibleTypes DEF Event
<1>4. /\ thread' = [thread EXCEPT ![i] = "posted"]
      /\ thread' \in [Index -> {"off", "loading", "checking", "stuck", "posted", "gone"}]
      /\ thread'[i] = "posted" /\ \A k \in Index : k # i => thread'[k] = thread[k]
  BY <1>1 DEF TypeOK, Post
<1>5. Told(i, o)'
  BY <1>2, <1>4 DEF Told
<1>6. ASSUME NEW k \in Index, NEW u, Told(k, u) PROVE Told(k, u)'
  BY <1>4, <1>6, ToldKept
<1>7. ASSUME NEW k \in 1 .. Len(outcomes) PROVE Told(k, outcomes[k])'
  BY <1>1, <1>6 DEF HostInv, TypeOK, Index
<1>8. CASE Isolated(i)
  <2>1. inbox' = [inbox EXCEPT ![i] = @ \union {[type |-> "message", body |-> o]}] /\ answer' = answer
    BY <1>8 DEF Post
  <2>2. /\ inbox' \in [Index -> SUBSET Event]
        /\ inbox'[i] = inbox[i] \union {[type |-> "message", body |-> o]}
        /\ \A k \in Index : k # i => inbox'[k] = inbox[k]
    BY <1>1, <1>3, <2>1 DEF TypeOK
  <2>3. TypeOK'
    BY <1>1, <1>4, <2>1, <2>2 DEF TypeOK
  <2>4. HostInv'
    <3> DEFINE next == Len(outcomes) + 1
    <3>1. answer # None => Told(next, answer)'
      <4>1. SUFFICES ASSUME answer # None PROVE Told(next, answer)'
        BY <2>1
      <4>2. next \in Index /\ Told(next, answer) /\ next' = next
        BY <1>1, <4>1 DEF HostInv, TypeOK, Index
      <4>3. PICK n, u : n = next /\ u = answer
        OBVIOUS
      <4>4. Told(n, u)'
        BY <1>6, <4>2, <4>3
      <4> QED
        BY <2>1, <4>2, <4>3, <4>4 DEF Told
    <3> QED
      BY <1>1, <1>7, <2>1, <3>1 DEF HostInv
  <2>5. ASSUME NEW j \in Index PROVE PluginInv(j)'
    <3>1. PluginInv(j)
      BY DEF Inv
    <3>2. Pending(j)' => Current(j)'
      BY <1>4, <1>8, <2>1, <3>1 DEF PluginInv, Pending, Started, Current, Isolated
    <3>3. CASE j # i
      BY <1>4, <2>2, <3>1, <3>2, <3>3, PluginKept DEF PluginInv
    <3>4. CASE j = i
      <4>1. \A e \in inbox'[i] : e.type = "message" => Told(i, e.body)'
        BY <1>1, <1>5, <1>6, <2>2 DEF PluginInv
      <4> QED
        BY <1>1, <1>2, <1>4, <1>8, <2>1, <3>2, <3>4, <4>1 DEF PluginInv, Started, Isolated
    <3> QED
      BY <3>3, <3>4
  <2> QED
    BY <2>3, <2>4, <2>5 DEF Inv, Index
<1>9. CASE ~Isolated(i)
  <2>1. answer' = o /\ inbox' = inbox /\ Current(i)
    BY <1>1, <1>9 DEF Post, PluginInv, Pending
  <2>2. TypeOK'
    BY <1>1, <1>3, <1>4, <2>1 DEF TypeOK
  <2>3. HostInv'
    <3>1. i = Len(outcomes) + 1 /\ Len(outcomes) < Len(Plugins)
      BY <1>1, <2>1 DEF Current, TypeOK, Index
    <3>2. Told(Len(outcomes) + 1, answer)'
      BY <1>5, <2>1, <3>1 DEF Told
    <3> QED
      BY <1>1, <1>7, <2>1, <3>1, <3>2 DEF HostInv
  <2>4. ASSUME NEW j \in Index PROVE PluginInv(j)'
    <3>1. PluginInv(j)
      BY DEF Inv
    <3>2. ~Pending(j)'
      <4>1. CASE j = i
        BY <1>4, <1>9, <4>1 DEF Pending, Isolated
      <4>2. CASE j # i
        <5>1. ~Pending(j)
          BY <2>1, <3>1, <4>2 DEF PluginInv, Current
        <5> QED
          BY <1>4, <4>2, <5>1 DEF Pending, Started, Isolated
      <4> QED
        BY <4>1, <4>2
    <3>3. CASE j # i
      BY <1>4, <2>1, <3>1, <3>2, <3>3, PluginKept DEF PluginInv
    <3>4. CASE j = i
      <4>1. inbox[i] = {} /\ ~settled[i] /\ ~timer[i]
        BY <1>1, <1>9 DEF PluginInv
      <4> QED
        BY <1>1, <1>2, <2>1, <3>2, <3>4, <4>1 DEF PluginInv
    <3> QED
      BY <3>3, <3>4
  <2> QED
    BY <2>2, <2>3, <2>4 DEF Inv, Index
<1> QED
  BY <1>8, <1>9

LEMMA LoadInv == \A i \in Index : Inv /\ Load(i) => Inv'
<1> SUFFICES ASSUME NEW i \in Index, Inv, Load(i) PROVE Inv'
  OBVIOUS
<1>1. /\ TypeOK /\ PluginInv(i) /\ phase = "load" /\ thread[i] = "loading" /\ Started(i)
      /\ UNCHANGED <<phase, level, outcomes, settled, timer, report, ran, diags>>
  BY DEF Inv, Load, Alive, Started
<1>2. CASE thread' = [thread EXCEPT ![i] = "checking"] /\ UNCHANGED <<answer, inbox>>
  <2>1. /\ thread' \in [Index -> {"off", "loading", "checking", "stuck", "posted", "gone"}]
        /\ thread'[i] = "checking" /\ \A k \in Index : k # i => thread'[k] = thread[k]
    BY <1>1, <1>2 DEF TypeOK
  <2>2. TypeOK'
    BY <1>1, <1>2, <2>1 DEF TypeOK
  <2> QED
    BY <1>1, <1>2, <2>1, <2>2, QuietInv DEF PluginInv
<1>3. CASE Post(i, Failure("load-error"))
  <2>1. Failure("load-error") \in Possible(Plugins[i]) /\ Failure("load-error").kind # "ok"
    BY <1>1, FailureTold DEF PluginInv, Told, Failure
  <2> QED
    BY <1>1, <1>3, <2>1, PostInv DEF PluginInv, TypeOK
<1> QED
  BY <1>2, <1>3 DEF Load

LEMMA ResultPossible ==
  ASSUME NEW i \in Index, Plugins[i].inside, NEW d \in SUBSET Active(i), NEW c \in BOOLEAN
  PROVE  [kind |-> "ok", diags |-> d, crash |-> c] \in Possible(Plugins[i])
  BY PluginTypes DEF Possible

LEMMA ThrowInv == \A i \in Index : Inv /\ Throw(i) => Inv'
<1> SUFFICES ASSUME NEW i \in Index, Inv, Throw(i) PROVE Inv'
  OBVIOUS
<1>1. PICK v \in Active(i) : /\ NextUp(i, v)
        /\ \E d \in {diags[i], diags[i] \union {v}} :
                /\ diags' = [diags EXCEPT ![i] = d]
                /\ Post(i, [kind |-> "ok", diags |-> d, crash |-> TRUE])
  BY DEF Throw
<1>2. /\ TypeOK /\ PluginInv(i) /\ phase = "load" /\ thread[i] = "checking" /\ Started(i)
      /\ UNCHANGED <<phase, level, outcomes, settled, timer, report, ran>>
  BY DEF Inv, Throw, Alive, Started
<1>3. PICK d \in {diags[i], diags[i] \union {v}} :
        /\ diags' = [diags EXCEPT ![i] = d]
        /\ Post(i, [kind |-> "ok", diags |-> d, crash |-> TRUE])
  BY <1>1
<1>4. d \subseteq Active(i) /\ ran[i] # Active(i) /\ Plugins[i].inside
  BY <1>1, <1>2 DEF PluginInv, NextUp
<1>5. /\ diags' \in [Index -> SUBSET Nat] /\ diags'[i] = d
      /\ \A k \in Index : k # i => diags'[k] = diags[k]
  BY <1>2, <1>3, <1>4, PluginTypes DEF TypeOK
<1> DEFINE o == [kind |-> "ok", diags |-> d, crash |-> TRUE]
<1>6. o \in Possible(Plugins[i])
  BY <1>4, ResultPossible
<1>7. o.kind = "ok" /\ o.diags = d /\ o.crash
  OBVIOUS
<1>8. Post(i, o)
  BY <1>3
<1> HIDE DEF o
<1> QED
  BY <1>2, <1>4, <1>5, <1>6, <1>7, <1>8, PostInv

LEMMA ReturnInv == \A i \in Index : Inv /\ Return(i) => Inv'
<1> SUFFICES ASSUME NEW i \in Index, Inv, Return(i) PROVE Inv'
  OBVIOUS
<1>1. /\ TypeOK /\ PluginInv(i) /\ phase = "load" /\ thread[i] = "checking" /\ Started(i)
      /\ ran[i] = Active(i)
      /\ UNCHANGED <<phase, level, outcomes, settled, timer, report, ran, diags>>
  BY DEF Inv, Return, Alive, Started
<1>2. PICK d : d = diags[i]
  OBVIOUS
<1>3. d \subseteq Active(i) /\ Plugins[i].inside
  BY <1>1, <1>2 DEF PluginInv
<1> DEFINE o == [kind |-> "ok", diags |-> d, crash |-> FALSE]
<1>4. o \in Possible(Plugins[i])
  BY <1>3, ResultPossible
<1>5. o.kind = "ok" /\ o.diags = d /\ ~o.crash
  OBVIOUS
<1>6. Post(i, o)
  BY <1>2 DEF Return
<1>7. diags' \in [Index -> SUBSET Nat] /\ diags'[i] = d
  BY <1>1, <1>2 DEF TypeOK
<1> HIDE DEF o
<1> QED
  BY <1>1, <1>3, <1>4, <1>5, <1>6, <1>7, PostInv

\* finish: an event of a worker brings its host to an outcome, or comes too late.
LEMMA SettleInv ==
  ASSUME Inv, NEW i \in Index, NEW o, phase = "load", Isolated(i), Started(i), Told(i, o),
         Settle(i, o), UNCHANGED <<phase, level, outcomes, report, thread, ran, diags>>,
         inbox' \in [Index -> SUBSET Event], inbox'[i] \subseteq inbox[i],
         \A k \in Index : k # i => inbox'[k] = inbox[k]
  PROVE  Inv'
<1>1. TypeOK /\ HostInv /\ PluginInv(i)
  BY DEF Inv
<1>2. \A k \in Index : Active(k)' = Active(k)
  BY DEF Active, Wanted
<1>3. o \in Outcome
  BY PossibleTypes DEF Told
<1>4. ASSUME NEW k \in Index, NEW u, Told(k, u) PROVE Told(k, u)'
  BY <1>4, ToldKept
<1>5. ASSUME NEW k \in 1 .. Len(outcomes) PROVE Told(k, outcomes[k])'
  BY <1>1, <1>4 DEF HostInv, TypeOK, Index
<1>6. \A e \in inbox'[i] : e.type = "message" => Told(i, e.body)'
  BY <1>1, <1>4 DEF PluginInv
<1>7. CASE /\ ~settled[i] /\ answer' = o
           /\ settled' = [settled EXCEPT ![i] = TRUE] /\ timer' = [timer EXCEPT ![i] = FALSE]
  <2>1. Current(i)
    BY <1>1, <1>7 DEF PluginInv, Pending
  <2>2. /\ settled' \in [Index -> BOOLEAN] /\ timer' \in [Index -> BOOLEAN]
        /\ settled'[i] /\ ~timer'[i]
        /\ \A k \in Index : k # i => settled'[k] = settled[k] /\ timer'[k] = timer[k]
    BY <1>1, <1>7 DEF TypeOK
  <2>3. TypeOK'
    BY <1>1, <1>3, <1>7, <2>2 DEF TypeOK
  <2>4. HostInv'
    <3>1. i = Len(outcomes) + 1 /\ Len(outcomes) < Len(Plugins)
      BY <1>1, <2>1 DEF Current, TypeOK, Index
    <3>2. Told(i, o)'
      BY <1>4
    <3>3. Told(Len(outcomes) + 1, answer)'
      BY <1>7, <3>1, <3>2 DEF Told
    <3> QED
      BY <1>1, <1>5, <3>1, <3>3 DEF HostInv
  <2>5. ASSUME NEW j \in Index PROVE PluginInv(j)'
    <3>1. PluginInv(j)
      BY DEF Inv
    <3>2. CASE j = i
      <4>1. ~Pending(i)'
        BY <2>2 DEF Pending, Isolated
      <4> QED
        BY <1>1, <1>2, <1>6, <2>2, <3>2, <4>1 DEF PluginInv, Started, Isolated
    <3>3. CASE j # i
      <4>1. ~Pending(j) /\ (Pending(j)' => Pending(j))
        BY <2>1, <2>2, <3>1, <3>3 DEF PluginInv, Current, Pending, Started, Isolated
      <4> QED
        BY <2>2, <3>1, <3>3, <4>1, PluginKept DEF PluginInv
    <3> QED
      BY <3>2, <3>3
  <2> QED
    BY <2>3, <2>4, <2>5 DEF Inv, Index
<1>8. CASE settled[i] /\ UNCHANGED <<settled, timer, answer>>
  <2>1. TypeOK'
    BY <1>1, <1>8 DEF TypeOK
  <2> QED
    BY <1>1, <1>8, <2>1, QuietInv DEF PluginInv, Started
<1> QED
  BY <1>7, <1>8 DEF Settle

\* The host takes an event from the worker's port.
LEMMA TakeTypes ==
  ASSUME Inv, NEW i \in Index, NEW e, Take(i, e)
  PROVE  /\ phase = "load" /\ e \in inbox[i] /\ e \in Event
         /\ Isolated(i) /\ Started(i) /\ Plugins[i].inside
         /\ inbox' \in [Index -> SUBSET Event] /\ inbox'[i] \subseteq inbox[i]
         /\ \A k \in Index : k # i => inbox'[k] = inbox[k]
<1>1. TypeOK /\ PluginInv(i)
  BY DEF Inv
<1> QED
  BY <1>1 DEF Take, TypeOK, PluginInv

LEMMA MessageInv == \A i \in Index : Inv /\ Message(i) => Inv'
<1> SUFFICES ASSUME NEW i \in Index, Inv, Message(i) PROVE Inv'
  OBVIOUS
<1>1. PICK e \in inbox[i] : e.type = "message" /\ Take(i, e) /\ Settle(i, e.body)
  BY DEF Message
<1>2. UNCHANGED <<phase, level, outcomes, report, thread, ran, diags>>
  BY DEF Message
<1>3. Told(i, e.body)
  BY <1>1 DEF Inv, PluginInv
<1> QED
  BY <1>1, <1>2, <1>3, TakeTypes, SettleInv

LEMMA ErrorEventInv == \A i \in Index : Inv /\ ErrorEvent(i) => Inv'
<1> SUFFICES ASSUME NEW i \in Index, Inv, ErrorEvent(i) PROVE Inv'
  OBVIOUS
<1>1. /\ Take(i, Signal("error")) /\ Settle(i, Failure("load-error"))
      /\ UNCHANGED <<phase, level, outcomes, report, thread, ran, diags>>
  BY DEF ErrorEvent
<1>2. Told(i, Failure("load-error"))
  BY <1>1, TakeTypes, FailureTold
<1> QED
  BY <1>1, <1>2, TakeTypes, SettleInv

LEMMA StrayMessageInv == \A i \in Index : Inv /\ StrayMessage(i) => Inv'
<1> SUFFICES ASSUME NEW i \in Index, Inv, StrayMessage(i) PROVE Inv'
  OBVIOUS
<1>1. /\ TypeOK /\ PluginInv(i) /\ Take(i, Signal("stray")) /\ phase' \in {phase, "down"}
      /\ UNCHANGED <<level, outcomes, answer, report, thread, ran, diags>>
      /\ \/ UNCHANGED <<settled, timer>>
         \/ /\ settled' = [settled EXCEPT ![i] = TRUE] /\ timer' = [timer EXCEPT ![i] = FALSE]
            /\ phase' = "down"
  BY DEF Inv, StrayMessage
<1>2. TypeOK'
  BY <1>1, TakeTypes DEF TypeOK, Phases
<1>3. Isolated(i)
  BY <1>1, TakeTypes
<1>4. \/ UNCHANGED <<settled, timer>>
      \/ /\ phase' = "down"
         /\ \A k \in Index : k # i => settled'[k] = settled[k] /\ timer'[k] = timer[k]
  BY <1>1 DEF TypeOK
<1> QED
  BY <1>1, <1>2, <1>3, <1>4, TakeTypes, QuietInv DEF PluginInv, Started

LEMMA ExitEventInv == \A i \in Index : Inv /\ ExitEvent(i) => Inv'
<1> SUFFICES ASSUME NEW i \in Index, Inv, ExitEvent(i) PROVE Inv'
  OBVIOUS
<1>1. PICK e \in inbox[i] : /\ Take(i, e)
        /\ \/ Settle(i, Failure("load-error"))
           \/ settled' = settled /\ timer' = timer /\ answer' = answer
  BY DEF ExitEvent
<1>2. TypeOK /\ PluginInv(i) /\ UNCHANGED <<phase, level, outcomes, report, thread, ran, diags>>
  BY DEF Inv, ExitEvent
<1>3. Take(i, e)
  BY <1>1
<1>4. /\ phase = "load" /\ Isolated(i) /\ Started(i) /\ Plugins[i].inside
      /\ inbox' \in [Index -> SUBSET Event] /\ inbox'[i] \subseteq inbox[i]
      /\ \A k \in Index : k # i => inbox'[k] = inbox[k]
  BY <1>3, TakeTypes
<1>5. CASE Settle(i, Failure("load-error"))
  <2>1. Told(i, Failure("load-error"))
    BY <1>4, FailureTold
  <2> QED
    BY <1>2, <1>4, <1>5, <2>1, SettleInv
<1>6. CASE settled' = settled /\ timer' = timer /\ answer' = answer
  <2>1. TypeOK'
    BY <1>2, <1>4, <1>6 DEF TypeOK
  <2> QED
    BY <1>2, <1>4, <1>6, <2>1, QuietInv DEF PluginInv, Started
<1> QED
  BY <1>1, <1>5, <1>6

LEMMA TimeoutInv == \A i \in Index : Inv /\ Timeout(i) => Inv'
<1> SUFFICES ASSUME NEW i \in Index, Inv, Timeout(i) PROVE Inv'
  OBVIOUS
<1>1. /\ TypeOK /\ PluginInv(i) /\ phase = "load" /\ Isolated(i) /\ Started(i) /\ Plugins[i].inside
      /\ Settle(i, Failure("timeout"))
      /\ UNCHANGED <<phase, level, outcomes, report, thread, ran, diags, inbox>>
  BY DEF Inv, Timeout, PluginInv, code
<1>2. Told(i, Failure("timeout"))
  BY <1>1, FailureTold
<1>3. inbox' \in [Index -> SUBSET Event]
  BY <1>1 DEF TypeOK
<1> QED
  BY <1>1, <1>2, <1>3, SettleInv

-----------------------------------------------------------------------------
(* The invariant *)

LEMMA NextInv == Inv /\ [Next]_vars => Inv'
<1> SUFFICES ASSUME Inv, [Next]_vars PROVE Inv'
  OBVIOUS
<1>1. CASE Start \/ Parse \/ Record \/ Finish
  BY <1>1, StartInv, ParseInv, RecordInv, FinishInv
<1>2. ASSUME NEW i \in Index, HostStep(i) PROVE Inv'
  BY <1>2, EscapeInv, LaunchInv, MessageInv, StrayMessageInv, ErrorEventInv, ExitEventInv,
     TimeoutInv DEF HostStep
<1>3. ASSUME NEW i \in Index, CodeStep(i) PROVE Inv'
  BY <1>3, LoadInv, CheckInv, ThrowInv, ReturnInv, EndsInv, StrayInv, TerminatedInv DEF CodeStep
<1>4. CASE UNCHANGED vars
  <2>1. TypeOK'
    BY <1>4 DEF Inv, TypeOK, vars, host, code
  <2>2. HostInv'
    BY <1>4 DEF Inv, HostInv, Told, Active, Wanted, vars, host, code
  <2>3. ASSUME NEW j \in Index PROVE PluginInv(j)'
    <3>1. PluginInv(j) /\ (Pending(j)' <=> Pending(j)) /\ (Current(j)' <=> Current(j))
      BY <1>4 DEF Inv, Pending, Started, Current, vars, host, code
    <3> QED
      BY <1>4, <3>1, PluginKept DEF PluginInv, vars, host, code
  <2> QED
    BY <2>1, <2>2, <2>3 DEF Inv, Index
<1> QED
  BY <1>1, <1>2, <1>3, <1>4 DEF Next

LEMMA Invariance == Spec => []Inv
<1>1. Init => Inv
  BY InitInv
<1>2. Inv /\ [Next]_vars => Inv'
  BY NextInv
<1> QED
  BY <1>1, <1>2, PTL DEF Spec

\* Every variable of the plugin phase keeps its shape, for any plugins.
THEOREM TypeCorrect == Spec => []TypeOK
<1>1. Inv => TypeOK
  BY DEF Inv
<1> QED
  BY <1>1, Invariance, PTL

\* For any plugins, an outcome tells what its own plugin did, however late the
\* events of the others come (loadPlugins, runPluginInWorker).
THEOREM OutcomesHonest == Spec => []Honest
<1>1. Inv => Honest
  BY DEF Inv, HostInv, Told, Honest
<1> QED
  BY <1>1, Invariance, PTL

\* For any plugins, a phase that ends without a diagnostic of a plugin has run every
\* one of its validators that the level asks for (DefaultPluginEngine.run, pluginOutcomeErrors).
THEOREM CleanChecked == Spec => []CleanMeansChecked
<1>1. Inv => CleanMeansChecked
  <2> SUFFICES ASSUME Inv, phase = "done", NEW i \in Index, \A f \in report : f.plugin # i
               PROVE  ran[i] = Active(i) /\ diags[i] = {}
    BY DEF CleanMeansChecked
  <2>1. i \in 1 .. Len(outcomes) /\ \A f \in Errors(i, outcomes[i]) : f.plugin # i
    BY DEF Inv, HostInv, Index
  <2>2. \A type, v : Finding(type, i, v).plugin = i
    BY DEF Finding
  <2>3. \A type, v : Finding(type, i, v) \notin Errors(i, outcomes[i])
    BY <2>1, <2>2
  <2>4. outcomes[i].kind = "ok"
    BY <2>3 DEF Errors
  <2>5. outcomes[i].diags = {} /\ ~outcomes[i].crash
    BY <2>3, <2>4 DEF Errors
  <2> QED
    BY <2>1, <2>4, <2>5 DEF Inv, HostInv, Told
<1> QED
  BY <1>1, Invariance, PTL

-----------------------------------------------------------------------------
(* The refinement *)

LEMMA InitRefines == Init => Promise!Init
  BY DEF Init, Promise!Init, Standing

\* Each step of the phase is a step of the promise or none.
LEMMA StepRefines == Inv /\ [Next]_vars => [Promise!Next]_(Promise!vars)
<1> SUFFICES ASSUME Inv, [Next]_vars PROVE [Promise!Next]_(Promise!vars)
  OBVIOUS
<1> USE DEF Promise!vars
<1>1. TypeOK /\ HostInv
  BY DEF Inv
<1>2. CASE Start \/ Parse
  <2>1. phase \in {"start", "parse"} /\ outcomes' = outcomes
        /\ phase' \in {"skipped", "parse", "load"}
    BY <1>2 DEF Start, Parse
  <2> QED
    BY <1>1, <2>1 DEF HostInv, Standing, Promise!Next, Promise!Skip
<1>3. CASE Record
  <2>1. phase = "load" /\ phase' = phase /\ answer # None /\ outcomes' = Append(outcomes, answer)
    BY <1>3 DEF Record
  <2>2. Len(outcomes) < Len(Plugins) /\ answer \in Possible(Plugins[Len(outcomes) + 1])
    BY <1>1, <2>1 DEF HostInv, Told
  <2> QED
    BY <2>1, <2>2 DEF Standing, Promise!Next, Promise!Report
<1>4. CASE Finish
  <2>1. phase = "load" /\ phase' = "done" /\ outcomes' = outcomes
    BY <1>4 DEF Finish
  <2> QED
    BY <2>1 DEF Standing
<1>5. ASSUME NEW i \in Index, Escape(i) PROVE Promise!Next
  <2>1. /\ phase = "load" /\ phase' = phase /\ i = Len(outcomes) + 1 /\ ~Plugins[i].inside
        /\ outcomes' = Append(outcomes, Failure("path-escape"))
    BY <1>5 DEF Escape, Current
  <2>2. Len(outcomes) < Len(Plugins)
    BY <1>1, <2>1 DEF TypeOK, Index
  <2>3. Failure("path-escape") \in Possible(Plugins[i])
    BY <2>1, PluginTypes DEF Failure, Possible
  <2> QED
    BY <2>1, <2>2, <2>3 DEF Standing, Promise!Next, Promise!Report
<1>6. ASSUME NEW i \in Index, StrayMessage(i) \/ Exit(i) \/ Break(i)
      PROVE  [Promise!Next]_(Promise!vars)
  <2>1. phase = "load" /\ phase' \in {"load", "down"} /\ outcomes' = outcomes
    BY <1>6 DEF StrayMessage, Take, Exit, Break, Alive
  <2> QED
    BY <2>1 DEF Standing, Promise!Next, Promise!Lose
<1>7. ASSUME NEW i \in Index, \/ Launch(i) \/ Message(i) \/ ErrorEvent(i) \/ ExitEvent(i)
             \/ Timeout(i) \/ Load(i) \/ Check(i) \/ Throw(i) \/ Return(i) \/ Stray(i)
             \/ Terminated(i)
      PROVE  UNCHANGED Promise!vars
  <2>1. phase' = phase /\ outcomes' = outcomes
    BY <1>7 DEF Launch, Message, ErrorEvent, ExitEvent, Timeout, Load, Check, Throw, Return,
       Stray, Terminated, host
  <2> QED
    BY <2>1 DEF Standing
<1>8. CASE UNCHANGED vars
  BY <1>8 DEF vars, host, Standing
<1> QED
  BY <1>2, <1>3, <1>4, <1>5, <1>6, <1>7, <1>8 DEF Next, HostStep, CodeStep

\* For any plugins, the phase gives each of them exactly one outcome, in order and
\* of a kind that its configuration allows, whatever the others do (the promise
\* of loadPlugins, plugins/loader.ts:60).
THEOREM OneOutcomeForEach == Spec => OneOutcomeEach
<1>1. Init => Promise!Init
  BY InitRefines
<1>2. Inv /\ [Next]_vars => [Promise!Next]_(Promise!vars)
  BY StepRefines
<1> QED
  BY <1>1, <1>2, Invariance, PTL DEF Spec, OneOutcomeEach, Promise!Spec

\* For any plugins: an outcome says what its own plugin did, and a plugin that the
\* report does not mention was checked entirely and had nothing to say.
THEOREM VerdictsHonest == Spec => []VerdictHonest
BY OutcomesHonest, CleanChecked, PTL DEF VerdictHonest
=============================================================================
