------------------------ MODULE ArtifactInstallProofs ------------------------
(***************************************************************************)
(* What ArtifactInstall keeps for any publishers, keys, artifacts, files    *)
(* and processes, under every interleaving, kill and file error.            *)
(***************************************************************************)
EXTENDS ArtifactInstall, TLAPS

\* The blank values have the types of the variables that they fill.
LEMMA Blanks ==
    /\ BlankJob \in Job /\ BlankArtifact \in Artifact
    /\ NoIndex \in Index /\ Absent \in Directory /\ NoLock \in Lock
    /\ EmptyStore \in TrustStore
<1>1. BlankJob \in Job
  BY ConstantsAssumption DEF BlankJob
<1>2. BlankArtifact \in Artifact
  BY ConstantsAssumption DEF BlankArtifact
<1>3. /\ NoIndex \in Index /\ Absent \in Directory /\ NoLock \in Lock
      /\ EmptyStore \in TrustStore
  BY DEF NoIndex, Index, Absent, Directory, NoLock, Lock, EmptyStore, TrustStore
<1> QED
  BY <1>1, <1>2, <1>3

\* A command that ends leaves its memory well formed.
LEMMA EndTypes ==
    ASSUME TypeOK, NEW p \in Proc, End(p)
    PROVE  /\ pc' \in [Proc -> Steps]
           /\ job' \in [Proc -> Job] /\ ring' \in [Proc -> TrustStore]
           /\ doc' \in [Proc -> Index \union {None}]
           /\ seal' \in [Proc -> Signature \union {None}]
           /\ pin' \in [Proc -> Artifact \union {None}] /\ got' \in [Proc -> Artifact]
           /\ by' \in [Proc -> Key \union {None}] /\ snap' \in [Proc -> Lock]
  BY Blanks DEF TypeOK, End, Steps

LEMMA HostTypes ==
    ASSUME TypeOK,
           \/ \E a \in Artifact : Publish(a) \/ Upload(a)
           \/ WriteIndex \/ SignIndex
    PROVE  TypeOK'
<1>1. ASSUME NEW a \in Artifact, Publish(a) \/ Upload(a) PROVE TypeOK'
  <2>1. hosted' \in Index /\ entries' \in Index
    BY <1>1 DEF TypeOK, Publish, Upload, Index
  <2>2. published' \in 0 .. MaxPublish
    BY <1>1, ConstantsAssumption DEF TypeOK, Publish, Upload
  <2> QED
    BY <1>1, <2>1, <2>2
       DEF TypeOK, Publish, Upload, project, local, count
<1>2. CASE WriteIndex
  BY <1>2 DEF TypeOK, WriteIndex, project, local, count
<1>3. CASE SignIndex
  <2>1. index \in Index
    BY <1>3 DEF TypeOK, SignIndex
  <2>2. sig' \in Signature
    BY <1>3, <2>1, ConstantsAssumption DEF SignIndex, Signature
  <2>3. listed' \subseteq Artifact
    BY <1>3, <2>1 DEF TypeOK, SignIndex, Index
  <2> QED
    BY <1>3, <2>2, <2>3 DEF TypeOK, SignIndex, project, local, count
<1> QED
  BY <1>1, <1>2, <1>3

\* Moving on to another step.
LEMMA GotoTypes ==
    ASSUME TypeOK, NEW p \in Proc, NEW step \in Steps, Goto(p, step)
    PROVE  pc' \in [Proc -> Steps]
  BY DEF TypeOK, Goto

LEMMA MaterializeTypes ==
    ASSUME TypeOK, NEW p \in Proc, Materialize(p)
    PROVE  /\ pc' \in [Proc -> Steps]
           /\ UNCHANGED <<job, ring, doc, seal, pin, got, snap>>
  BY GotoTypes DEF Materialize, Steps

\* What a fetch, a decision or a look at the host changes.
LEMMA FetchTypes ==
    ASSUME TypeOK, NEW p \in Proc,
           \/ ReadKeys(p) \/ FetchIndex(p) \/ FetchSignature(p) \/ ResolveIndex(p)
           \/ FetchFails(p) \/ FetchArtifact(p) \/ Decide(p) \/ Policy(p)
    PROVE  TypeOK'
<1>1. CASE ReadKeys(p)
  <2>1. ASSUME End(p) PROVE TypeOK'
    BY <1>1, <2>1, EndTypes DEF ReadKeys, TypeOK, host, project, count
  <2>2. ASSUME ~End(p) PROVE TypeOK'
    <3>1. pc' \in [Proc -> Steps]
      BY <1>1, <2>2, GotoTypes DEF ReadKeys, Steps
    <3>2. ring' \in [Proc -> TrustStore]
      BY <1>1, <2>2 DEF ReadKeys, TypeOK
    <3> QED
      BY <1>1, <2>2, <3>1, <3>2 DEF ReadKeys, TypeOK, host, project, count
  <2> QED
    BY <2>1, <2>2
<1>2. CASE FetchIndex(p)
  BY <1>2 DEF FetchIndex, TypeOK, host, project, count
<1>3. CASE FetchSignature(p)
  BY <1>3 DEF FetchSignature, TypeOK, host, project, count
<1>4. CASE ResolveIndex(p)
  <2>1. ASSUME End(p) PROVE TypeOK'
    BY <1>4, <2>1, EndTypes DEF ResolveIndex, TypeOK, host, project, count
  <2>2. ASSUME ~End(p) PROVE TypeOK'
    <3>1. pc' \in [Proc -> Steps]
      BY <1>4, <2>2, GotoTypes DEF ResolveIndex, Steps
    <3>2. PICK r \in Release : /\ job' = [job EXCEPT ![p].release = r]
                               /\ pin' = [pin EXCEPT ![p] = doc[p][r]]
      BY <1>4, <2>2 DEF ResolveIndex, Newest, Listed
    <3>3. job' \in [Proc -> Job]
      <4>1. job \in [Proc -> Job]
        BY DEF TypeOK
      <4>2. [job[p] EXCEPT !.release = r] \in Job
        BY <4>1 DEF Job
      <4>3. job' = [job EXCEPT ![p] = [job[p] EXCEPT !.release = r]]
        BY <3>2
      <4> QED
        BY <4>1, <4>2, <4>3
    <3>4. pin' \in [Proc -> Artifact \union {None}]
      <4>1. doc[p] \in Index
        BY <1>4 DEF ResolveIndex, TypeOK
      <4>2. doc[p][r] \in Artifact \union {None}
        BY <4>1 DEF Index
      <4> QED
        BY <3>2, <4>2 DEF TypeOK
    <3> QED
      BY <1>4, <2>2, <3>1, <3>3, <3>4 DEF ResolveIndex, TypeOK, host, project, count
  <2> QED
    BY <2>1, <2>2
<1>5. CASE FetchFails(p)
  BY <1>5, EndTypes DEF FetchFails, TypeOK, host, project, count
<1>6. CASE FetchArtifact(p)
  <2>1. ASSUME End(p) PROVE TypeOK'
    BY <1>6, <2>1, EndTypes DEF FetchArtifact, TypeOK, host, project, count
  <2>2. ASSUME ~End(p) PROVE TypeOK'
    <3>1. pc' \in [Proc -> Steps]
      BY <1>6, <2>2, GotoTypes DEF FetchArtifact, Steps
    <3>2. hosted[job[p].release] \in Artifact
      BY <1>6 DEF FetchArtifact, TypeOK, Index, Job
    <3>3. got' \in [Proc -> Artifact]
      BY <1>6, <2>2, <3>2 DEF FetchArtifact, TypeOK
    <3> QED
      BY <1>6, <2>2, <3>1, <3>3 DEF FetchArtifact, TypeOK, host, project, count
  <2> QED
    BY <2>1, <2>2
<1>7. CASE Decide(p)
  <2>1. ASSUME End(p) PROVE TypeOK'
    BY <1>7, <2>1, EndTypes DEF Decide, TypeOK, host, project, count
  <2>2. CASE Goto(p, "policy") /\ UNCHANGED <<job, ring, doc, seal, pin, got, by, snap>>
    <3>1. pc' \in [Proc -> Steps]
      BY <2>2, GotoTypes DEF Steps
    <3> QED
      BY <1>7, <2>2, <3>1 DEF Decide, TypeOK, host, project, count
  <2>3. ASSUME Materialize(p), trust # Corrupt, About[got[p]].signer \in trust.keys,
               by' = [by EXCEPT ![p] = About[got[p]].signer]
        PROVE  TypeOK'
    <3>1. About[got[p]].signer \in Key
      BY <2>3 DEF TypeOK, TrustStore
    <3>2. by' \in [Proc -> Key \union {None}]
      BY <2>3, <3>1 DEF TypeOK
    <3> QED
      BY <1>7, <2>3, <3>2, MaterializeTypes DEF Decide, TypeOK, host, project, count
  <2> QED
    BY <1>7, <2>1, <2>2, <2>3 DEF Decide
<1>8. CASE Policy(p)
  <2>1. waived' \subseteq Artifact
    BY <1>8 DEF Policy, TypeOK
  <2>2. CASE End(p)
    BY <1>8, <2>1, <2>2, EndTypes DEF Policy, TypeOK, host, project, count
  <2>3. CASE Materialize(p) /\ UNCHANGED by
    BY <1>8, <2>1, <2>3, MaterializeTypes DEF Policy, TypeOK, host, project, count
  <2> QED
    BY <1>8, <2>2, <2>3 DEF Policy
<1> QED
  BY <1>1, <1>2, <1>3, <1>4, <1>5, <1>6, <1>7, <1>8

\* What staging, swapping and recording change.
LEMMA SwapTypes ==
    ASSUME TypeOK, NEW p \in Proc,
           \/ Clear(p) \/ Stage(p) \/ RemoveTarget(p) \/ Rename(p) \/ FileError(p)
           \/ LoadLock(p) \/ SaveLock(p)
    PROVE  TypeOK'
<1>0. /\ got[p] \in Artifact /\ Target(p) \in Id
      /\ stage \in [Proc -> Directory] /\ dir \in [Id -> Directory]
      /\ Absent \in Directory
  BY Blanks, ConstantsAssumption DEF TypeOK, Target, Description
<1>1. CASE Clear(p)
  <2>1. stage' \in [Proc -> Directory] /\ pc' \in [Proc -> Steps]
    BY <1>0, <1>1, GotoTypes DEF Clear, Steps
  <2> QED
    BY <1>1, <2>1 DEF Clear, TypeOK, host, local, count
<1>2. CASE Stage(p)
  <2>1. pc' \in [Proc -> Steps]
    BY <1>2, GotoTypes DEF Stage, Steps, TypeOK
  <2>2. stage' \in [Proc -> Directory]
    <3>1. CASE UNCHANGED stage
      BY <1>0, <3>1
    <3>2. ASSUME NEW f \in About[got[p]].files, stage' = [stage EXCEPT ![p][f] = got[p]]
          PROVE  stage' \in [Proc -> Directory]
      BY <1>0, <3>2 DEF Directory
    <3> QED
      BY <1>2, <3>1, <3>2 DEF Stage
  <2> QED
    BY <1>2, <2>1, <2>2 DEF Stage, TypeOK, host, local, count
<1>3. CASE RemoveTarget(p)
  <2>1. pc' \in [Proc -> Steps]
    BY <1>3, GotoTypes DEF RemoveTarget, Steps, TypeOK
  <2>2. dir' \in [Id -> Directory]
    <3>1. CASE UNCHANGED dir
      BY <1>0, <3>1
    <3>2. ASSUME NEW f \in File, dir' = [dir EXCEPT ![Target(p)][f] = None]
          PROVE  dir' \in [Id -> Directory]
      BY <1>0, <3>2 DEF Directory
    <3> QED
      BY <1>3, <3>1, <3>2 DEF RemoveTarget
  <2> QED
    BY <1>3, <2>1, <2>2 DEF RemoveTarget, TypeOK, host, local, count
<1>4. CASE Rename(p)
  <2>1. stage' \in [Proc -> Directory]
    BY <1>0, <1>4 DEF Rename
  <2>2. CASE End(p) /\ UNCHANGED dir
    BY <1>4, <2>1, <2>2, EndTypes DEF Rename, TypeOK, host, count
  <2>3. CASE Goto(p, "load") /\ dir' = [dir EXCEPT ![Target(p)] = stage[p]] /\ UNCHANGED local
    <3>1. pc' \in [Proc -> Steps]
      BY <2>3, GotoTypes DEF Steps
    <3>2. dir' \in [Id -> Directory]
      BY <1>0, <2>3
    <3> QED
      BY <1>4, <2>1, <2>3, <3>1, <3>2 DEF Rename, TypeOK, host, local, count
  <2> QED
    BY <1>4, <2>2, <2>3 DEF Rename
<1>5. CASE FileError(p)
  <2>1. stage' \in [Proc -> Directory]
    BY <1>0, <1>5 DEF FileError
  <2>2. faults' \in 0 .. MaxFaults
    BY <1>5, ConstantsAssumption DEF FileError, TypeOK
  <2> QED
    BY <1>5, <2>1, <2>2, EndTypes DEF FileError, TypeOK, host
<1>6. CASE LoadLock(p)
  <2>1. CASE End(p)
    BY <1>6, <2>1, EndTypes DEF LoadLock, TypeOK, host, project, count
  <2>2. CASE /\ lock # Corrupt /\ snap' = [snap EXCEPT ![p] = lock] /\ Goto(p, "save")
             /\ UNCHANGED <<job, ring, doc, seal, pin, got, by>>
    <3>1. pc' \in [Proc -> Steps]
      BY <2>2, GotoTypes DEF Steps
    <3>2. snap' \in [Proc -> Lock]
      BY <2>2 DEF TypeOK
    <3> QED
      BY <1>6, <2>2, <3>1, <3>2 DEF LoadLock, TypeOK, host, project, count
  <2> QED
    BY <1>6, <2>1, <2>2 DEF LoadLock
<1>7. CASE SaveLock(p)
  <2>1. [art |-> got[p], trust |-> by[p]] \in Entry
    BY <1>0 DEF Entry, TypeOK
  <2>2. snap[p] \in Lock
    BY DEF TypeOK
  <2>3. lock' \in Lock
    BY <1>0, <1>7, <2>1, <2>2 DEF SaveLock, Lock
  <2> QED
    BY <1>7, <2>3, EndTypes DEF SaveLock, TypeOK, host, count
<1> QED
  BY <1>1, <1>2, <1>3, <1>4, <1>5, <1>6, <1>7

\* What the beginning and the death of a command and the keyring change.
LEMMA CommandTypes ==
    ASSUME TypeOK, NEW p \in Proc,
           \/ SaveTrust(p) \/ Kill(p)
           \/ \E j \in Jobs : Begin(p, j)
           \/ \E ks \in SUBSET Key : LoadTrust(p, ks)
    PROVE  TypeOK'
<1>1. CASE SaveTrust(p)
  <2>1. trust' \in TrustStore /\ trusted' \subseteq Key
    BY <1>1 DEF SaveTrust, TypeOK, TrustStore
  <2> QED
    BY <1>1, <2>1, EndTypes DEF SaveTrust, TypeOK, host, project, count
<1>2. CASE Kill(p)
  <2>1. faults' \in 0 .. MaxFaults /\ kills' \in BOOLEAN
    BY <1>2, ConstantsAssumption DEF Kill, TypeOK
  <2>2. lock' \in Lock \union {Corrupt} /\ trust' \in TrustStore \union {Corrupt}
    BY <1>2 DEF Kill, TypeOK
  <2> QED
    BY <1>2, <2>1, <2>2, EndTypes DEF Kill, TypeOK, host
<1>3. ASSUME NEW j \in Jobs, Begin(p, j) PROVE TypeOK'
  <2>1. starts' \in 0 .. MaxStarts /\ overlap' \in BOOLEAN
    BY <1>3, ConstantsAssumption DEF Begin, Start, TypeOK
  <2>2. pc' \in [Proc -> Steps]
    BY <1>3, GotoTypes DEF Begin, Steps
  <2>3. job' \in [Proc -> Job]
    BY <1>3, ConstantsAssumption DEF Begin, TypeOK
  <2> QED
    BY <1>3, <2>1, <2>2, <2>3 DEF Begin, TypeOK, host, project
<1>4. ASSUME NEW ks \in SUBSET Key, LoadTrust(p, ks) PROVE TypeOK'
  <2>1. starts' \in 0 .. MaxStarts /\ overlap' \in BOOLEAN
    BY <1>4, ConstantsAssumption DEF LoadTrust, Start, TypeOK
  <2>2. pc' \in [Proc -> Steps]
    BY <1>4, GotoTypes DEF LoadTrust, Steps
  <2>3. ring' \in [Proc -> TrustStore]
    <3>1. [trust EXCEPT !.keys = ks] \in TrustStore
      BY <1>4 DEF LoadTrust, TypeOK, TrustStore
    <3> QED
      BY <1>4, <3>1 DEF LoadTrust, TypeOK
  <2> QED
    BY <1>4, <2>1, <2>2, <2>3 DEF LoadTrust, TypeOK, host, project
<1> QED
  BY <1>1, <1>2, <1>3, <1>4

LEMMA StutterTypes == ASSUME TypeOK, UNCHANGED vars PROVE TypeOK'
  BY DEF TypeOK, vars, host, project, local, count

\* The variables keep their shape for any registry, project and interleaving.
THEOREM TypeCorrect == Spec => []TypeOK
<1>1. Init => TypeOK
  <2> SUFFICES ASSUME Init PROVE TypeOK
    OBVIOUS
  <2>1. /\ published \in 0 .. MaxPublish /\ starts \in 0 .. MaxStarts
        /\ faults \in 0 .. MaxFaults
    BY ConstantsAssumption DEF Init
  <2>2. trusted \subseteq Key
    BY DEF Init, TrustStore
  <2> QED
    BY <2>1, <2>2, Blanks DEF Init, TypeOK, Steps
<1>2. TypeOK /\ [Next]_vars => TypeOK'
  BY HostTypes, FetchTypes, SwapTypes, CommandTypes, StutterTypes DEF Next, Install
<1> QED
  BY <1>1, <1>2, PTL DEF Spec

-----------------------------------------------------------------------------
(***************************************************************************)
(* The inductive invariant behind the safety properties: what a process     *)
(* knows of the artifact that it holds, and what is true of the files.      *)
(***************************************************************************)

\* The trust decision about got[p] has been made.
Holding(p) == pc[p] \in {"clear", "stage", "remove", "rename", "load", "save"}

\* A lock entry for id i is right about its artifact.
Sound(i, e) ==
    /\ Verified(e.art) /\ About[e.art].id = i
    /\ e.trust = About[e.art].signer

\* A signature over an index has made its artifacts listed.
Covered(s) == \A r \in Release : s.over[r] \in listed \union {None}

DecisionOK(p) ==
    /\ Holding(p) => Verified(got[p]) /\ by[p] = About[got[p]].signer
    /\ ~Holding(p) => by[p] = None
    /\ pc[p] = "policy" => About[got[p]].intact /\ About[got[p]].signer = None

OriginOK(p) ==
    /\ seal[p] # None => Covered(seal[p])
    /\ pc[p] = "fetch" /\ job[p].from = "registry" => pin[p] \in listed
    /\ pc[p] \in {"decide", "policy"} \/ Holding(p) =>
           (job[p].from = "registry" => got[p] \in listed)

StageOK(p) ==
    /\ \A f \in File : stage[p][f] # None => Verified(stage[p][f])
    /\ pc[p] \in {"stage", "remove", "rename"} =>
           \A f \in File : stage[p][f] \in {None, got[p]}
    /\ ~kills /\ stage[p] # Absent => pc[p] \in {"stage", "remove", "rename"}

SnapOK(p) == \A i \in Id : snap[p][i] # None => Sound(i, snap[p][i])

FilesOK ==
    /\ trust # Corrupt => trust.keys \subseteq trusted
    /\ sig # None => Covered(sig)
    /\ \A i \in Id, f \in File : dir[i][f] # None => Verified(dir[i][f])
    /\ lock # Corrupt => \A i \in Id : lock[i] # None => Sound(i, lock[i])
    /\ NeverMixed

ProcOK(p) == DecisionOK(p) /\ OriginOK(p) /\ StageOK(p) /\ SnapOK(p)

Safe == FilesOK /\ \A p \in Proc : ProcOK(p)

LEMMA InitSafe == Init => Safe
<1> SUFFICES ASSUME Init PROVE Safe
  OBVIOUS
<1>1. FilesOK
  BY DEF Init, FilesOK, NeverMixed, Absent, NoLock
<1>2. ASSUME NEW p \in Proc PROVE ProcOK(p)
  BY DEF Init, ProcOK, DecisionOK, OriginOK, StageOK, SnapOK, Holding, Absent, NoLock
<1> QED
  BY <1>1, <1>2 DEF Safe

\* The step of any process.
Act(p) ==
    \/ Install(p) \/ SaveTrust(p) \/ Kill(p)
    \/ \E j \in Jobs : Begin(p, j)
    \/ \E ks \in SUBSET Key : LoadTrust(p, ks)

\* What a process does leaves the memory and the staging directory of the
\* others alone, and the histories only grow.
LEMMA OthersKept ==
    ASSUME TypeOK, NEW p \in Proc, Act(p), NEW q \in Proc, q # p
    PROVE  /\ pc'[q] = pc[q] /\ job'[q] = job[q] /\ seal'[q] = seal[q]
           /\ pin'[q] = pin[q] /\ got'[q] = got[q] /\ by'[q] = by[q]
           /\ snap'[q] = snap[q] /\ stage'[q] = stage[q]
<1>1. CASE \/ ReadKeys(p) \/ FetchIndex(p) \/ FetchSignature(p) \/ ResolveIndex(p)
           \/ FetchFails(p) \/ FetchArtifact(p)
  BY <1>1 DEF TypeOK, ReadKeys, FetchIndex, FetchSignature, ResolveIndex, FetchFails,
              FetchArtifact, End, Goto, project
<1>2. CASE Decide(p) \/ Policy(p)
  BY <1>2 DEF TypeOK, Decide, Policy, Materialize, End, Goto, project
<1>3. CASE \/ Clear(p) \/ Stage(p) \/ RemoveTarget(p) \/ Rename(p) \/ FileError(p)
           \/ LoadLock(p) \/ SaveLock(p)
  BY <1>3 DEF TypeOK, Clear, Stage, RemoveTarget, Rename, FileError, LoadLock, SaveLock,
              End, Goto, project, local
<1>4. CASE SaveTrust(p) \/ Kill(p)
  BY <1>4 DEF TypeOK, SaveTrust, Kill, End, project
<1>5. CASE (\E j \in Jobs : Begin(p, j)) \/ (\E ks \in SUBSET Key : LoadTrust(p, ks))
  BY <1>5 DEF TypeOK, Begin, LoadTrust, Goto, project
<1> QED
  BY <1>1, <1>2, <1>3, <1>4, <1>5 DEF Act, Install

LEMMA Grows ==
    ASSUME TypeOK, Next
    PROVE  /\ trusted \subseteq trusted' /\ waived \subseteq waived'
           /\ listed \subseteq listed' /\ (kills => kills')
<1>1. ASSUME NEW a \in Artifact, Publish(a) \/ Upload(a) PROVE
           /\ trusted \subseteq trusted' /\ waived \subseteq waived'
           /\ listed \subseteq listed' /\ (kills => kills')
  BY <1>1 DEF Publish, Upload, count
<1>2. CASE WriteIndex \/ SignIndex
  BY <1>2 DEF WriteIndex, SignIndex, count
<1>3. ASSUME NEW p \in Proc, Act(p) PROVE
           /\ trusted \subseteq trusted' /\ waived \subseteq waived'
           /\ listed \subseteq listed' /\ (kills => kills')
  <2>1. CASE Install(p)
    BY <2>1 DEF Install, ReadKeys, FetchIndex, FetchSignature, ResolveIndex, FetchFails,
                FetchArtifact, Decide, Policy, Clear, Stage, RemoveTarget, Rename, FileError,
                LoadLock, SaveLock, host, count
  <2>2. CASE ~Install(p)
    BY <1>3, <2>2 DEF Act, SaveTrust, Kill, Begin, LoadTrust, host, count
  <2> QED
    BY <2>1, <2>2
<1> QED
  BY <1>1, <1>2, <1>3 DEF Next, Act

\* What was verified, recorded or listed stays so when the histories grow.
LEMMA Monotone ==
    ASSUME TypeOK, Next
    PROVE  /\ \A a \in Artifact : Verified(a) => Verified(a)'
           /\ \A i \in Id : \A e \in Entry : Sound(i, e) => Sound(i, e)'
           /\ \A s \in Signature : Covered(s) => Covered(s)'
<1>1. \A a \in Artifact : Verified(a) => Verified(a)'
  BY Grows DEF Verified
<1>2. \A i \in Id : \A e \in Entry : Sound(i, e) => Sound(i, e)'
  BY <1>1 DEF Sound, Entry
<1>3. \A s \in Signature : Covered(s) => Covered(s)'
  BY Grows DEF Covered
<1> QED
  BY <1>1, <1>2, <1>3

\* A process whose memory and staging directory stay the same stays right.
LEMMA ProcKept ==
    ASSUME TypeOK, Next, NEW q \in Proc, ProcOK(q),
           pc'[q] = pc[q], job'[q] = job[q], seal'[q] = seal[q],
           pin'[q] = pin[q], got'[q] = got[q], by'[q] = by[q],
           snap'[q] = snap[q], stage'[q] = stage[q]
    PROVE  ProcOK(q)'
<1>1. /\ got[q] \in Artifact /\ seal[q] \in Signature \union {None}
      /\ stage[q] \in Directory /\ snap[q] \in Lock
  BY DEF TypeOK
<1>2. DecisionOK(q)'
  BY <1>1, Monotone DEF ProcOK, DecisionOK, Holding
<1>3. OriginOK(q)'
  BY <1>1, Monotone, Grows DEF ProcOK, OriginOK, Holding
<1>4. StageOK(q)'
  BY <1>1, Monotone, Grows DEF ProcOK, StageOK, Directory
<1>5. SnapOK(q)'
  BY <1>1, Monotone DEF ProcOK, SnapOK, Lock
<1> QED
  BY <1>2, <1>3, <1>4, <1>5 DEF ProcOK

\* A step that leaves the files alone leaves them right.
LEMMA FilesKept ==
    ASSUME TypeOK, Next, FilesOK, UNCHANGED <<sig, trust, dir, lock>>
    PROVE  FilesOK'
<1>1. trust # Corrupt => trust.keys \subseteq trusted'
  BY Grows DEF FilesOK
<1>2. sig # None => Covered(sig)'
  BY Monotone DEF FilesOK, TypeOK, Covered
<1>3. \A i \in Id, f \in File : dir[i][f] # None => Verified(dir[i][f])'
  BY Monotone DEF FilesOK, TypeOK, Directory
<1>4. lock # Corrupt => \A i \in Id : lock[i] # None => Sound(i, lock[i])'
  BY Monotone DEF FilesOK, TypeOK, Lock
<1> QED
  BY <1>1, <1>2, <1>3, <1>4 DEF FilesOK, NeverMixed, Verified, Sound, Covered

\* The publisher's and the host's steps.
LEMMA HostSafe ==
    ASSUME TypeOK, Safe, Next,
           \/ \E a \in Artifact : Publish(a) \/ Upload(a)
           \/ WriteIndex \/ SignIndex
    PROVE  Safe'
<1>1. UNCHANGED <<trust, project, pc, local, count>>
  BY DEF Publish, Upload, WriteIndex, SignIndex
<1>2. \A q \in Proc : ProcOK(q)'
  BY <1>1, ProcKept DEF Safe, project, local
<1>3. CASE UNCHANGED sig
  BY <1>1, <1>2, <1>3, FilesKept DEF Safe, project
<1>4. CASE SignIndex
  <2>1. index \in Index /\ sig' = [over |-> index, key |-> IndexKey]
    BY <1>4 DEF SignIndex, TypeOK
  <2>2. sig'.over = index /\ Covered(sig)'
    BY <1>4, <2>1 DEF SignIndex, Covered, Index
  <2>3. /\ trust # Corrupt => trust.keys \subseteq trusted'
        /\ \A i \in Id, f \in File : dir[i][f] # None => Verified(dir[i][f])'
        /\ lock # Corrupt => \A i \in Id : lock[i] # None => Sound(i, lock[i])'
    BY <1>1, Monotone, Grows DEF Safe, FilesOK, TypeOK, Directory, Lock, project
  <2>4. NeverMixed'
    BY <1>1 DEF Safe, FilesOK, NeverMixed, project
  <2>5. FilesOK'
    BY <1>1, <2>2, <2>3, <2>4 DEF FilesOK, Verified, Sound, project
  <2> QED
    BY <1>2, <2>5 DEF Safe
<1> QED
  BY <1>3, <1>4 DEF Publish, Upload, WriteIndex

\* A command that ends holds nothing; its staging directory was clean already
\* if it was not at work on it.
LEMMA EndSafe ==
    ASSUME TypeOK, Next, NEW p \in Proc, ProcOK(p), End(p)
    PROVE  /\ DecisionOK(p)' /\ OriginOK(p)' /\ SnapOK(p)'
           /\ UNCHANGED <<stage, kills>> /\ pc[p] \notin {"stage", "remove", "rename"}
                  => ProcOK(p)'
<1>1. /\ pc'[p] = "idle" /\ seal'[p] = None /\ by'[p] = None /\ snap'[p] = NoLock
  BY DEF TypeOK, End
<1>2. DecisionOK(p)' /\ OriginOK(p)' /\ SnapOK(p)'
  BY <1>1 DEF DecisionOK, OriginOK, SnapOK, Holding, NoLock
<1>3. ASSUME UNCHANGED <<stage, kills>>, pc[p] \notin {"stage", "remove", "rename"}
      PROVE  StageOK(p)'
  BY <1>1, <1>3, Monotone DEF ProcOK, StageOK, TypeOK, Directory
<1> QED
  BY <1>2, <1>3 DEF ProcOK

\* The staging directory of a process that goes on without touching it.
LEMMA StageKept ==
    ASSUME TypeOK, Next, NEW p \in Proc, StageOK(p), UNCHANGED <<stage, kills>>,
           pc[p] \notin {"stage", "remove", "rename"},
           pc'[p] \notin {"stage", "remove", "rename"}
    PROVE  StageOK(p)'
  BY Monotone DEF StageOK, TypeOK, Directory

\* Reading the keyring, the index and the artifact.
LEMMA FetchSafe ==
    ASSUME TypeOK, Safe, Next, NEW p \in Proc,
           \/ ReadKeys(p) \/ FetchIndex(p) \/ FetchSignature(p) \/ ResolveIndex(p)
           \/ FetchFails(p) \/ FetchArtifact(p)
    PROVE  ProcOK(p)'
<1>0. /\ UNCHANGED <<stage, kills, sig, listed>>
      /\ pc[p] \in {"keys", "index", "fetch"}
      /\ ProcOK(p) /\ FilesOK
  BY DEF ReadKeys, FetchIndex, FetchSignature, ResolveIndex, FetchFails, FetchArtifact,
         project, host, count, Safe
<1>1. CASE End(p)
  BY <1>0, <1>1, EndSafe
<1>2. CASE ReadKeys(p) /\ ~End(p)
  <2>1. /\ pc'[p] = "index" /\ UNCHANGED <<job, seal, pin, got, by, snap>>
    BY <1>2 DEF ReadKeys, Goto, TypeOK
  <2>2. StageOK(p)'
    BY <1>0, <2>1, StageKept DEF ProcOK
  <2> QED
    BY <1>0, <2>1, <2>2, Monotone
       DEF ProcOK, DecisionOK, OriginOK, SnapOK, Holding, TypeOK, Lock
<1>3. CASE FetchIndex(p)
  <2>1. UNCHANGED <<pc, job, seal, pin, got, by, snap, stage>>
    BY <1>3 DEF FetchIndex, project
  <2> QED
    BY <1>0, <2>1, ProcKept
<1>4. CASE FetchSignature(p)
  <2>1. UNCHANGED <<pc, job, pin, got, by, snap>> /\ seal'[p] = sig /\ sig # None
    BY <1>4 DEF FetchSignature, TypeOK
  <2>2. StageOK(p)'
    BY <1>0, <2>1, StageKept DEF ProcOK
  <2>3. Covered(sig)'
    BY <1>0, <2>1 DEF Covered, FilesOK
  <2>4. OriginOK(p)'
    BY <1>0, <2>1, <2>3 DEF ProcOK, OriginOK, Holding, Covered
  <2> QED
    BY <1>0, <2>1, <2>2, <2>4, Monotone
       DEF ProcOK, DecisionOK, SnapOK, Holding, TypeOK, Lock
<1>5. CASE ResolveIndex(p) /\ ~End(p)
  <2>1. /\ pc[p] = "index" /\ pc'[p] = "fetch" /\ UNCHANGED <<seal, got, by, snap>>
        /\ seal[p] # None /\ seal[p].over = doc[p]
    BY <1>5 DEF ResolveIndex, Goto, TypeOK, IndexTrusted
  <2>2. PICK r \in Release : /\ doc[p][r] # None
                             /\ pin' = [pin EXCEPT ![p] = doc[p][r]]
    BY <1>5 DEF ResolveIndex, Newest, Listed
  <2>3. pin'[p] \in listed'
    <3>1. pin'[p] = doc[p][r]
      BY <2>2 DEF TypeOK
    <3>2. doc[p][r] \in listed \union {None}
      BY <1>0, <2>1 DEF ProcOK, OriginOK, Covered
    <3> QED
      BY <1>0, <2>2, <3>1, <3>2
  <2>4. StageOK(p)'
    BY <1>0, <2>1, StageKept DEF ProcOK
  <2>5. OriginOK(p)'
    BY <1>0, <2>1, <2>3 DEF ProcOK, OriginOK, Holding, Covered
  <2> QED
    BY <1>0, <2>1, <2>4, <2>5, Monotone
       DEF ProcOK, DecisionOK, SnapOK, Holding, TypeOK, Lock
<1>6. CASE FetchArtifact(p) /\ ~End(p)
  <2>1. /\ pc[p] = "fetch" /\ pc'[p] = "decide"
        /\ UNCHANGED <<job, seal, pin, by, snap>>
        /\ got'[p] = hosted[job[p].release] /\ hosted[job[p].release] # None
        /\ pin[p] = None \/ pin[p] = got'[p]
    BY <1>6 DEF FetchArtifact, Goto, TypeOK, Expected
  <2>2. job[p].from = "registry" => got'[p] \in listed
    BY <1>0, <2>1, ConstantsAssumption DEF ProcOK, OriginOK, TypeOK
  <2>3. StageOK(p)'
    BY <1>0, <2>1, StageKept DEF ProcOK
  <2>4. OriginOK(p)'
    BY <1>0, <2>1, <2>2 DEF ProcOK, OriginOK, Holding, Covered
  <2> QED
    BY <1>0, <2>1, <2>3, <2>4, Monotone
       DEF ProcOK, DecisionOK, SnapOK, Holding, TypeOK, Lock
<1> QED
  BY <1>1, <1>2, <1>3, <1>4, <1>5, <1>6 DEF FetchFails

\* The trust decision: what is held from here on is verified.
LEMMA DecideSafe ==
    ASSUME TypeOK, Safe, Next, NEW p \in Proc, Decide(p) \/ Policy(p)
    PROVE  ProcOK(p)'
<1>0. /\ UNCHANGED <<stage, kills>> /\ pc[p] \in {"decide", "policy"}
      /\ ProcOK(p) /\ FilesOK /\ ~Holding(p) /\ by[p] = None /\ got[p] \in Artifact
  BY DEF Decide, Policy, project, count, Safe, ProcOK, DecisionOK, Holding, TypeOK
<1>1. CASE End(p)
  BY <1>0, <1>1, EndSafe
<1>2. CASE Decide(p) /\ Goto(p, "policy") /\ ~End(p)
  <2>1. /\ pc'[p] = "policy" /\ UNCHANGED <<job, seal, pin, got, by, snap>>
        /\ About[got[p]].intact /\ About[got[p]].signer = None /\ pc[p] = "decide"
    BY <1>2 DEF Decide, Goto, TypeOK, Materialize
  <2>2. StageOK(p)'
    BY <1>0, <2>1, StageKept DEF ProcOK
  <2>3. OriginOK(p)' /\ DecisionOK(p)'
    BY <1>0, <2>1, Grows, Monotone DEF ProcOK, OriginOK, DecisionOK, Holding, TypeOK
  <2> QED
    BY <1>0, <2>1, <2>2, <2>3, Monotone DEF ProcOK, SnapOK, TypeOK, Lock
<1>3. CASE Materialize(p)
  <2>1. /\ pc'[p] \in {"clear", "load"} /\ UNCHANGED <<job, seal, pin, got, snap>>
    BY <1>3 DEF Goto, TypeOK, Materialize
  <2>2. Verified(got[p])' /\ by'[p] = About[got[p]].signer
    <3>1. CASE Decide(p) /\ ~End(p)
      <4>1. trust # Corrupt /\ About[got[p]].intact
        BY <3>1 DEF Decide
      <4>2. About[got[p]].signer \in trust.keys /\ by'[p] = About[got[p]].signer
        BY <1>0, <2>1, <3>1 DEF Decide, Goto, TypeOK
      <4>3. trust \in TrustStore /\ trust.keys \subseteq trusted'
        BY <1>0, <4>1, Grows DEF FilesOK, TypeOK
      <4>4. About[got[p]].signer # None
        BY <4>2, <4>3, ConstantsAssumption DEF TrustStore
      <4> QED
        BY <2>1, <4>1, <4>2, <4>3, <4>4 DEF Verified
    <3>2. CASE Policy(p) /\ ~End(p)
      <4>1. /\ About[got[p]].intact /\ About[got[p]].signer = None
        BY <1>0, <3>2 DEF Policy, ProcOK, DecisionOK
      <4>2. got[p] \in waived' /\ UNCHANGED by
        BY <3>2 DEF Policy
      <4> QED
        BY <1>0, <2>1, <4>1, <4>2 DEF Verified
    <3>3. ~End(p)
      BY <2>1 DEF End, TypeOK
    <3> QED
      BY <3>1, <3>2, <3>3
  <2>3. StageOK(p)'
    BY <1>0, <2>1, StageKept DEF ProcOK
  <2>4. OriginOK(p)'
    BY <1>0, <2>1, Grows, Monotone DEF ProcOK, OriginOK, Holding, TypeOK
  <2>5. DecisionOK(p)'
    BY <2>1, <2>2 DEF DecisionOK, Holding
  <2> QED
    BY <1>0, <2>1, <2>3, <2>4, <2>5, Monotone DEF ProcOK, SnapOK, TypeOK, Lock
<1> QED
  BY <1>1, <1>2, <1>3 DEF Decide, Policy

\* From one step of the materialization to the next: the memory is the same.
LEMMA HoldingKept ==
    ASSUME TypeOK, Next, NEW p \in Proc, ProcOK(p), Holding(p), Holding(p)',
           UNCHANGED <<job, seal, pin, got, by, snap>>
    PROVE  DecisionOK(p)' /\ OriginOK(p)' /\ SnapOK(p)' /\ Verified(got[p])'
<1>1. DecisionOK(p)' /\ Verified(got[p])'
  BY Monotone DEF ProcOK, DecisionOK, Holding, TypeOK
<1>2. OriginOK(p)'
  BY Grows, Monotone DEF ProcOK, OriginOK, Holding, TypeOK
<1>3. SnapOK(p)'
  BY Monotone DEF ProcOK, SnapOK, TypeOK, Lock
<1> QED
  BY <1>1, <1>2, <1>3

\* Staging: the directory holds files of the held artifact only.
LEMMA StagingSafe ==
    ASSUME TypeOK, Safe, Next, NEW p \in Proc, Clear(p) \/ Stage(p) \/ FileError(p)
    PROVE  ProcOK(p)' /\ FilesOK'
<1>0. /\ UNCHANGED <<sig, trust, dir, lock>> /\ ProcOK(p) /\ FilesOK
      /\ stage \in [Proc -> Directory] /\ got[p] \in Artifact
  BY DEF Clear, Stage, FileError, host, Safe, TypeOK
<1>1. FilesOK'
  BY <1>0, FilesKept
<1>2. CASE Clear(p)
  <2>1. /\ pc[p] = "clear" /\ pc'[p] = "stage" /\ stage'[p] = Absent
        /\ UNCHANGED <<job, seal, pin, got, by, snap, kills>>
    BY <1>0, <1>2 DEF Clear, Goto, TypeOK, local, count
  <2>2. StageOK(p)'
    BY <2>1 DEF StageOK, Absent
  <2> QED
    BY <1>0, <1>1, <2>1, <2>2, HoldingKept DEF ProcOK, Holding
<1>3. CASE Stage(p)
  <2>1. /\ pc[p] = "stage" /\ pc'[p] \in {"stage", "remove"}
        /\ UNCHANGED <<job, seal, pin, got, by, snap, kills>>
    BY <1>3 DEF Stage, Goto, TypeOK, local, count
  <2>2. Verified(got[p])'
    BY <1>0, <2>1, HoldingKept DEF Holding
  <2>3. \A f \in File : stage'[p][f] \in {stage[p][f], got[p]}
    <3>1. ASSUME NEW g \in About[got[p]].files, stage' = [stage EXCEPT ![p][g] = got[p]]
          PROVE  \A f \in File : stage'[p][f] \in {stage[p][f], got[p]}
      BY <1>0, <3>1 DEF Directory
    <3> QED
      BY <1>3, <3>1 DEF Stage
  <2>4. \A f \in File : stage'[p][f] \in {None, got'[p]}
    BY <1>0, <2>1, <2>3 DEF ProcOK, StageOK
  <2>5. StageOK(p)'
    BY <2>1, <2>2, <2>4 DEF StageOK
  <2> QED
    BY <1>0, <1>1, <2>1, <2>5, HoldingKept DEF ProcOK, Holding
<1>4. CASE FileError(p)
  <2>1. stage'[p] = Absent /\ End(p)
    BY <1>0, <1>4 DEF FileError
  <2>2. pc'[p] = "idle"
    BY <2>1 DEF End, TypeOK
  <2>3. StageOK(p)'
    BY <2>1, <2>2 DEF StageOK, Absent
  <2> QED
    BY <1>0, <1>1, <2>1, <2>3, EndSafe DEF ProcOK
<1> QED
  BY <1>2, <1>3, <1>4

\* The swap: the plugin directory only loses files, or takes the place of the
\* staging directory when it has none.
LEMMA SwapSafe ==
    ASSUME TypeOK, Safe, Next, NEW p \in Proc, RemoveTarget(p) \/ Rename(p)
    PROVE  ProcOK(p)' /\ FilesOK'
<1> DEFINE Good == {a \in Artifact : Verified(a)'}
<1>0. /\ UNCHANGED <<sig, trust, lock, kills>> /\ ProcOK(p) /\ FilesOK
      /\ stage \in [Proc -> Directory] /\ dir \in [Id -> Directory]
      /\ got[p] \in Artifact /\ Target(p) \in Id
      /\ pc[p] \in {"remove", "rename"} /\ Holding(p)
  BY ConstantsAssumption
     DEF RemoveTarget, Rename, host, count, Safe, TypeOK, Target, Description, Holding
<1>1. ASSUME \A i \in Id, f \in File : dir'[i][f] # None => dir'[i][f] \in Good,
             NeverMixed'
      PROVE  FilesOK'
  <2>1. trust # Corrupt => trust.keys \subseteq trusted'
    BY <1>0, Grows DEF FilesOK
  <2>2. sig # None => Covered(sig)'
    BY <1>0, Monotone DEF FilesOK, TypeOK, Covered
  <2>3. lock # Corrupt => \A i \in Id : lock[i] # None => Sound(i, lock[i])'
    BY <1>0, Monotone DEF FilesOK, TypeOK, Lock
  <2>4. \A i \in Id, f \in File : dir'[i][f] # None =>
            /\ About[dir'[i][f]].intact
            /\ IF About[dir'[i][f]].signer = None THEN dir'[i][f] \in waived'
                   ELSE About[dir'[i][f]].signer \in trusted'
    BY <1>1 DEF Verified
  <2> QED
    BY <1>0, <1>1, <2>1, <2>2, <2>3, <2>4 DEF FilesOK, Sound, Covered, Verified
<1>2. \A i \in Id, f \in File : dir[i][f] # None => dir[i][f] \in Good
  <2>1. \A i \in Id, f \in File : dir[i][f] \in Artifact \union {None}
    BY <1>0 DEF Directory
  <2> QED
    BY <1>0, <2>1, Monotone DEF FilesOK
<1>3. CASE RemoveTarget(p)
  <2>1. /\ pc'[p] \in {"remove", "rename"}
        /\ UNCHANGED <<job, seal, pin, got, by, snap, stage>>
    BY <1>3 DEF RemoveTarget, Goto, TypeOK, local
  <2>2. \A i \in Id, f \in File : dir'[i][f] \in {None, dir[i][f]}
    <3>1. ASSUME NEW g \in File, dir' = [dir EXCEPT ![Target(p)][g] = None]
          PROVE  \A i \in Id, f \in File : dir'[i][f] \in {None, dir[i][f]}
      BY <1>0, <3>1 DEF Directory
    <3> QED
      BY <1>3, <3>1 DEF RemoveTarget
  <2>3. NeverMixed'
    BY <1>0, <2>2 DEF FilesOK, NeverMixed
  <2>4. \A i \in Id, f \in File : dir'[i][f] # None => dir'[i][f] \in Good
    BY <1>2, <2>2
  <2>5. StageOK(p)'
    BY <1>0, <2>1, Monotone DEF ProcOK, StageOK, TypeOK, Directory
  <2> QED
    BY <1>0, <1>1, <2>1, <2>3, <2>4, <2>5, HoldingKept DEF ProcOK, Holding
<1>4. CASE Rename(p)
  <2>1. stage'[p] = Absent
    BY <1>0, <1>4 DEF Rename
  <2>2. CASE End(p) /\ UNCHANGED dir
    <3>1. StageOK(p)'
      BY <2>1, <2>2 DEF StageOK, Absent
    <3>2. \A i \in Id, f \in File : dir'[i][f] # None => dir'[i][f] \in Good
      BY <1>2, <2>2
    <3>3. NeverMixed'
      BY <1>0, <2>2 DEF FilesOK, NeverMixed
    <3> QED
      BY <1>0, <1>1, <2>2, <3>1, <3>2, <3>3, EndSafe DEF ProcOK
  <2>3. CASE Goto(p, "load") /\ dir' = [dir EXCEPT ![Target(p)] = stage[p]]
             /\ UNCHANGED local
    <3>1. pc'[p] = "load" /\ UNCHANGED <<job, seal, pin, got, by, snap>>
      BY <2>3 DEF Goto, TypeOK, local
    <3>2. StageOK(p)'
      BY <2>1, <3>1 DEF StageOK, Absent
    <3>3. \A f \in File : stage[p][f] \in {None, got[p]}
      BY <1>0, <1>4 DEF ProcOK, StageOK, Rename
    <3>4. got[p] \in Good
      BY <1>0, Monotone DEF ProcOK, DecisionOK
    <3>5. \A f \in File : stage[p][f] # None => stage[p][f] \in Good
      BY <3>3, <3>4
    <3>6. \A i \in Id : dir'[i] = dir[i] \/ dir'[i] = stage[p]
      BY <1>0, <2>3
    <3>7. NeverMixed'
      BY <1>0, <3>3, <3>6 DEF FilesOK, NeverMixed
    <3>8. \A i \in Id, f \in File : dir'[i][f] # None => dir'[i][f] \in Good
      BY <1>2, <3>5, <3>6
    <3> QED
      BY <1>0, <1>1, <3>1, <3>2, <3>7, <3>8, HoldingKept DEF ProcOK, Holding
  <2> QED
    BY <1>4, <2>2, <2>3 DEF Rename
<1> QED
  BY <1>3, <1>4

\* The lockfile is read and written with the held artifact's entry.
LEMMA LockSafe ==
    ASSUME TypeOK, Safe, Next, NEW p \in Proc, LoadLock(p) \/ SaveLock(p)
    PROVE  ProcOK(p)' /\ FilesOK'
<1>0. /\ UNCHANGED <<sig, trust, dir, stage, kills>> /\ ProcOK(p) /\ FilesOK
      /\ got[p] \in Artifact /\ Target(p) \in Id
      /\ pc[p] \in {"load", "save"} /\ Holding(p)
  BY ConstantsAssumption
     DEF LoadLock, SaveLock, host, project, count, Safe, TypeOK, Target, Description, Holding
<1>1. CASE LoadLock(p)
  <2>1. UNCHANGED lock
    BY <1>1 DEF LoadLock, project
  <2>2. FilesOK'
    BY <1>0, <2>1, FilesKept
  <2>3. CASE End(p)
    BY <1>0, <2>2, <2>3, EndSafe
  <2>4. CASE ~End(p)
    <3>1. /\ pc'[p] = "save" /\ UNCHANGED <<job, seal, pin, got, by>>
          /\ snap'[p] = lock /\ lock # Corrupt
      BY <1>1, <2>4 DEF LoadLock, Goto, TypeOK
    <3>2. StageOK(p)'
      BY <1>0, <3>1, StageKept DEF ProcOK
    <3>3. SnapOK(p)'
      <4>1. snap'[p] = lock'
        BY <2>1, <3>1
      <4> QED
        BY <2>1, <2>2, <3>1, <4>1 DEF FilesOK, SnapOK, Sound
    <3>4. DecisionOK(p)' /\ OriginOK(p)'
      BY <1>0, <3>1, Monotone, Grows DEF ProcOK, DecisionOK, OriginOK, Holding, TypeOK
    <3> QED
      BY <2>2, <3>2, <3>3, <3>4 DEF ProcOK
  <2> QED
    BY <2>3, <2>4
<1>2. CASE SaveLock(p)
  <2>1. End(p) /\ pc[p] = "save"
    BY <1>2 DEF SaveLock
  <2>2. ProcOK(p)'
    BY <1>0, <2>1, EndSafe
  <2>3. snap[p] \in Lock /\ [art |-> got[p], trust |-> by[p]] \in Entry
    BY <1>0 DEF TypeOK, Entry
  <2>4. (\A i \in Id : lock[i] # None => Sound(i, lock[i]))'
    <3>1. lock' = [snap[p] EXCEPT ![Target(p)] = [art |-> got[p], trust |-> by[p]]]
      BY <1>2 DEF SaveLock
    <3>2. \A i \in Id : snap[p][i] # None => Sound(i, snap[p][i])
      BY <1>0 DEF ProcOK, SnapOK
    <3>3. \A i \in Id : \/ lock'[i] = snap[p][i] /\ i # Target(p)
                        \/ i = Target(p) /\ lock'[i] = [art |-> got[p], trust |-> by[p]]
      BY <1>0, <2>3, <3>1 DEF Lock
    <3>4. \A i \in Id : snap[p][i] # None => snap[p][i] \in Entry
      BY <2>3 DEF Lock
    <3>5. /\ Verified(got[p]) /\ by[p] = About[got[p]].signer
      BY <1>0 DEF ProcOK, DecisionOK
    <3>6. About[got[p]].intact /\
             (IF About[got[p]].signer = None THEN got[p] \in waived'
                                             ELSE About[got[p]].signer \in trusted')
      BY <3>5, Grows DEF Verified
    <3>7. ASSUME NEW i \in Id, lock'[i] # None
          PROVE  /\ About[lock'[i].art].intact
                 /\ IF About[lock'[i].art].signer = None THEN lock'[i].art \in waived'
                        ELSE About[lock'[i].art].signer \in trusted'
                 /\ About[lock'[i].art].id = i
                 /\ lock'[i].trust = About[lock'[i].art].signer
      <4>1. CASE lock'[i] = snap[p][i]
        <5>1. snap[p][i] \in Entry /\ Sound(i, snap[p][i])
          BY <3>2, <3>4, <3>7, <4>1
        <5> QED
          BY <4>1, <5>1, Grows DEF Sound, Verified
      <4>2. CASE i = Target(p) /\ lock'[i] = [art |-> got[p], trust |-> by[p]]
        BY <3>5, <3>6, <4>2 DEF Target
      <4> QED
        BY <3>3, <4>1, <4>2
    <3> QED
      BY <3>7 DEF Sound, Verified
  <2>5. trust # Corrupt => trust.keys \subseteq trusted'
    BY <1>0, Grows DEF FilesOK
  <2>6. sig # None => Covered(sig)'
    BY <1>0, Monotone DEF FilesOK, TypeOK, Covered
  <2>7. \A i \in Id, f \in File : dir[i][f] # None => Verified(dir[i][f])'
    BY <1>0, Monotone DEF FilesOK, TypeOK, Directory
  <2>8. NeverMixed'
    BY <1>0 DEF FilesOK, NeverMixed
  <2>9. FilesOK'
    BY <1>0, <2>4, <2>5, <2>6, <2>7, <2>8 DEF FilesOK
  <2> QED
    BY <2>2, <2>9
<1> QED
  BY <1>1, <1>2

\* Commands that begin, that change the keyring, and that are killed.
LEMMA CommandSafe ==
    ASSUME TypeOK, Safe, Next, NEW p \in Proc,
           \/ SaveTrust(p) \/ Kill(p)
           \/ \E j \in Jobs : Begin(p, j)
           \/ \E ks \in SUBSET Key : LoadTrust(p, ks)
    PROVE  ProcOK(p)' /\ FilesOK'
<1>0. ProcOK(p) /\ FilesOK
  BY DEF Safe
<1>1. CASE SaveTrust(p)
  <2>1. /\ End(p) /\ UNCHANGED <<sig, dir, lock, stage, kills>> /\ pc[p] = "trust"
        /\ trust' = ring[p] /\ trusted' = trusted \union ring[p].keys
    BY <1>1 DEF SaveTrust, host, project, count
  <2>2. ProcOK(p)'
    BY <1>0, <2>1, EndSafe
  <2>3. trust'.keys \subseteq trusted'
    BY <2>1
  <2>4. sig # None => Covered(sig)'
    BY <1>0, <2>1, Monotone DEF FilesOK, TypeOK, Covered
  <2>5. \A i \in Id, f \in File : dir[i][f] # None => Verified(dir[i][f])'
    BY <1>0, <2>1, Monotone DEF FilesOK, TypeOK, Directory
  <2>6. lock # Corrupt => \A i \in Id : lock[i] # None => Sound(i, lock[i])'
    BY <1>0, <2>1, Monotone DEF FilesOK, TypeOK, Lock
  <2>7. NeverMixed'
    BY <1>0, <2>1 DEF FilesOK, NeverMixed
  <2> QED
    BY <2>1, <2>2, <2>3, <2>4, <2>5, <2>6, <2>7 DEF FilesOK, Verified, Sound, Covered
<1>2. CASE Kill(p)
  <2>1. /\ End(p) /\ UNCHANGED <<sig, dir, stage>> /\ kills' /\ pc'[p] = "idle"
        /\ lock' \in {lock, Corrupt} /\ trust' \in {trust, Corrupt}
    BY <1>2 DEF Kill, host, End, TypeOK
  <2>2. StageOK(p)'
    BY <1>0, <2>1, Monotone DEF ProcOK, StageOK, TypeOK, Directory
  <2>3. ProcOK(p)'
    BY <1>0, <2>1, <2>2, EndSafe DEF ProcOK
  <2>4. trust' # Corrupt => trust'.keys \subseteq trusted'
    BY <1>0, <2>1, Grows DEF FilesOK
  <2>5. sig # None => Covered(sig)'
    BY <1>0, <2>1, Monotone DEF FilesOK, TypeOK, Covered
  <2>6. \A i \in Id, f \in File : dir[i][f] # None => Verified(dir[i][f])'
    BY <1>0, <2>1, Monotone DEF FilesOK, TypeOK, Directory
  <2>7. (lock # Corrupt => \A i \in Id : lock[i] # None => Sound(i, lock[i]))'
    <3>1. CASE lock' = lock
      <4>1. lock # Corrupt => \A i \in Id : lock[i] # None => Sound(i, lock[i])'
        BY <1>0, <3>1, Monotone DEF FilesOK, TypeOK, Lock
      <4> QED
        BY <3>1, <4>1 DEF Sound, Verified
    <3>2. CASE lock' = Corrupt
      BY <3>2
    <3> QED
      BY <2>1, <3>1, <3>2
  <2>8. NeverMixed'
    BY <1>0, <2>1 DEF FilesOK, NeverMixed
  <2>9. FilesOK'
    BY <2>1, <2>4, <2>5, <2>6, <2>7, <2>8 DEF FilesOK, Verified, Covered
  <2> QED
    BY <2>3, <2>9
<1>3. CASE (\E j \in Jobs : Begin(p, j)) \/ (\E ks \in SUBSET Key : LoadTrust(p, ks))
  <2>1. /\ UNCHANGED <<sig, trust, dir, lock, stage, kills, seal, pin, got, by, snap>>
        /\ pc[p] = "idle" /\ pc'[p] \in {"keys", "fetch", "trust"}
        /\ pc'[p] = "fetch" => job'[p].from # "registry"
    BY <1>3 DEF Begin, LoadTrust, Start, Idle, Goto, host, project, TypeOK
  <2>2. FilesOK'
    BY <1>0, <2>1, FilesKept
  <2>3. StageOK(p)'
    BY <1>0, <2>1, StageKept DEF ProcOK
  <2>4. DecisionOK(p)' /\ SnapOK(p)'
    BY <1>0, <2>1, Monotone DEF ProcOK, DecisionOK, SnapOK, Holding, TypeOK, Lock
  <2>5. OriginOK(p)'
    BY <1>0, <2>1, Grows, Monotone DEF ProcOK, OriginOK, Holding, TypeOK
  <2> QED
    BY <2>2, <2>3, <2>4, <2>5 DEF ProcOK
<1> QED
  BY <1>1, <1>2, <1>3

LEMMA NextSafe == ASSUME TypeOK, Safe, Next PROVE Safe'
<1>1. CASE \/ \E a \in Artifact : Publish(a) \/ Upload(a)
           \/ WriteIndex \/ SignIndex
  BY <1>1, HostSafe
<1>2. ASSUME NEW p \in Proc, Act(p) PROVE Safe'
  <2>1. ASSUME NEW q \in Proc, q # p PROVE ProcOK(q)'
    <3>1. ProcOK(q)
      BY DEF Safe
    <3> QED
      BY <1>2, <2>1, <3>1, OthersKept, ProcKept
  <2>2. ProcOK(p)' /\ FilesOK'
    <3>1. CASE \/ ReadKeys(p) \/ FetchIndex(p) \/ FetchSignature(p) \/ ResolveIndex(p)
               \/ FetchFails(p) \/ FetchArtifact(p) \/ Decide(p) \/ Policy(p)
      <4>1. UNCHANGED <<sig, trust, dir, lock>>
        BY <3>1 DEF ReadKeys, FetchIndex, FetchSignature, ResolveIndex, FetchFails,
                    FetchArtifact, Decide, Policy, host, project
      <4> QED
        BY <3>1, <4>1, FetchSafe, DecideSafe, FilesKept DEF Safe
    <3>2. CASE \/ Clear(p) \/ Stage(p) \/ RemoveTarget(p) \/ Rename(p) \/ FileError(p)
               \/ LoadLock(p) \/ SaveLock(p)
      BY <3>2, StagingSafe, SwapSafe, LockSafe
    <3>3. CASE ~Install(p)
      BY <1>2, <3>3, CommandSafe DEF Act
    <3> QED
      BY <3>1, <3>2, <3>3 DEF Install
  <2> QED
    BY <2>1, <2>2 DEF Safe
<1> QED
  BY <1>1, <1>2 DEF Next, Act

LEMMA StutterSafe == ASSUME TypeOK, Safe, UNCHANGED vars PROVE Safe'
<1>1. UNCHANGED <<sig, trust, dir, lock, stage, pc, job, seal, pin, got, by, snap, kills,
                  trusted, waived, listed>>
  BY DEF vars, host, project, local, count
<1>2. FilesOK'
  BY <1>1 DEF Safe, FilesOK, NeverMixed, Sound, Verified, Covered
<1>3. ASSUME NEW p \in Proc PROVE ProcOK(p)'
  <2>1. ProcOK(p)
    BY DEF Safe
  <2>2. DecisionOK(p)' /\ StageOK(p)'
    BY <1>1, <2>1 DEF ProcOK, DecisionOK, StageOK, Holding, Verified
  <2>3. OriginOK(p)' /\ SnapOK(p)'
    BY <1>1, <2>1 DEF ProcOK, OriginOK, SnapOK, Holding, Covered, Sound, Verified
  <2> QED
    BY <2>2, <2>3 DEF ProcOK
<1> QED
  BY <1>2, <1>3 DEF Safe

LEMMA AlwaysSafe == Spec => []Safe
<1>1. TypeOK /\ Safe /\ [Next]_vars => Safe'
  BY NextSafe, StutterSafe
<1> QED
  BY <1>1, InitSafe, TypeCorrect, PTL DEF Spec

-----------------------------------------------------------------------------
\* Whatever is served, and however publishers, keyring, installs, kills and torn
\* files interleave, only verified artifacts reach the disk.
THEOREM ArtifactsVerified == Spec => []OnlyVerified
<1>1. Safe => OnlyVerified
  BY DEF Safe, FilesOK, ProcOK, StageOK, OnlyVerified, Sound
<1> QED
  BY <1>1, AlwaysSafe, PTL

\* A lock entry records what was decided about its own artifact.
THEOREM ProvenanceRecorded == Spec => []TrustRecorded
<1>1. Safe => TrustRecorded
  BY DEF Safe, FilesOK, TrustRecorded, Sound
<1> QED
  BY <1>1, AlwaysSafe, PTL

\* No interleaving of installs mixes the files of two artifacts.
THEOREM DirectoriesWhole == Spec => []NeverMixed
<1>1. Safe => NeverMixed
  BY DEF Safe, FilesOK
<1> QED
  BY <1>1, AlwaysSafe, PTL

\* What comes through the registry was named by a signed index.
THEOREM RegistryPinned == Spec => []RegistryListed
<1>1. TypeOK /\ Safe => RegistryListed
  BY DEF Safe, ProcOK, OriginOK, RegistryListed, Holding, TypeOK, Steps
<1> QED
  BY <1>1, AlwaysSafe, TypeCorrect, PTL

\* Only a kill leaves a staging directory behind.
THEOREM StagingRemoved == Spec => []NoLeftovers
<1>1. Safe => NoLeftovers
  BY DEF Safe, ProcOK, StageOK, NoLeftovers
<1> QED
  BY <1>1, AlwaysSafe, PTL

\* For any artifacts, keys and processes: only verified artifacts, listed where
\* they had to be, get into the project, under their own id and signer.
THEOREM ArtifactsVetted == Spec => []OnlyVetted
BY ArtifactsVerified, ProvenanceRecorded, RegistryPinned, PTL DEF OnlyVetted
-----------------------------------------------------------------------------
(***************************************************************************)
(* Directories and lockfile agree while commands run one at a time and no   *)
(* kill or file error disturbs them.  In between, one process is at work:   *)
(* the invariant says what it has done of its swap.                         *)
(***************************************************************************)
Undisturbed == ~overlap /\ faults = 0

Matches(i) == Installed(i) => dir[i] = Contents(lock[i].art)

Plugin(p) == About[got[p]].kind = "plugin"

\* The target's directory is not what the lockfile says of it, or not yet.
Swapping(p) ==
    pc[p] \in {"remove", "rename"} \/ (pc[p] \in {"load", "save"} /\ Plugin(p))

\* The staging directory holds nothing else and is then complete, the target's
\* directory is empty and is then complete, and nobody has written the lockfile
\* since it was read.
Swapped(p) ==
    /\ pc[p] \in {"clear", "stage", "remove", "rename"} => Plugin(p)
    /\ pc[p] = "stage" => \A f \in File \ About[got[p]].files : stage[p][f] = None
    /\ pc[p] \in {"remove", "rename"} => stage[p] = Contents(got[p])
    /\ pc[p] = "rename" => dir[Target(p)] = Absent
    /\ pc[p] \in {"load", "save"} /\ Plugin(p) => dir[Target(p)] = Contents(got[p])
    /\ pc[p] = "save" => snap[p] = lock

Alone == \A p, q \in Proc : ~Idle(p) /\ ~Idle(q) => p = q

Described ==
    \A i \in Id : (\A p \in Proc : ~(Swapping(p) /\ Target(p) = i)) => Matches(i)

Matching ==
    Undisturbed => lock # Corrupt /\ Alone /\ Described /\ \A p \in Proc : Swapped(p)

LEMMA InitMatching == Init => Matching
<1> SUFFICES ASSUME Init PROVE Matching
  OBVIOUS
<1>1. lock # Corrupt
  BY Blanks, ConstantsAssumption DEF Init
<1>2. Alone /\ \A p \in Proc : Swapped(p)
  BY DEF Init, Alone, Idle, Swapped
<1>3. Described
  BY DEF Init, Described, Matches, Installed, NoLock
<1> QED
  BY <1>1, <1>2, <1>3 DEF Matching

\* What p's being the only one at work comes to.
Lone(p) ==
    /\ lock # Corrupt /\ Swapped(p)
    /\ \A q \in Proc : q # p => Idle(q)
    /\ \A i \in Id : ~(Swapping(p) /\ Target(p) = i) => Matches(i)

LEMMA LoneMatching == ASSUME NEW p \in Proc, Lone(p)' PROVE Matching'
<1>1. \A q \in Proc : q # p => ~Swapping(q)' /\ Swapped(q)'
  BY DEF Lone, Idle, Swapping, Swapped
<1>2. Alone'
  BY DEF Lone, Alone
<1>3. Described'
  BY <1>1 DEF Lone, Described
<1> QED
  BY <1>1, <1>2, <1>3 DEF Matching, Lone

\* A process acts undisturbed only if the others are idle.
LEMMA OnlyOne ==
    ASSUME TypeOK, Matching, NEW p \in Proc, Act(p), Undisturbed'
    PROVE  /\ Lone(p) /\ ~Kill(p) /\ ~FileError(p)
           /\ \A q \in Proc : q # p => Idle(q)'
<1>1. ~Kill(p) /\ ~FileError(p)
  BY DEF Kill, FileError, Undisturbed, TypeOK
<1>2. CASE Idle(p)
  <2>1. (\E j \in Jobs : Begin(p, j)) \/ (\E ks \in SUBSET Key : LoadTrust(p, ks))
    BY <1>2 DEF Act, Idle, Install, ReadKeys, FetchIndex, FetchSignature, ResolveIndex,
                FetchFails, FetchArtifact, Decide, Policy, Clear, Stage, RemoveTarget,
                Rename, FileError, LoadLock, SaveLock, SaveTrust, Kill
  <2>2. Undisturbed /\ \A q \in Proc : Idle(q)
    BY <2>1 DEF Begin, LoadTrust, Start, Undisturbed
  <2> QED
    BY <1>1, <2>2, OthersKept DEF Matching, Lone, Described, Idle, Swapping
<1>3. CASE ~Idle(p)
  <2>1. UNCHANGED <<overlap, faults>>
    BY <1>1, <1>3
       DEF Act, Install, ReadKeys, FetchIndex, FetchSignature, ResolveIndex,
           FetchFails, FetchArtifact, Decide, Policy, Clear, Stage, RemoveTarget,
           Rename, LoadLock, SaveLock, SaveTrust, Begin, LoadTrust, Start, count
  <2>2. Undisturbed
    BY <2>1 DEF Undisturbed
  <2>3. \A q \in Proc : q # p => Idle(q)
    BY <1>3, <2>2 DEF Matching, Alone
  <2> QED
    BY <1>1, <2>2, <2>3, OthersKept DEF Matching, Lone, Described, Idle, Swapping
<1> QED
  BY <1>2, <1>3

\* Up to the trust decision, and when the keyring is changed, no plugin
\* directory is touched.
LEMMA EarlyLone ==
    ASSUME TypeOK, NEW p \in Proc, Lone(p), \A q \in Proc : q # p => Idle(q)',
           \/ ReadKeys(p) \/ FetchIndex(p) \/ FetchSignature(p) \/ ResolveIndex(p)
           \/ FetchFails(p) \/ FetchArtifact(p) \/ Decide(p) \/ Policy(p)
           \/ SaveTrust(p)
           \/ \E j \in Jobs : Begin(p, j)
           \/ \E ks \in SUBSET Key : LoadTrust(p, ks)
    PROVE  Lone(p)'
<1>1. UNCHANGED <<dir, lock>>
  BY DEF ReadKeys, FetchIndex, FetchSignature, ResolveIndex, FetchFails, FetchArtifact,
         Decide, Policy, SaveTrust, Begin, LoadTrust, project
<1>2. pc[p] \notin {"clear", "stage", "remove", "rename", "load", "save"}
  BY DEF ReadKeys, FetchIndex, FetchSignature, ResolveIndex, FetchFails, FetchArtifact,
         Decide, Policy, SaveTrust, Begin, LoadTrust, Start, Idle
<1>3. /\ pc'[p] \notin {"stage", "remove", "rename", "save"}
      /\ pc'[p] = "clear" => Plugin(p)'
      /\ pc'[p] = "load" => ~Plugin(p)'
  <2>1. CASE Decide(p) \/ Policy(p)
    <3>1. CASE Materialize(p)
      <4>1. CASE About[got[p]].kind = "plugin" /\ Goto(p, "clear") /\ UNCHANGED got
        BY <4>1 DEF Goto, Plugin, TypeOK
      <4>2. CASE About[got[p]].kind = "rules" /\ Goto(p, "load") /\ UNCHANGED got
        BY <4>2 DEF Goto, Plugin, TypeOK
      <4> QED
        BY <3>1, <4>1, <4>2 DEF Materialize
    <3>2. CASE End(p)
      BY <3>2 DEF End, TypeOK
    <3>3. CASE Goto(p, "policy")
      BY <3>3 DEF Goto, TypeOK
    <3> QED
      BY <2>1, <3>1, <3>2, <3>3 DEF Decide, Policy
  <2>2. CASE ~(Decide(p) \/ Policy(p))
    BY <2>2 DEF ReadKeys, FetchIndex, FetchSignature, ResolveIndex, FetchFails,
                FetchArtifact, SaveTrust, Begin, LoadTrust, Goto, End, Start, Idle, TypeOK
  <2> QED
    BY <2>1, <2>2
<1>4. \A i \in Id : Matches(i)
  BY <1>2 DEF Lone, Swapping
<1>5. Swapped(p)'
  BY <1>3 DEF Swapped
<1>6. \A i \in Id : Matches(i)'
  BY <1>1, <1>4 DEF Matches, Installed
<1> QED
  BY <1>1, <1>5, <1>6 DEF Lone

\* Staging fills the staging directory and nothing else.
LEMMA StagingLone ==
    ASSUME TypeOK, Safe, NEW p \in Proc, Lone(p), \A q \in Proc : q # p => Idle(q)',
           Clear(p) \/ Stage(p)
    PROVE  Lone(p)'
<1>1. UNCHANGED <<dir, lock, got, snap>> /\ pc[p] \in {"clear", "stage"} /\ Plugin(p)
  BY DEF Clear, Stage, local, Lone, Swapped
<1>2. \A i \in Id : Matches(i)
  BY <1>1 DEF Lone, Swapping
<1>3. \A i \in Id : Matches(i)'
  BY <1>1, <1>2 DEF Matches, Installed
<1>4. Plugin(p)'
  BY <1>1 DEF Plugin
<1>5. Swapped(p)'
  <2>1. CASE Clear(p)
    <3>1. pc'[p] = "stage" /\ stage'[p] = Absent
      BY <2>1 DEF Clear, Goto, TypeOK
    <3> QED
      BY <1>4, <3>1 DEF Swapped, Absent
  <2>2. CASE Stage(p)
    <3>0. /\ stage \in [Proc -> Directory] /\ pc[p] = "stage"
          /\ \A f \in File \ About[got[p]].files : stage[p][f] = None
      BY <2>2 DEF TypeOK, Stage, Lone, Swapped
    <3>1. CASE UNCHANGED pc
      <4>1. PICK f \in About[got[p]].files : stage' = [stage EXCEPT ![p][f] = got[p]]
        BY <2>2, <3>0, <3>1 DEF Stage, Goto, TypeOK
      <4>2. \A g \in File \ About[got[p]].files : stage'[p][g] = None
        BY <3>0, <4>1 DEF Directory
      <4> QED
        BY <1>1, <1>4, <3>0, <3>1, <4>2 DEF Swapped
    <3>2. CASE ~UNCHANGED pc
      <4>1. /\ \A f \in About[got[p]].files : stage[p][f] = got[p]
            /\ pc'[p] = "remove" /\ UNCHANGED stage
        BY <2>2, <3>2 DEF Stage, Goto, TypeOK
      <4>2. stage[p] = Contents(got[p])
        BY <3>0, <4>1 DEF Contents, Directory
      <4> QED
        BY <1>1, <1>4, <4>1, <4>2 DEF Swapped
    <3> QED
      BY <3>1, <3>2
  <2> QED
    BY <2>1, <2>2
<1> QED
  BY <1>1, <1>3, <1>5 DEF Lone

\* The swap touches the target's directory only, and leaves it complete.
LEMMA SwapLone ==
    ASSUME TypeOK, NEW p \in Proc, Lone(p), \A q \in Proc : q # p => Idle(q)',
           RemoveTarget(p) \/ Rename(p)
    PROVE  Lone(p)'
<1>0. /\ dir \in [Id -> Directory] /\ stage \in [Proc -> Directory]
      /\ Target(p) \in Id /\ got[p] \in Artifact
      /\ UNCHANGED lock /\ pc[p] \in {"remove", "rename"} /\ Plugin(p)
      /\ stage[p] = Contents(got[p])
  BY ConstantsAssumption
     DEF RemoveTarget, Rename, Lone, Swapped, TypeOK, Target, Description
<1>1. \A i \in Id : i # Target(p) => Matches(i)
  BY DEF Lone
<1>2. /\ UNCHANGED <<got, snap>> /\ \A i \in Id : i # Target(p) => dir'[i] = dir[i]
      /\ Swapped(p)' /\ Swapping(p)'
  <2>1. CASE RemoveTarget(p)
    <3>1. UNCHANGED <<got, snap, stage>>
      BY <2>1 DEF RemoveTarget, local
    <3>2. Plugin(p)' /\ Target(p)' = Target(p)
      BY <1>0, <3>1 DEF Plugin, Target
    <3>3. CASE UNCHANGED pc
      <4>1. pc'[p] = "remove"
        BY <2>1, <3>3 DEF RemoveTarget
      <4>2. PICK f \in File : dir' = [dir EXCEPT ![Target(p)][f] = None]
        BY <2>1, <4>1 DEF RemoveTarget, Goto, TypeOK
      <4> QED
        BY <1>0, <3>1, <3>2, <4>1, <4>2 DEF Swapped, Swapping
    <3>4. CASE ~UNCHANGED pc
      <4>1. pc'[p] = "rename" /\ UNCHANGED dir /\ dir[Target(p)] = Absent
        BY <2>1, <3>4 DEF RemoveTarget, Goto, TypeOK
      <4> QED
        BY <1>0, <3>1, <3>2, <4>1 DEF Swapped, Swapping
    <3> QED
      BY <3>3, <3>4
  <2>2. CASE Rename(p)
    <3>1. dir[Target(p)] = Absent
      BY <2>2 DEF Rename, Lone, Swapped
    <3>2. /\ dir' = [dir EXCEPT ![Target(p)] = stage[p]] /\ pc'[p] = "load"
          /\ UNCHANGED <<got, snap>>
      BY <2>2, <3>1 DEF Rename, Goto, TypeOK, local
    <3>3. Plugin(p)' /\ Target(p)' = Target(p)
      BY <1>0, <3>2 DEF Plugin, Target
    <3>4. dir'[Target(p)] = Contents(got[p])
      BY <1>0, <3>2
    <3> QED
      BY <1>0, <3>2, <3>3, <3>4 DEF Swapped, Swapping
  <2> QED
    BY <2>1, <2>2
<1>3. Target(p)' = Target(p)
  BY <1>2 DEF Target
<1>4. \A i \in Id : i # Target(p) => Matches(i)'
  BY <1>0, <1>1, <1>2 DEF Matches, Installed
<1> QED
  BY <1>0, <1>2, <1>3, <1>4 DEF Lone

\* The lockfile then names what the directory holds.
LEMMA LockLone ==
    ASSUME TypeOK, NEW p \in Proc, Lone(p), \A q \in Proc : q # p => Idle(q)',
           LoadLock(p) \/ SaveLock(p)
    PROVE  Lone(p)'
<1>0. /\ lock \in Lock /\ Target(p) \in Id /\ got[p] \in Artifact
      /\ UNCHANGED dir /\ pc[p] \in {"load", "save"}
      /\ Plugin(p) => dir[Target(p)] = Contents(got[p])
  BY ConstantsAssumption
     DEF LoadLock, SaveLock, Lone, Swapped, TypeOK, Target, Description, project
<1>1. CASE LoadLock(p)
  <2>1. /\ pc'[p] = "save" /\ UNCHANGED <<got, lock>> /\ snap'[p] = lock
    BY <1>1 DEF LoadLock, Lone, Goto, TypeOK, project
  <2>2. Plugin(p)' = Plugin(p) /\ Target(p)' = Target(p)
    BY <2>1 DEF Plugin, Target
  <2>3. Swapped(p)'
    BY <1>0, <2>1, <2>2 DEF Swapped
  <2>4. Swapping(p)' = Swapping(p)
    BY <1>0, <2>1, <2>2 DEF Swapping, LoadLock
  <2>5. \A i \in Id : Matches(i)' = Matches(i)
    BY <1>0, <2>1 DEF Matches, Installed
  <2> QED
    BY <2>1, <2>2, <2>3, <2>4, <2>5 DEF Lone
<1>2. CASE SaveLock(p)
  <2>1. /\ pc'[p] = "idle"
        /\ lock' = [lock EXCEPT ![Target(p)] = [art |-> got[p], trust |-> by[p]]]
    BY <1>2 DEF SaveLock, Lone, Swapped, End, TypeOK
  <2>2. Swapped(p)' /\ ~Swapping(p)'
    BY <2>1 DEF Swapped, Swapping
  <2>3. lock' \in Lock /\ lock' # Corrupt
    <3>1. [art |-> got[p], trust |-> by[p]] \in Entry
      BY <1>0 DEF Entry, TypeOK
    <3> QED
      BY <1>0, <2>1, <3>1, ConstantsAssumption DEF Lock
  <2>4. ASSUME NEW i \in Id PROVE Matches(i)'
    <3>1. CASE i # Target(p)
      <4>1. Matches(i) /\ lock'[i] = lock[i]
        BY <1>0, <2>1, <3>1 DEF Lone, Lock
      <4> QED
        BY <1>0, <4>1 DEF Matches, Installed
    <3>2. CASE i = Target(p)
      <4>1. lock'[i] = [art |-> got[p], trust |-> by[p]]
        BY <1>0, <2>1, <3>2 DEF Lock
      <4>2. lock'[i].art = got[p]
        BY <4>1
      <4> QED
        BY <1>0, <3>2, <4>2 DEF Matches, Installed, Plugin
    <3> QED
      BY <3>1, <3>2
  <2> QED
    BY <2>2, <2>3, <2>4 DEF Lone
<1> QED
  BY <1>1, <1>2

LEMMA NextMatching == ASSUME TypeOK, Safe, Matching, Next PROVE Matching'
<1>1. CASE \/ \E a \in Artifact : Publish(a) \/ Upload(a)
           \/ WriteIndex \/ SignIndex
  <2>1. UNCHANGED <<dir, lock, stage, pc, got, snap, faults, overlap>>
    BY <1>1 DEF Publish, Upload, WriteIndex, SignIndex, project, local, count
  <2> QED
    BY <2>1 DEF Matching, Undisturbed, Alone, Idle, Described, Swapping, Swapped,
                Matches, Installed, Plugin, Target
<1>2. ASSUME NEW p \in Proc, Act(p), Undisturbed' PROVE Matching'
  <2>1. /\ Lone(p) /\ ~Kill(p) /\ ~FileError(p)
        /\ \A q \in Proc : q # p => Idle(q)'
    BY <1>2, OnlyOne
  <2>2. Lone(p)'
    BY <1>2, <2>1, EarlyLone, StagingLone, SwapLone, LockLone DEF Act, Install
  <2> QED
    BY <2>2, LoneMatching
<1> QED
  BY <1>1, <1>2 DEF Next, Act, Matching

LEMMA AlwaysMatching == Spec => []Matching
<1>1. TypeOK /\ Safe /\ Matching /\ [Next]_vars => Matching'
  <2>1. ASSUME Matching, UNCHANGED vars PROVE Matching'
    BY <2>1 DEF vars, project, local, count, Matching, Undisturbed, Alone, Idle, Described,
                Swapping, Swapped, Matches, Installed, Plugin, Target
  <2> QED
    BY <2>1, NextMatching
<1> QED
  BY <1>1, InitMatching, TypeCorrect, AlwaysSafe, PTL DEF Spec

\* While commands run one at a time and none is disturbed, a plugin's directory
\* has the complete payload of the artifact that the lockfile names.
THEOREM DirectoriesDescribed == Spec => []DirectoryMatchesLock
<1>1. Matching => DirectoryMatchesLock
  BY DEF Matching, Undisturbed, Described, Matches, Swapping, Idle, DirectoryMatchesLock
<1> QED
  BY <1>1, AlwaysMatching, PTL

\* For any artifacts, files and processes: a swap leaves nothing behind but what
\* the lockfile names, unless a process is killed.
THEOREM SwapsClean == Spec => []SwapClean
BY DirectoriesDescribed, StagingRemoved, PTL DEF SwapClean
=============================================================================
