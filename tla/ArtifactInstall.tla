--------------------------- MODULE ArtifactInstall ---------------------------
(***************************************************************************)
(* The distribution of signed artifacts: `bp pack publish` and             *)
(* `pack index:build` put artifacts and a signed index on a static host,   *)
(* `bp trust add` and `trust remove` keep the keyring, and                 *)
(* `pack plugin:install`, `rule pack:install` and `skill pack:install`     *)
(* (registry/install.ts over client.ts, artifact.ts, registry-index.ts and *)
(* trust.ts) fetch an artifact, check it and put it into the project.      *)
(*                                                                         *)
(* Every await is a step boundary: the host, the keyring, the plugin       *)
(* directory and the lockfile may change between any two reads.  An        *)
(* artifact is a value with a release, a kind, a signer and a state of     *)
(* repair; its sha256 is taken to be injective, so a hash is the artifact. *)
(***************************************************************************)
EXTENDS Naturals

CONSTANTS
    Proc,        \* bp processes on the consumer's machine
    Artifact,    \* what may ever be published
    Id,          \* artifact ids
    Version,     \* versions, in the order of compareSemver
    File,        \* files of a plugin
    Key,         \* publishers' key pairs
    About,       \* About[a]: what is in artifact a
    IndexKey,    \* the key that `pack index:build` signs with
    Jobs,        \* the install commands that users give
    None,        \* absent: file, entry, signature, pin, index
    Corrupt,     \* a file of bp's own that does not parse
    MaxPublish,  \* bound on the publications
    MaxStarts,   \* bound on the commands
    MaxFaults    \* bound on the kills and on the file errors

\* The manifest of an artifact ("rules" stands for a pack of either kind), who signed it (no one, or the holder of a key),
\* whether its payload matches the manifest and whether its pack document
\* passes the schema and agrees with the manifest.
Description ==
    [id : Id, version : Version, kind : {"plugin", "rules"},
     signer : Key \union {None}, intact : BOOLEAN, valid : BOOLEAN,
     files : SUBSET File]

\* The file name <id>-<version>.bp-pack.tgz.
Release == Id \X Version

\* The index maps a release to the sha256 of its artifact.
Index == [Release -> Artifact \union {None}]

\* The detached signature over one index.
Signature == [over : Index, key : Key]

\* resolveArtifactSource: the configured registry and an id, or a place (a URL,
\* a github: reference or a path) that holds a release.  No command sets
\* expectedSha256, so that only an index pins the artifact.
Job == [from : {"registry", "url"}, release : Release, kind : {"plugin", "rules"},
        allowUnsigned : BOOLEAN, dryRun : BOOLEAN]

\* trust.json: the names of the keys, and policy.require_signature.
TrustStore == [keys : SUBSET Key, strict : BOOLEAN]

\* The trust decision that a lock entry records: a key or "unsigned-accepted".
Entry == [art : Artifact, trust : Key \union {None}]

Lock == [Id -> Entry \union {None}]

Directory == [File -> Artifact \union {None}]

ASSUME ConstantsAssumption ==
    /\ Proc # {} /\ Artifact # {} /\ Id # {}
    /\ Version \subseteq Nat
    /\ About \in [Artifact -> Description]
    /\ \A a \in Artifact : About[a].files # {}
    /\ IndexKey \in Key
    /\ Jobs \subseteq Job /\ Jobs # {}
    /\ None \notin Artifact \union Key \union Index \union Entry \union Signature
    /\ Corrupt \notin Lock \union TrustStore
    /\ MaxPublish \in Nat /\ MaxStarts \in Nat /\ MaxFaults \in Nat

VARIABLES
    hosted,      \* the artifact at each release's URL
    entries,     \* the publisher's *.index-entry.json
    index,       \* index.json on the host
    sig,         \* index.sig on the host
    trust,       \* ~/.bp/trust.json
    dir,         \* .bp/plugins/<id>
    lock,        \* .bp/packs.lock.json
    pc,          \* where each process stands
    job,         \* its install command
    ring,        \* the trust store that it has read, or is about to write
    doc,         \* the index.json that it has fetched
    seal,        \* the index.sig that it has fetched
    pin,         \* the sha256 that the artifact must have
    got,         \* the artifact that it has fetched
    by,          \* its trust decision
    stage,       \* .bp/plugins/<id>.staging-<pid>
    snap,        \* the lockfile, as it has read it
    published, starts, faults,       \* counters of the bounds
    kills,       \* history: some process has been killed
    overlap,     \* history: a command has begun while another one ran
    trusted,     \* history: keys that were ever in the keyring
    waived,      \* history: unsigned artifacts that a user or the policy let in
    listed       \* history: artifacts that a signed index has named

host == <<hosted, entries, index, sig, published, listed>>
project == <<dir, lock, stage>>
local == <<job, ring, doc, seal, pin, got, by, snap>>
count == <<starts, faults, kills, overlap>>
vars == <<host, trust, project, pc, local, count, trusted, waived>>

-----------------------------------------------------------------------------
NoIndex == [r \in Release |-> None]
Absent == [f \in File |-> None]
Contents(a) == [f \in File |-> IF f \in About[a].files THEN a ELSE None]
NoLock == [i \in Id |-> None]
EmptyStore == [keys |-> {}, strict |-> TRUE]
BlankJob == CHOOSE j \in Jobs : TRUE
BlankArtifact == CHOOSE a \in Artifact : TRUE
ReleaseOf(a) == <<About[a].id, About[a].version>>

Idle(p) == pc[p] = "idle"

\* The id whose plugin directory and lock entry a process works on.
Target(p) == About[got[p]].id

\* A command begins.
Start(p) ==
    /\ Idle(p)
    /\ starts < MaxStarts
    /\ starts' = starts + 1
    /\ overlap' = (overlap \/ \E q \in Proc : ~Idle(q))

Init ==
    /\ hosted = NoIndex /\ entries = NoIndex /\ index = None /\ sig = None
    /\ trust \in TrustStore
    /\ dir = [i \in Id |-> Absent] /\ lock = NoLock
    /\ stage = [p \in Proc |-> Absent]
    /\ pc = [p \in Proc |-> "idle"]
    /\ job = [p \in Proc |-> BlankJob]
    /\ ring = [p \in Proc |-> EmptyStore]
    /\ doc = [p \in Proc |-> None] /\ seal = [p \in Proc |-> None]
    /\ pin = [p \in Proc |-> None]
    /\ got = [p \in Proc |-> BlankArtifact]
    /\ by = [p \in Proc |-> None]
    /\ snap = [p \in Proc |-> NoLock]
    /\ published = 0 /\ starts = 0 /\ faults = 0
    /\ kills = FALSE /\ overlap = FALSE
    /\ trusted = trust.keys /\ waived = {} /\ listed = {}

-----------------------------------------------------------------------------
(* The publisher and the host *)

\* publishArtifact: a plugin bundle, or a pack that loads, is built and signed;
\* its tarball and its index entry go to the directory that is then uploaded.
\* (A pack is read once more after it has loaded; that it is the same is assumed.)
Publish(a) ==
    /\ published < MaxPublish
    /\ About[a].intact /\ About[a].signer # None
    /\ About[a].kind = "rules" => About[a].valid
    /\ hosted' = [hosted EXCEPT ![ReleaseOf(a)] = a]
    /\ entries' = [entries EXCEPT ![ReleaseOf(a)] = a]
    /\ published' = published + 1
    /\ UNCHANGED <<index, sig, listed, trust, project, pc, local, count, trusted, waived>>

\* Anything else that comes to be served from a release's URL: an unsigned
\* artifact, a damaged one, one of another publisher.
Upload(a) ==
    /\ published < MaxPublish
    /\ hosted[ReleaseOf(a)] # a
    /\ hosted' = [hosted EXCEPT ![ReleaseOf(a)] = a]
    /\ published' = published + 1
    /\ UNCHANGED <<entries, index, sig, listed, trust, project, pc, local, count,
                   trusted, waived>>

\* pack index:build writes index.json and then index.sig.
WriteIndex ==
    /\ entries # NoIndex /\ entries # index
    /\ index' = entries
    /\ UNCHANGED <<hosted, entries, sig, published, listed, trust, project, pc, local,
                   count, trusted, waived>>

SignIndex ==
    /\ index # None
    /\ sig' = [over |-> index, key |-> IndexKey]
    /\ sig' # sig
    /\ listed' = listed \union ({index[r] : r \in Release} \ {None})
    /\ UNCHANGED <<hosted, entries, index, published, trust, project, pc, local, count,
                   trusted, waived>>

-----------------------------------------------------------------------------
(* One install *)

\* The command returns or throws: what it held in memory is gone.
End(p) ==
    /\ pc' = [pc EXCEPT ![p] = "idle"]
    /\ job' = [job EXCEPT ![p] = BlankJob]
    /\ ring' = [ring EXCEPT ![p] = EmptyStore]
    /\ doc' = [doc EXCEPT ![p] = None]
    /\ seal' = [seal EXCEPT ![p] = None]
    /\ pin' = [pin EXCEPT ![p] = None]
    /\ got' = [got EXCEPT ![p] = BlankArtifact]
    /\ by' = [by EXCEPT ![p] = None]
    /\ snap' = [snap EXCEPT ![p] = NoLock]

Goto(p, step) == pc' = [pc EXCEPT ![p] = step]

Begin(p, j) ==
    /\ Start(p)
    /\ job' = [job EXCEPT ![p] = j]
    /\ Goto(p, IF j.from = "registry" THEN "keys" ELSE "fetch")
    /\ UNCHANGED <<host, trust, project, ring, doc, seal, pin, got, by, snap, faults,
                   kills, trusted, waived>>

\* fetchRegistryIndex: the keyring first, then index.json and index.sig at once.
ReadKeys(p) ==
    /\ pc[p] = "keys"
    /\ \/ /\ trust = Corrupt
          /\ End(p)
       \/ /\ trust # Corrupt
          /\ ring' = [ring EXCEPT ![p] = trust]
          /\ Goto(p, "index")
          /\ UNCHANGED <<job, doc, seal, pin, got, by, snap>>
    /\ UNCHANGED <<host, trust, project, count, trusted, waived>>

FetchIndex(p) ==
    /\ pc[p] = "index" /\ doc[p] = None /\ index # None
    /\ doc' = [doc EXCEPT ![p] = index]
    /\ UNCHANGED <<host, trust, project, pc, job, ring, seal, pin, got, by, snap, count,
                   trusted, waived>>

FetchSignature(p) ==
    /\ pc[p] = "index" /\ seal[p] = None /\ sig # None
    /\ seal' = [seal EXCEPT ![p] = sig]
    /\ UNCHANGED <<host, trust, project, pc, job, ring, doc, pin, got, by, snap, count,
                   trusted, waived>>
\* findIndexEntry: the highest version that the index lists for the id.
Listed(x, i) == {r \in Release : r[1] = i /\ x[r] # None}
Newest(x, i) == {r \in Listed(x, i) : \A s \in Listed(x, i) : s[2] <= r[2]}

\* verifyIndex: the signature is over this index, by a key of the keyring.
IndexTrusted(p) == seal[p].over = doc[p] /\ seal[p].key \in ring[p].keys

\* The entry's URL is fetched next and its sha256 is the pin.
ResolveIndex(p) ==
    /\ pc[p] = "index" /\ doc[p] # None /\ seal[p] # None
    /\ \/ /\ IndexTrusted(p)
          /\ \E r \in Newest(doc[p], job[p].release[1]) :
                /\ job' = [job EXCEPT ![p].release = r]
                /\ pin' = [pin EXCEPT ![p] = doc[p][r]]
          /\ Goto(p, "fetch")
          /\ UNCHANGED <<ring, doc, seal, got, by, snap>>
       \/ /\ ~IndexTrusted(p) \/ Listed(doc[p], job[p].release[1]) = {}
          /\ End(p)
    /\ UNCHANGED <<host, trust, project, count, trusted, waived>>

\* A refused URL, an HTTP error, a redirect too many, a body above the cap or
\* the 30 s timer: fetchRemote throws.
FetchFails(p) ==
    /\ pc[p] \in {"index", "fetch"}
    /\ End(p)
    /\ UNCHANGED <<host, trust, project, count, trusted, waived>>

\* Mutant of Expected: the hash is not compared.
ExpectedUnpinned(p, a) == About[a].kind = job[p].kind

\* The checks between the download and the next await: the pinned hash and
\* assertExpectedKind.
Expected(p, a) == (pin[p] = None \/ pin[p] = a) /\ About[a].kind = job[p].kind

\* Mutant: an HTTP error is taken for an empty body.
FetchArtifactUnchecked(p) ==
    /\ pc[p] = "fetch"
    /\ got' = [got EXCEPT ![p] = hosted[job[p].release]]
    /\ Goto(p, "decide")
    /\ UNCHANGED <<job, ring, doc, seal, pin, by, snap>>
    /\ UNCHANGED <<host, trust, project, count, trusted, waived>>

FetchArtifact(p) ==
    /\ pc[p] = "fetch"
    /\ hosted[job[p].release] # None
    /\ \/ /\ Expected(p, hosted[job[p].release])
          /\ got' = [got EXCEPT ![p] = hosted[job[p].release]]
          /\ Goto(p, "decide")
          /\ UNCHANGED <<job, ring, doc, seal, pin, by, snap>>
       \/ /\ ~Expected(p, hosted[job[p].release])
          /\ End(p)
    /\ UNCHANGED <<host, trust, project, count, trusted, waived>>

\* What follows the trust decision: --dry-run ends here; a plugin goes to its
\* staging directory; a pack must load and agree with its manifest first.
Materialize(p) ==
    \/ /\ ~job[p].dryRun /\ About[got[p]].kind = "plugin"
       /\ Goto(p, "clear")
       /\ UNCHANGED <<job, ring, doc, seal, pin, got, snap>>
    \/ /\ ~job[p].dryRun /\ About[got[p]].kind = "rules" /\ About[got[p]].valid
       /\ Goto(p, "load")
       /\ UNCHANGED <<job, ring, doc, seal, pin, got, snap>>

EndsHere(p) == job[p].dryRun \/ (About[got[p]].kind = "rules" /\ ~About[got[p]].valid)

\* Mutant: a signature that does not verify counts as none.
DecideLenient(p) ==
    /\ pc[p] = "decide"
    /\ trust # Corrupt /\ About[got[p]].intact
    /\ \/ /\ About[got[p]].signer \in trust.keys
          /\ Materialize(p)
          /\ by' = [by EXCEPT ![p] = About[got[p]].signer]
       \/ /\ About[got[p]].signer \notin trust.keys
          /\ Goto(p, "policy")
          /\ UNCHANGED <<job, ring, doc, seal, pin, got, by, snap>>
    /\ UNCHANGED <<host, trust, project, count, trusted, waived>>

\* decideTrust reads the keyring: verifyArtifact throws on a payload that does
\* not match, and on a signature that no trusted key made, whatever the options.
Decide(p) ==
    /\ pc[p] = "decide"
    /\ \/ /\ trust # Corrupt /\ About[got[p]].intact
          /\ About[got[p]].signer \in trust.keys
          /\ \/ /\ Materialize(p)
                /\ by' = [by EXCEPT ![p] = About[got[p]].signer]
             \/ /\ EndsHere(p)
                /\ End(p)
       \/ /\ trust # Corrupt /\ About[got[p]].intact
          /\ About[got[p]].signer = None
          /\ Goto(p, "policy")
          /\ UNCHANGED <<job, ring, doc, seal, pin, got, by, snap>>
       \/ /\ ~(/\ trust # Corrupt /\ About[got[p]].intact
                /\ About[got[p]].signer \in trust.keys \union {None})
          /\ End(p)
    /\ UNCHANGED <<host, trust, project, count, trusted, waived>>

\* An unsigned artifact needs --allow-unsigned or a policy that does not ask for
\* signatures, which decideTrust reads from the trust store once more.
Waived(p) == job[p].allowUnsigned \/ ~trust.strict

Policy(p) ==
    /\ pc[p] = "policy"
    /\ \/ /\ trust # Corrupt /\ Waived(p)
          /\ waived' = waived \union {got[p]}
          /\ \/ Materialize(p) /\ UNCHANGED by
             \/ EndsHere(p) /\ End(p)
       \/ /\ ~(trust # Corrupt /\ Waived(p))
          /\ End(p)
          /\ UNCHANGED waived
    /\ UNCHANGED <<host, trust, project, count, trusted>>

\* Mutant of Clear: what a killed process of the same pid has left stays.
ClearNothing(p) ==
    /\ pc[p] = "clear"
    /\ Goto(p, "stage")
    /\ UNCHANGED <<host, trust, project, local, count, trusted, waived>>

\* installPluginArtifact: an old staging directory of this pid is removed,
Clear(p) ==
    /\ pc[p] = "clear"
    /\ stage' = [stage EXCEPT ![p] = Absent]
    /\ Goto(p, "stage")
    /\ UNCHANGED <<host, trust, dir, lock, local, count, trusted, waived>>

\* Mutant of Stage: the writes are not awaited.
StageUnawaited(p) ==
    /\ pc[p] = "stage"
    /\ \E f \in About[got[p]].files : stage' = [stage EXCEPT ![p][f] = got[p]]
    /\ Goto(p, "remove")
    /\ UNCHANGED <<host, trust, dir, lock, local, count, trusted, waived>>

\* the payload is written there file by file,
Stage(p) ==
    /\ pc[p] = "stage"
    /\ \/ \E f \in About[got[p]].files :
             /\ stage[p][f] # got[p]
             /\ stage' = [stage EXCEPT ![p][f] = got[p]]
             /\ UNCHANGED pc
       \/ /\ \A f \in About[got[p]].files : stage[p][f] = got[p]
          /\ Goto(p, "remove")
          /\ UNCHANGED stage
    /\ UNCHANGED <<host, trust, dir, lock, local, count, trusted, waived>>

\* the installed directory is removed, one file after the other,
RemoveTarget(p) ==
    /\ pc[p] = "remove"
    /\ \/ \E f \in File :
             /\ dir[Target(p)][f] # None
             /\ dir' = [dir EXCEPT ![Target(p)][f] = None]
             /\ UNCHANGED pc
       \/ /\ dir[Target(p)] = Absent
          /\ Goto(p, "rename")
          /\ UNCHANGED dir
    /\ UNCHANGED <<host, trust, stage, lock, local, count, trusted, waived>>

\* and the staging directory takes its name; that fails if another install has
\* put a directory there meanwhile, and the staging directory is removed.
Rename(p) ==
    /\ pc[p] = "rename"
    /\ stage' = [stage EXCEPT ![p] = Absent]
    /\ \/ /\ dir[Target(p)] = Absent
          /\ dir' = [dir EXCEPT ![Target(p)] = stage[p]]
          /\ Goto(p, "load")
          /\ UNCHANGED local
       \/ /\ dir[Target(p)] # Absent
          /\ End(p)
          /\ UNCHANGED dir
    /\ UNCHANGED <<host, trust, lock, count, trusted, waived>>

\* Mutant of FileError: nothing is cleaned up.
FileErrorUncaught(p) ==
    /\ pc[p] \in {"clear", "stage", "remove", "rename"}
    /\ faults < MaxFaults
    /\ faults' = faults + 1
    /\ End(p)
    /\ UNCHANGED <<host, trust, project, starts, kills, overlap, trusted, waived>>

\* A file error (a full disk, a permission) while staging or swapping.
FileError(p) ==
    /\ pc[p] \in {"clear", "stage", "remove", "rename"}
    /\ faults < MaxFaults
    /\ faults' = faults + 1
    /\ stage' = [stage EXCEPT ![p] = Absent]
    /\ End(p)
    /\ UNCHANGED <<host, trust, dir, lock, starts, kills, overlap, trusted, waived>>

\* loadPackLock, and savePackLock with this id's entry replaced.
LoadLock(p) ==
    /\ pc[p] = "load"
    /\ \/ /\ lock # Corrupt
          /\ snap' = [snap EXCEPT ![p] = lock]
          /\ Goto(p, "save")
          /\ UNCHANGED <<job, ring, doc, seal, pin, got, by>>
       \/ /\ lock = Corrupt
          /\ End(p)
    /\ UNCHANGED <<host, trust, project, count, trusted, waived>>

\* Mutant: an upgrade keeps the provenance of the entry that it replaces.
SaveLockMerged(p) ==
    /\ pc[p] = "save"
    /\ LET old == snap[p][Target(p)]
       IN  lock' = [snap[p] EXCEPT ![Target(p)] =
                      [art |-> got[p], trust |-> IF old = None THEN by[p] ELSE old.trust]]
    /\ End(p)
    /\ UNCHANGED <<host, trust, dir, stage, count, trusted, waived>>

SaveLock(p) ==
    /\ pc[p] = "save"
    /\ lock' = [snap[p] EXCEPT ![Target(p)] = [art |-> got[p], trust |-> by[p]]]
    /\ End(p)
    /\ UNCHANGED <<host, trust, dir, stage, count, trusted, waived>>

Install(p) ==
    \/ ReadKeys(p) \/ FetchIndex(p) \/ FetchSignature(p) \/ ResolveIndex(p)
    \/ FetchFails(p) \/ FetchArtifact(p) \/ Decide(p) \/ Policy(p)
    \/ Clear(p) \/ Stage(p) \/ RemoveTarget(p) \/ Rename(p) \/ FileError(p)
    \/ LoadLock(p) \/ SaveLock(p)

-----------------------------------------------------------------------------
(* The keyring *)

\* addTrustedKey and removeTrustedKey read the store and change it in memory;
\* a store that does not parse, a name that exists or does not, makes them throw.
LoadTrust(p, ks) ==
    /\ Start(p)
    /\ trust # Corrupt
    /\ \E k \in Key : ks = trust.keys \union {k} \/ ks = trust.keys \ {k}
    /\ ks # trust.keys
    /\ ring' = [ring EXCEPT ![p] = [trust EXCEPT !.keys = ks]]
    /\ Goto(p, "trust")
    /\ UNCHANGED <<host, trust, project, job, doc, seal, pin, got, by, snap, faults,
                   kills, trusted, waived>>

\* saveTrustStore
SaveTrust(p) ==
    /\ pc[p] = "trust"
    /\ trust' = ring[p]
    /\ trusted' = trusted \union ring[p].keys
    /\ End(p)
    /\ UNCHANGED <<host, project, count, waived>>

-----------------------------------------------------------------------------
\* A process is killed between two steps, or while it writes the lockfile or
\* the trust store, which are written in place.
Kill(p) ==
    /\ ~Idle(p)
    /\ faults < MaxFaults
    /\ faults' = faults + 1
    /\ kills' = TRUE
    /\ lock' \in {lock} \union IF pc[p] = "save" THEN {Corrupt} ELSE {}
    /\ trust' \in {trust} \union IF pc[p] = "trust" THEN {Corrupt} ELSE {}
    /\ End(p)
    /\ UNCHANGED <<host, dir, stage, starts, overlap, trusted, waived>>

Next ==
    \/ \E a \in Artifact : Publish(a) \/ Upload(a)
    \/ WriteIndex \/ SignIndex
    \/ \E p \in Proc :
          \/ Install(p) \/ SaveTrust(p) \/ Kill(p)
          \/ \E j \in Jobs : Begin(p, j)
          \/ \E ks \in SUBSET Key : LoadTrust(p, ks)

Spec == Init /\ [][Next]_vars
-----------------------------------------------------------------------------
(* Properties *)

Steps == {"idle", "keys", "index", "fetch", "decide", "policy", "clear", "stage",
          "remove", "rename", "load", "save", "trust"}

\* Every variable keeps its shape, and a process that materializes an artifact
\* holds one of the kind that its command asked for.
TypeOK ==
    /\ hosted \in Index /\ entries \in Index /\ listed \subseteq Artifact
    /\ index \in Index \union {None} /\ sig \in Signature \union {None}
    /\ trust \in TrustStore \union {Corrupt}
    /\ dir \in [Id -> Directory] /\ stage \in [Proc -> Directory]
    /\ lock \in Lock \union {Corrupt}
    /\ pc \in [Proc -> Steps]
    /\ job \in [Proc -> Job] /\ ring \in [Proc -> TrustStore]
    /\ doc \in [Proc -> Index \union {None}]
    /\ seal \in [Proc -> Signature \union {None}]
    /\ pin \in [Proc -> Artifact \union {None}] /\ got \in [Proc -> Artifact]
    /\ by \in [Proc -> Key \union {None}] /\ snap \in [Proc -> Lock]
    /\ published \in 0 .. MaxPublish /\ starts \in 0 .. MaxStarts /\ faults \in 0 .. MaxFaults
    /\ kills \in BOOLEAN /\ overlap \in BOOLEAN
    /\ trusted \subseteq Key /\ waived \subseteq Artifact

\* An artifact may be in the project: its payload is the manifest's, and either
\* a key that was in the keyring signed it, or it is unsigned and the user or
\* the policy let it in.
Verified(a) ==
    /\ About[a].intact
    /\ IF About[a].signer = None THEN a \in waived ELSE About[a].signer \in trusted

\* Distribution never bypasses verification: whatever is served, however
\* publishers, the keyring, installs, kills and torn files interleave, only
\* verified artifacts get into a staging or plugin directory or the lockfile.
OnlyVerified ==
    /\ \A p \in Proc, f \in File : stage[p][f] # None => Verified(stage[p][f])
    /\ \A i \in Id, f \in File : dir[i][f] # None => Verified(dir[i][f])
    /\ lock # Corrupt => \A i \in Id : lock[i] # None => Verified(lock[i].art)

\* The lock entry says of an artifact what was decided about it.
TrustRecorded ==
    lock # Corrupt =>
        \A i \in Id : lock[i] # None =>
            About[lock[i].art].id = i /\ lock[i].trust = About[lock[i].art].signer

\* A plugin directory never mixes the files of two artifacts, however two
\* installs, their kills and their leftovers interleave.
NeverMixed ==
    \A i \in Id, f, g \in File :
        dir[i][f] # None /\ dir[i][g] # None => dir[i][f] = dir[i][g]

\* What is installed through the registry was named by an index that the
\* registry's key signed, although the index, its signature and the artifact
\* are replaced on the host at different times.
RegistryListed ==
    \A p \in Proc :
        pc[p] \notin {"idle", "keys", "index", "fetch", "trust"} /\ job[p].from = "registry" =>
            got[p] \in listed

\* OnlyVetted: nothing gets into the project that was not verified, listed where
\* the registry had to list it, and recorded as what it is (registry/install.ts:160-226).
OnlyVetted == OnlyVerified /\ TrustRecorded /\ RegistryListed

\* A failed install leaves no partial files: unless a process was killed, a
\* staging directory exists only while its install is at work on it.
NoLeftovers ==
    ~kills => \A p \in Proc :
                 stage[p] # Absent => pc[p] \in {"stage", "remove", "rename"}

\* If commands have run one at a time and none was killed or met a file error,
\* the lockfile describes the plugin directories: each has the complete payload
\* of the artifact that its entry names.
Installed(i) == lock[i] # None /\ About[lock[i].art].kind = "plugin"

DirectoryMatchesLock ==
    ~overlap /\ faults = 0 /\ (\A p \in Proc : Idle(p)) =>
        \A i \in Id : Installed(i) => dir[i] = Contents(lock[i].art)

\* SwapClean: staging and swapping leave nothing behind but what the lockfile
\* names, unless a process is killed (registry/install.ts:252-282).
SwapClean == NoLeftovers /\ DirectoryMatchesLock
=============================================================================
