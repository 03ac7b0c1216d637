------------------------------- MODULE Deploy -------------------------------
(***************************************************************************)
(* main.ts and build.ts: deploys of one project, from provisioning to the  *)
(* upload, while other deploys, logins and logouts run and the site's own  *)
(* build replaces the asset files.  Of sproutboat.jsonc, the ids of the    *)
(* storage bindings.                                                       *)
(*                                                                         *)
(* An artifact is named by the configuration and the assets it is built    *)
(* from, as its directory is; so two deploys of the same input build in    *)
(* one directory, one after the other, under its lock.  The lock is not    *)
(* held while the result is read for the upload.  A waiting build removes  *)
(* a lock that it finds older than 15 minutes; how long a build takes has  *)
(* no limit (that of the default channel's compiler has none), so in this  *)
(* module, which has no clock, any lock may be found that old.             *)
(***************************************************************************)
EXTENDS Credentials, Naturals

CONSTANTS
  Deployer,   \* the concurrent calls of deploy
  Binding,    \* the storage bindings of the project, all without an id
  MaxSites,   \* how many times the asset files are replaced
  Partial,    \* assets that are not those of one build of the site
  Cached      \* the binary every build of an artifact gets from the cache

\* A store of the account, at one control plane, named after its binding; by
\* tells apart two of the same name.
Store == [at : Endpoint, for : Binding, by : Deployer]

ASSUME DeployAssumption ==
  /\ MaxSites \in Nat
  /\ {Partial, Cached} \cap (Nat \cup Deployer \cup {None}) = {}
  /\ None \notin Store

Ids == [Binding -> Store \cup {None}]
Artifact == [ids : Ids, site : 0 .. MaxSites]
Binary == Deployer \cup {Cached}

\* An artifact directory: the binary, the one its manifest is about, and the
\* assets.
Directory == [sprout : Binary \cup {None}, manifest : Binary \cup {None},
              assets : 0 .. MaxSites \cup {Partial, None}]
NoDirectory == [sprout |-> None, manifest |-> None, assets |-> None]

\* What a deploy has in memory: whether it provisions (not with --no-provision
\* or --dry-run) and whether its build bypasses the compile cache; the
\* configuration it has read last, in which provisionBindings pins ids; the
\* endpoint it has resolved; the artifact of its build; what it has read of it for the
\* upload; and, for a property, whether another build took the directory since.
Memory == [provision : BOOLEAN, fresh : BOOLEAN, source : Ids \cup {None},
           at : Endpoint \cup {None}, built : Artifact \cup {None},
           form : Directory, disturbed : BOOLEAN]
NoMemory == [provision |-> FALSE, fresh |-> FALSE, source |-> None, at |-> None,
             built |-> None, form |-> NoDirectory, disturbed |-> FALSE]

VARIABLES
  config,    \* the ids in sproutboat.jsonc
  site,      \* which build of the site is in the assets directory
  stores,    \* what the control planes have
  versions,  \* what was uploaded, everywhere
  dirs,      \* the artifact directories there are
  locked,    \* the artifacts whose directory is locked
  robbed,    \* those whose lock was removed while a build held it (history)
  at,        \* where each deploy is in its code
  mem        \* what it has in memory

project == <<config, site>>
planes == <<stores, versions>>
folders == <<dirs, locked, robbed>>
deployVars == <<project, planes, folders, at, mem, credentialVars>>

\* Where a deploy is while it provisions, holds a directory, and reads it.
Provisioning == {"locate", "token", "provision", "pin"}
Building == {"compile", "stamp", "clear", "copy", "list", "unlock", "giveup"}
Reading == {"endpoint", "credential", "manifest", "sprout", "assets"}
Place == {"idle", "read", "project", "prepare", "wait", "break", "upload", "done"}
           \cup Provisioning \cup Building \cup Reading

Step(p, from, to) == at[p] = from /\ at' = [at EXCEPT ![p] = to]
Leaves(p, from) == Step(p, from, "done") /\ mem' = [mem EXCEPT ![p] = NoMemory]

BareIn(ids) == {b \in Binding : ids[b] = None}

DeployInit ==
  /\ Init
  /\ config = [b \in Binding |-> None] /\ site = 0
  /\ stores = {} /\ versions = {}
  /\ dirs = <<>> /\ locked = {} /\ robbed = {}
  /\ at \in [Deployer -> {"idle", "done"}]
  /\ mem = [p \in Deployer |-> NoMemory]

(***************************************************************************)
(* provisionBindings                                                       *)
(***************************************************************************)
Start(p) ==
  /\ \E provision, fresh \in BOOLEAN :
       /\ Step(p, "idle", IF provision THEN "read" ELSE "project")
       /\ mem' = [mem EXCEPT ![p].provision = provision, ![p].fresh = fresh]
  /\ UNCHANGED <<project, planes, folders, credentialVars>>

\* The configuration is read; nothing to do if every binding has its id.
ReadConfig(p) ==
  /\ Step(p, "read", IF BareIn(config) = {} THEN "project" ELSE "locate")
  /\ mem' = [mem EXCEPT ![p].source = IF BareIn(config) = {} THEN None ELSE config]
  /\ UNCHANGED <<project, planes, folders, credentialVars>>

\* apiCredentials reads the credentials twice: for the endpoint, then for its
\* token.  In provisionBindings ("locate", "token"), and again before the upload
\* ("endpoint", "credential").
Locate(p) ==
  /\ Step(p, "locate", "token") \/ Step(p, "endpoint", "credential")
  /\ mem' = [mem EXCEPT ![p].at = Resolve(file)]
  /\ UNCHANGED <<project, planes, folders, credentialVars>>

HasToken(p) ==
  /\ mem[p].at \in file.tokens
  /\ Step(p, "token", "provision") \/ Step(p, "credential", "manifest")
  /\ UNCHANGED <<project, planes, folders, mem, credentialVars>>

\* "not logged in; ..."
NoToken(p) ==
  /\ mem[p].at \notin file.tokens
  /\ Leaves(p, "token") \/ Leaves(p, "credential")
  /\ UNCHANGED <<project, planes, folders, credentialVars>>

Named(e, b) == {s \in stores : s.at = e /\ s.for = b}
NewStore(p, b) == [at |-> mem[p].at, for |-> b, by |-> p]

\* What a request for a store may give: with ifExists: "return", the one that
\* has the name already.
CreateOrFind(p, b) ==
  IF Named(mem[p].at, b) = {} THEN {NewStore(p, b)} ELSE Named(mem[p].at, b)

\* One request after the other.
Provision(p) ==
  /\ at[p] = "provision"
  /\ \E b \in BareIn(mem[p].source) : \E s \in CreateOrFind(p, b) :
       /\ Step(p, "provision", IF BareIn(mem[p].source) = {b} THEN "pin" ELSE "provision")
       /\ stores' = stores \cup {s}
       /\ mem' = [mem EXCEPT ![p].source[b] = s]
  /\ UNCHANGED <<project, versions, folders, credentialVars>>

\* A request fails, perhaps after the store was made; what was made so far is
\* not written down anywhere.
ProvisionFails(p) ==
  /\ Leaves(p, "provision")
  /\ \E b \in BareIn(mem[p].source) : \E s \in CreateOrFind(p, b) :
       stores' \in {stores, stores \cup {s}}
  /\ UNCHANGED <<project, versions, folders, credentialVars>>

\* Mutant: the ids are not written back before the build reads the file again.
PinConfigLate(p) ==
  /\ Step(p, "pin", "project")
  /\ mem' = [mem EXCEPT ![p].source = None, ![p].at = None]
  /\ UNCHANGED <<project, planes, folders, credentialVars>>

\* What was read at the start is written back with the ids, over whatever the
\* file holds by now.
PinConfig(p) ==
  /\ Step(p, "pin", "project")
  /\ config' = mem[p].source
  /\ mem' = [mem EXCEPT ![p].source = None, ![p].at = None]
  /\ UNCHANGED <<site, planes, folders, credentialVars>>

(***************************************************************************)
(* build                                                                   *)
(***************************************************************************)
\* readProject reads the configuration again and bundles the handler.
ReadProject(p) ==
  /\ Step(p, "project", "prepare")
  /\ mem' = [mem EXCEPT ![p].source = config]
  /\ UNCHANGED <<project, planes, folders, credentialVars>>

\* prepareBuild lists the asset files with their digests: together they name the
\* artifact.
Prepare(p) ==
  /\ Step(p, "prepare", "wait")
  /\ mem' = [mem EXCEPT ![p].source = None, ![p].built = [ids |-> mem[p].source, site |-> site]]
  /\ UNCHANGED <<project, planes, folders, credentialVars>>

\* The project does not build, or its assets cannot be listed.
BuildFails(p) ==
  /\ Leaves(p, "project") \/ Leaves(p, "prepare")
  /\ UNCHANGED <<project, planes, folders, credentialVars>>

Dir(p) == dirs[mem[p].built]
SetDir(p, d) ==
  dirs' = [a \in DOMAIN dirs \cup {mem[p].built} |-> IF a = mem[p].built THEN d ELSE dirs[a]]

\* The directory is p's, made if it is not there.
TakeLock(p) ==
  /\ mem[p].built \notin locked
  /\ Step(p, "wait", "compile")
  /\ locked' = locked \cup {mem[p].built}
  /\ SetDir(p, IF mem[p].built \in DOMAIN dirs THEN Dir(p) ELSE NoDirectory)
  /\ mem' = [q \in Deployer |->
               [mem[q] EXCEPT !.disturbed =
                  @ \/ (q # p /\ at[q] \in Reading /\ mem[q].built = mem[p].built)]]
  /\ UNCHANGED <<project, planes, robbed, credentialVars>>

\* "timed out waiting for artifact lock ..."
LockTimeout(p) ==
  /\ mem[p].built \in locked
  /\ Leaves(p, "wait")
  /\ UNCHANGED <<project, planes, folders, credentialVars>>

\* The lock that is there was made more than 15 minutes ago.
FindStale(p) ==
  /\ mem[p].built \in locked
  /\ Step(p, "wait", "break")
  /\ UNCHANGED <<project, planes, folders, mem, credentialVars>>

\* Whatever lock is there by now is removed: one that was left behind, or that
\* of a build under way.
BreakLock(p) ==
  /\ Step(p, "break", "wait")
  /\ locked' = locked \ {mem[p].built}
  /\ robbed' = robbed \cup {mem[q].built : q \in {r \in Deployer :
                               at[r] \in Building /\ mem[r].built = mem[p].built}}
  /\ UNCHANGED <<project, planes, dirs, mem, credentialVars>>

\* The rest of buildArtifact changes nothing but the directory.
InDirectory(p, from, to, d) ==
  Step(p, from, to) /\ SetDir(p, d) /\ UNCHANGED <<project, planes, locked, robbed, mem, credentialVars>>

\* The cached binary, or one of its own, renamed into place.
Compile(p) ==
  InDirectory(p, "compile", "stamp",
              [Dir(p) EXCEPT !.sprout = IF mem[p].fresh THEN p ELSE Cached])
CompileFails(p) == InDirectory(p, "compile", "giveup", Dir(p))

\* manifest.json, with the digest of the binary that is there.
WriteManifest(p) ==
  InDirectory(p, "stamp", "clear", [Dir(p) EXCEPT !.manifest = Dir(p).sprout])

\* The assets are removed and copied again, file by file.
ClearAssets(p) == InDirectory(p, "clear", "copy", [Dir(p) EXCEPT !.assets = Partial])

\* Whole, or with files missing or of two builds of the site.
CopyAssets(p) ==
  \E copy \in {site, Partial} : InDirectory(p, "copy", "list", [Dir(p) EXCEPT !.assets = copy])

\* Mutant: what was copied is not compared with what was listed.
ListUnchecked(p) == InDirectory(p, "list", "unlock", Dir(p))

\* assets.json is written if the copy is what was listed.  "assets changed
\* during the build; ..." otherwise, and the directory stays as it is.
ListAssets(p) ==
  /\ at[p] = "list" /\ Dir(p).assets = mem[p].built.site
  /\ InDirectory(p, "list", "unlock", Dir(p))
AssetsChanged(p) ==
  /\ at[p] = "list" /\ Dir(p).assets # mem[p].built.site
  /\ InDirectory(p, "list", "giveup", Dir(p))

\* The lock that is there is removed, whoever made it.
Unlock(p) ==
  /\ (Step(p, "unlock", "endpoint") /\ UNCHANGED mem) \/ Leaves(p, "giveup")
  /\ locked' = locked \ {mem[p].built}
  /\ UNCHANGED <<project, planes, dirs, robbed, credentialVars>>

\* The build is killed; the directory and its lock stay as they are.
Killed(p) ==
  /\ \E place \in Building : Leaves(p, place)
  /\ UNCHANGED <<project, planes, folders, credentialVars>>

(***************************************************************************)
(* The upload                                                              *)
(***************************************************************************)
\* --dry-run ends after the report.
DryRun(p) ==
  /\ ~mem[p].provision
  /\ Leaves(p, "endpoint")
  /\ UNCHANGED <<project, planes, folders, credentialVars>>

Take(p, from, to, field) ==
  /\ Step(p, from, to)
  /\ mem' = [mem EXCEPT ![p].form[field] = Dir(p)[field]]
  /\ UNCHANGED <<project, planes, folders, credentialVars>>

\* The form is filled from the directory, one file after the other, unlocked.
TakeManifest(p) == Take(p, "manifest", "sprout", "manifest")
TakeSprout(p) == Take(p, "sprout", "assets", "sprout")
TakeAssets(p) == Take(p, "assets", "upload", "assets")

\* A file that assets.json lists may be missing while they are copied again.
AssetMissing(p) ==
  /\ at[p] = "assets" /\ Dir(p).assets = Partial
  /\ Leaves(p, "assets")
  /\ UNCHANGED <<project, planes, folders, credentialVars>>

Version(p) ==
  [ids |-> mem[p].built.ids, site |-> mem[p].built.site, form |-> mem[p].form,
   provisioned |-> mem[p].provision, disturbed |-> mem[p].disturbed]

\* The control plane takes it ("unchanged" when it has it).
Upload(p) ==
  /\ Leaves(p, "upload")
  /\ versions' = versions \cup {Version(p)}
  /\ UNCHANGED <<project, stores, folders, credentialVars>>

\* Rejected, or the answer is lost after the control plane took it.
UploadFails(p) == Leaves(p, "upload") /\ UNCHANGED <<project, planes, folders, credentialVars>>

(***************************************************************************)
(* The site's build, and all of it together                                *)
(***************************************************************************)
SiteBuild ==
  /\ site < MaxSites
  /\ site' = site + 1
  /\ UNCHANGED <<config, planes, folders, at, mem, credentialVars>>

DeployStep(p) ==
  \/ Start(p) \/ ReadConfig(p) \/ Locate(p) \/ HasToken(p) \/ NoToken(p)
  \/ Provision(p) \/ ProvisionFails(p) \/ PinConfig(p)
  \/ ReadProject(p) \/ Prepare(p) \/ BuildFails(p)
  \/ TakeLock(p) \/ LockTimeout(p) \/ FindStale(p) \/ BreakLock(p) \/ Killed(p)
  \/ Compile(p) \/ CompileFails(p) \/ WriteManifest(p) \/ ClearAssets(p)
  \/ CopyAssets(p) \/ ListAssets(p) \/ AssetsChanged(p) \/ Unlock(p) \/ DryRun(p)
  \/ TakeManifest(p) \/ TakeSprout(p) \/ TakeAssets(p) \/ AssetMissing(p)
  \/ Upload(p) \/ UploadFails(p)

DeployNext ==
  \/ \E p \in Deployer : DeployStep(p)
  \/ SiteBuild
  \/ Next /\ UNCHANGED <<project, planes, folders, at, mem>>

DeploySpec == DeployInit /\ [][DeployNext]_deployVars

-----------------------------------------------------------------------------
(***************************************************************************)
(* Properties                                                              *)
(***************************************************************************)
\* Every variable has its type, and of the deploys of one artifact at most one
\* builds, and its directory is locked as long, unless its lock was taken away
\* from a build.
DeployTypeOK ==
  /\ TypeOK
  /\ config \in Ids /\ site \in 0 .. MaxSites
  /\ stores \subseteq Store
  /\ DOMAIN dirs \subseteq Artifact /\ \A a \in DOMAIN dirs : dirs[a] \in Directory
  /\ at \in [Deployer -> Place] /\ mem \in [Deployer -> Memory]
  /\ locked \subseteq Artifact /\ robbed \subseteq Artifact
  /\ \A p \in Deployer : at[p] \in Building /\ mem[p].built \notin robbed =>
       /\ mem[p].built \in locked
       /\ \A q \in Deployer : at[q] \in Building /\ mem[q].built = mem[p].built => q = p

\* "the store survives redeploys" (README.md): every version that a deploy with
\* provisioning uploads has a store for each binding, and two versions that use
\* stores of one control plane use the same, whatever deploys overlapped, failed
\* half way and were tried again, and whatever was written over what.
StoreSurvives ==
  /\ \A v \in versions : v.provisioned => BareIn(v.ids) = {}
  /\ \A v, w \in versions : \A b \in Binding :
       LET s == v.ids[b]
           t == w.ids[b]
       IN None \notin {s, t} /\ s.at = t.at => s = t

\* What is uploaded is what one build left: the manifest is about the binary
\* that goes with it, and the assets are those it was built for, whatever other
\* builds of the same directory did or left there before, killed ones too.  With
\* two exceptions: a build that took the directory while it was read for the
\* upload, which is done without the lock; and a directory whose lock a waiting
\* build once took away from one that was at work.
UploadIsWhole ==
  \A v \in versions :
    \/ v.disturbed
    \/ [ids |-> v.ids, site |-> v.site] \in robbed
    \/ v.form.manifest = v.form.sprout /\ v.form.assets = v.site

=============================================================================
