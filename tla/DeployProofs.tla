---------------------------- MODULE DeployProofs ----------------------------
(***************************************************************************)
(* Theorems about Credentials and Deploy, for any number of deploys,       *)
(* logins and logouts and any bindings, endpoints and bound on the site's  *)
(* builds.                                                                 *)
(***************************************************************************)
EXTENDS Deploy, TLAPS

(***************************************************************************)
(* Credentials, for any number of overlapping logins and logouts and any   *)
(* set of endpoints.  What a call has read may be stale when it writes, so *)
(* the invariant is about every copy of the file that is held, not only    *)
(* about the one on disk.                                                  *)
(***************************************************************************)
\* A file, on disk or in memory, as every command leaves it.
Sane(f) == f \in File /\ ActiveIn(f)

IInv ==
  /\ TypeOK
  /\ Sane(file)
  /\ \A p \in Clerk : Sane(held[p])

\* The empty file is sane, and both changes of a file keep it so: this is all
\* that the invariant needs to know of credentials.ts.
LEMMA NoFileSane == Sane(NoFile)
  BY EndpointAssumption DEF Sane, NoFile, File, ActiveIn

LEMMA SavedSane ==
  ASSUME NEW f, Sane(f), NEW e \in Endpoint
  PROVE  Sane(Saved(f, e))
  BY EndpointAssumption DEF Sane, Saved, File, ActiveIn

LEMMA ForgottenSane ==
  ASSUME NEW f, Sane(f), NEW e \in Endpoint
  PROVE  Sane(Forgotten(f, e))
  BY EndpointAssumption DEF Sane, Forgotten, File, ActiveIn

LEMMA InitIInv == Init => IInv
  BY NoFileSane DEF Init, IInv, TypeOK, Sane, PC

\* A call that ends leaves its copy behind.
LEMMA EndsKeeps ==
  ASSUME IInv, NEW p \in Clerk, NEW from \in PC \ {"idle", "done"},
         Ends(p, from), Sane(file')
  PROVE  IInv'
  BY NoFileSane DEF IInv, TypeOK, Ends, Go, PC, Sane, File

LEMMA StepIInv == IInv /\ [Next]_credentialVars => IInv'
<1> SUFFICES ASSUME IInv, [Next]_credentialVars PROVE IInv'
  OBVIOUS
<1>1. CASE UNCHANGED credentialVars
  BY <1>1 DEF credentialVars, IInv, TypeOK, Sane
<1>2. ASSUME NEW p \in Clerk, ClerkStep(p) PROVE IInv'
  <2>1. CASE Login(p)
    BY <2>1 DEF Login, Go, IInv, TypeOK, PC, Sane
  <2>2. CASE Approved(p)
    BY <2>2 DEF Approved, Go, IInv, TypeOK, PC, Sane
  <2>3. CASE NotApproved(p)
    BY <2>3, EndsKeeps DEF NotApproved, IInv, PC, Sane
  <2>4. CASE SaveReads(p)
    BY <2>4 DEF SaveReads, Go, IInv, TypeOK, PC, Sane
  <2>5. CASE SaveWrites(p)
    <3>1. goal[p] \in Endpoint
      BY <2>5 DEF SaveWrites, Ends, Go, IInv, TypeOK
    <3>2. Sane(file')
      BY <2>5, <3>1, SavedSane DEF SaveWrites, IInv
    <3> QED BY <2>5, <3>2, EndsKeeps DEF SaveWrites, PC
  <2>6. CASE Logout(p)
    BY <2>6 DEF Logout, Go, IInv, TypeOK, PC, Sane
  <2>7. CASE ForgetReads(p)
    BY <2>7 DEF ForgetReads, Go, IInv, TypeOK, PC, Sane
  <2>8. CASE NothingToForget(p)
    BY <2>8, EndsKeeps DEF NothingToForget, IInv, PC, Sane
  <2>9. CASE ForgetWrites(p)
    <3>1. goal[p] \in Endpoint
      BY <2>9 DEF ForgetWrites, Ends, Go, IInv, TypeOK
    <3>2. Sane(file')
      BY <2>9, <3>1, ForgottenSane DEF ForgetWrites, IInv
    <3> QED BY <2>9, <3>2, EndsKeeps DEF ForgetWrites, PC
  <2> QED
    BY <1>2, <2>1, <2>2, <2>3, <2>4, <2>5, <2>6, <2>7, <2>8, <2>9 DEF ClerkStep
<1> QED BY <1>1, <1>2 DEF Next

\* Every variable keeps its type, and a call that is under way has the endpoint
\* it is about.
THEOREM TypeCorrect == Spec => []TypeOK
<1>1. IInv => TypeOK
  BY DEF IInv
<1> QED BY <1>1, InitIInv, StepIInv, PTL DEF Spec

\* However many logins and logouts overlap and overwrite each other's changes,
\* the active endpoint has a token.
THEOREM ActiveAlwaysHasToken == Spec => []ActiveHasToken
<1>1. IInv => ActiveHasToken
  BY DEF IInv, Sane, ActiveHasToken
<1> QED BY <1>1, InitIInv, StepIInv, PTL DEF Spec

(***************************************************************************)
(* Deploy: the invariant has three parts: what holds of the project, the   *)
(* control planes and the directories; who has which lock; and what a      *)
(* deploy may rely on, which Fits says of its place and its memory.  A     *)
(* step of one deploy then concerns another only through what Fits says of *)
(* the parts that are shared.                                              *)
(***************************************************************************)
\* Where a deploy has an artifact.
Late == {"wait", "break", "upload"} \cup Building \cup Reading

\* Every id is that of a store of its own binding.
Kept(ids) == \A b \in Binding : ids[b] = None \/ (ids[b] \in stores /\ ids[b].for = b)

\* A deploy with memory m at place x.
Provisions(x, m) ==
  /\ x = "read" => m.provision
  /\ x \in Provisioning => m.provision /\ m.source \in Ids /\ Kept(m.source)
  /\ x \in {"token", "provision"} => m.at \in Endpoint
  /\ x = "pin" => BareIn(m.source) = {}
  /\ x = "project" /\ m.provision => BareIn(config) = {}
  /\ x = "prepare" => /\ m.source \in Ids /\ Kept(m.source)
                      /\ m.provision => BareIn(m.source) = {}

Builds(x, m) ==
  /\ x \in Late => /\ m.built \in Artifact /\ Kept(m.built.ids)
                   /\ m.provision => BareIn(m.built.ids) = {}
  /\ x \in Late \ {"wait", "break"} => m.built \in DOMAIN dirs
  /\ m.built \notin robbed =>
       /\ x \in {"clear", "copy", "list", "unlock"} =>
            dirs[m.built].manifest = dirs[m.built].sprout
       /\ x = "unlock" => dirs[m.built].assets = m.built.site

Reads(x, m) ==
  ~m.disturbed /\ m.built \notin robbed =>
    /\ x \in Reading => /\ m.built \notin locked
                        /\ dirs[m.built].manifest = dirs[m.built].sprout
                        /\ dirs[m.built].assets = m.built.site
    /\ x \in {"sprout", "assets"} => m.form.manifest = dirs[m.built].manifest
    /\ x = "assets" => m.form.sprout = dirs[m.built].sprout
    /\ x = "upload" => m.form.manifest = m.form.sprout /\ m.form.assets = m.built.site

Fits(x, m) ==
  x \in Place /\ m \in Memory /\ Provisions(x, m) /\ Builds(x, m) /\ Reads(x, m)

Planes ==
  /\ config \in Ids /\ Kept(config) /\ site \in 0 .. MaxSites
  /\ stores \subseteq Store
  /\ \A s, t \in stores : s.at = t.at /\ s.for = t.for => s = t
  /\ \A v \in versions :
       /\ Kept(v.ids)
       /\ v.provisioned => BareIn(v.ids) = {}
       /\ \/ v.disturbed
          \/ [ids |-> v.ids, site |-> v.site] \in robbed
          \/ v.form.manifest = v.form.sprout /\ v.form.assets = v.site

Folders == DOMAIN dirs \subseteq Artifact /\ \A a \in DOMAIN dirs : dirs[a] \in Directory

Locks ==
  /\ locked \subseteq Artifact /\ robbed \subseteq Artifact
  /\ \A p \in Deployer :
       at[p] \in Building /\ mem[p].built \notin robbed => mem[p].built \in locked
  /\ \A p, q \in Deployer :
       at[p] \in Building /\ at[q] \in Building /\ mem[p].built = mem[q].built =>
         p = q \/ mem[p].built \in robbed

Deploys ==
  /\ at \in [Deployer -> Place] /\ mem \in [Deployer -> Memory]
  /\ \A p \in Deployer : Fits(at[p], mem[p])

DInv == IInv /\ Planes /\ Folders /\ Locks /\ Deploys

USE DEF Step, project, planes, folders

(***************************************************************************)
(* Records                                                                 *)
(***************************************************************************)
LEMMA MemSet ==
  ASSUME mem \in [Deployer -> Memory], NEW p \in Deployer, NEW m \in Memory,
         mem' = [mem EXCEPT ![p] = m]
  PROVE  /\ mem' \in [Deployer -> Memory]
         /\ mem'[p] = m
         /\ \A q \in Deployer \ {p} : mem'[q] = mem[q]
  OBVIOUS

LEMMA AtSet ==
  ASSUME at \in [Deployer -> Place], NEW p \in Deployer, NEW x \in Place,
         at' = [at EXCEPT ![p] = x]
  PROVE  /\ at' \in [Deployer -> Place]
         /\ at'[p] = x
         /\ \A q \in Deployer \ {p} : at'[q] = at[q]
  OBVIOUS

LEMMA NoMemoryFits == Fits("done", NoMemory)
  BY DEF Fits, Provisions, Builds, Reads, Place, Provisioning, Building, Reading, Late,
         Memory, NoMemory, NoDirectory, Directory

(***************************************************************************)
(* A step that changes only a deploy's own place and memory, to a place    *)
(* outside Building, keeps the invariant if what the deploy may rely on    *)
(* holds.                                                                  *)
(***************************************************************************)
LEMMA OwnStep ==
  ASSUME DInv, NEW p \in Deployer, NEW x \in Place \ Building, NEW m \in Memory,
         Fits(x, m),
         at' = [at EXCEPT ![p] = x], mem' = [mem EXCEPT ![p] = m],
         UNCHANGED <<project, planes, folders, credentialVars>>
  PROVE  DInv'
<1>1. /\ mem' \in [Deployer -> Memory]
      /\ mem'[p] = m
      /\ \A q \in Deployer \ {p} : mem'[q] = mem[q]
  BY MemSet DEF DInv, Deploys
<1>2. /\ at' \in [Deployer -> Place]
      /\ at'[p] = x
      /\ \A q \in Deployer \ {p} : at'[q] = at[q]
  BY AtSet DEF DInv, Deploys
<1>3. IInv'
  BY StepIInv DEF DInv
<1>4. Planes' /\ Folders'
  BY DEF DInv, Planes, Folders, Kept, BareIn
<1>5. Locks'
  BY <1>1, <1>2 DEF DInv, Locks
<1>6. Deploys'
  <2>1. Fits(at[p], mem[p])'
    BY <1>1, <1>2 DEF Fits, Provisions, Builds, Reads, Kept, BareIn
  <2>2. ASSUME NEW q \in Deployer \ {p} PROVE Fits(at[q], mem[q])'
    BY <1>1, <1>2 DEF DInv, Deploys, Fits, Provisions, Builds, Reads, Kept, BareIn
  <2> QED BY <1>1, <1>2, <2>1, <2>2 DEF Deploys
<1> QED BY <1>3, <1>4, <1>5, <1>6 DEF DInv

\* The same for a step that leaves the memory as it is.
LEMMA Moves ==
  ASSUME DInv, NEW p \in Deployer, NEW x \in Place \ Building,
         Fits(x, mem[p]), at' = [at EXCEPT ![p] = x],
         UNCHANGED <<project, planes, folders, mem, credentialVars>>
  PROVE  DInv'
<1>1. mem[p] \in Memory /\ mem' = [mem EXCEPT ![p] = mem[p]]
  BY DEF DInv, Deploys
<1> QED BY <1>1, OwnStep

\* And for a deploy that ends.
LEMMA Leaving ==
  ASSUME DInv, NEW p \in Deployer,
         at' = [at EXCEPT ![p] = "done"], mem' = [mem EXCEPT ![p] = NoMemory],
         UNCHANGED <<project, planes, folders, credentialVars>>
  PROVE  DInv'
<1>1. "done" \in Place \ Building /\ NoMemory \in Memory
  BY NoMemoryFits DEF Fits, Place, Provisioning, Building, Reading
<1> QED BY <1>1, NoMemoryFits, OwnStep

(***************************************************************************)
(* Steps in a directory and with its lock                                  *)
(***************************************************************************)
LEMMA DirSet ==
  ASSUME Folders, NEW p \in Deployer, mem[p].built \in Artifact, NEW d \in Directory,
         SetDir(p, d)
  PROVE  /\ Folders'
         /\ DOMAIN dirs' = DOMAIN dirs \cup {mem[p].built}
         /\ dirs'[mem[p].built] = d
         /\ \A a \in DOMAIN dirs \ {mem[p].built} : dirs'[a] = dirs[a]
  BY DEF Folders, SetDir

\* The holder of a directory's lock changes it: nobody else builds there, and
\* nobody who reads there is undisturbed.
LEMMA BuildStep ==
  ASSUME DInv, NEW p \in Deployer, NEW x \in Building, NEW d \in Directory,
         at[p] \in Building,
         \/ mem[p].built \in robbed
         \/ /\ x \in {"clear", "copy", "list", "unlock"} => d.manifest = d.sprout
            /\ x = "unlock" => d.assets = mem[p].built.site,
         at' = [at EXCEPT ![p] = x], SetDir(p, d),
         UNCHANGED <<project, planes, locked, robbed, mem, credentialVars>>
  PROVE  DInv'
<1>1. x \in Place
  BY DEF Place
<1>2. /\ at' \in [Deployer -> Place]
      /\ at'[p] = x
      /\ \A q \in Deployer \ {p} : at'[q] = at[q]
  BY <1>1, AtSet DEF DInv, Deploys
<1>3. at[p] \in Late \ {"wait", "break"} /\ x \in Late \ {"wait", "break"} /\ Fits(at[p], mem[p])
  BY DEF DInv, Deploys, Late, Building
<1>4. /\ mem[p].built \in Artifact /\ mem[p].built \in DOMAIN dirs
      /\ mem[p].built \in locked \/ mem[p].built \in robbed
  BY <1>3 DEF DInv, Fits, Builds, Locks
<1>5. /\ Folders'
      /\ DOMAIN dirs' = DOMAIN dirs
      /\ dirs'[mem[p].built] = d
      /\ \A a \in DOMAIN dirs \ {mem[p].built} : dirs'[a] = dirs[a]
  BY <1>4, DirSet DEF DInv
<1>6. IInv'
  BY StepIInv DEF DInv
<1>7. Planes'
  BY DEF DInv, Planes, Kept, BareIn
<1>8. Locks'
  BY <1>2 DEF DInv, Locks
<1>9. Deploys'
  <2>1. Fits(at[p], mem[p])'
    <3>1. x \notin Provisioning \cup Reading /\ x \notin {"read", "project", "prepare",
        "upload"}
      BY DEF Building, Provisioning, Reading
    <3>2. Provisions(at[p], mem[p])'
      BY <1>2, <3>1 DEF Provisions, Provisioning
    <3>3. Builds(at[p], mem[p])'
      BY <1>2, <1>3, <1>4, <1>5 DEF Fits, Builds, Kept, BareIn
    <3>4. Reads(at[p], mem[p])'
      BY <1>2, <3>1 DEF Reads, Reading
    <3> QED BY <1>1, <1>2, <1>3, <3>2, <3>3, <3>4 DEF Fits
  <2>2. ASSUME NEW q \in Deployer \ {p} PROVE Fits(at[q], mem[q])'
    <3>1. Fits(at[q], mem[q])
      BY DEF DInv, Deploys
    <3>2. Provisions(at[q], mem[q])'
      BY <1>2, <3>1 DEF Fits, Provisions, Kept, BareIn
    <3>3. Builds(at[q], mem[q])'
      <4>1. CASE at[q] \in Building
        <5>1. mem[q].built # mem[p].built \/ mem[q].built \in robbed
          BY <4>1 DEF DInv, Locks
        <5> QED BY <1>2, <1>5, <3>1, <4>1, <5>1 DEF Fits, Builds, Late, Building, Kept, BareIn
      <4>2. CASE at[q] \notin Building
        BY <1>2, <1>5, <3>1, <4>2 DEF Fits, Builds, Building, Kept, BareIn
      <4> QED BY <4>1, <4>2
    <3>4. Reads(at[q], mem[q])'
      <4>1. CASE at[q] \in Reading /\ ~mem[q].disturbed /\ mem[q].built \notin robbed
        <5>1. mem[q].built # mem[p].built /\ mem[q].built \in DOMAIN dirs
          BY <1>4, <3>1, <4>1 DEF Fits, Reads, Builds, Late, Reading
        <5> QED BY <1>2, <1>5, <3>1, <4>1, <5>1 DEF Fits, Reads
      <4>2. CASE ~(at[q] \in Reading /\ ~mem[q].disturbed /\ mem[q].built \notin robbed)
        BY <1>2, <3>1, <4>2 DEF Fits, Reads, Reading
      <4> QED BY <4>1, <4>2
    <3> QED BY <1>2, <3>1, <3>2, <3>3, <3>4 DEF Fits
  <2> QED BY <1>2, <2>1, <2>2 DEF DInv, Deploys
<1> QED BY <1>5, <1>6, <1>7, <1>8, <1>9 DEF DInv

LEMMA TakeLockKeeps ==
  ASSUME DInv, NEW p \in Deployer, TakeLock(p)
  PROVE  DInv'
<1> DEFINE b == mem[p].built
           m(q) == [mem[q] EXCEPT !.disturbed =
                      @ \/ (q # p /\ at[q] \in Reading /\ mem[q].built = b)]
<1>1. /\ at[p] = "wait" /\ b \notin locked
      /\ at' = [at EXCEPT ![p] = "compile"]
      /\ locked' = locked \cup {b}
      /\ SetDir(p, IF b \in DOMAIN dirs THEN Dir(p) ELSE NoDirectory)
      /\ mem' = [q \in Deployer |-> m(q)]
      /\ UNCHANGED <<config, site, stores, versions, robbed, credentialVars>>
  BY DEF TakeLock
<1>2. \A q \in Deployer : mem[q] \in Memory /\ Fits(at[q], mem[q])
  BY DEF DInv, Deploys
<1>3. \A q \in Deployer :
        /\ m(q) \in Memory
        /\ m(q).provision = mem[q].provision /\ m(q).source = mem[q].source
        /\ m(q).at = mem[q].at /\ m(q).built = mem[q].built /\ m(q).form = mem[q].form
        /\ m(q).disturbed <=>
             mem[q].disturbed \/ (q # p /\ at[q] \in Reading /\ mem[q].built = b)
  BY <1>2 DEF Memory
<1>4. mem' \in [Deployer -> Memory] /\ \A q \in Deployer : mem'[q] = m(q)
  BY <1>1, <1>3
<1> HIDE DEF m
<1>5. "compile" \in Place \cap Building /\ b \in Artifact
  BY <1>1, <1>2 DEF Place, Building, Fits, Builds, Late
<1>6. /\ at' \in [Deployer -> Place]
      /\ at'[p] = "compile"
      /\ \A q \in Deployer \ {p} : at'[q] = at[q]
  BY <1>1, <1>5, AtSet DEF DInv, Deploys
<1>7. (IF b \in DOMAIN dirs THEN Dir(p) ELSE NoDirectory) \in Directory
  BY DEF DInv, Folders, Dir, NoDirectory, Directory
<1>8. /\ Folders'
      /\ DOMAIN dirs' = DOMAIN dirs \cup {b}
      /\ \A a \in DOMAIN dirs : dirs'[a] = dirs[a]
  BY <1>1, <1>5, <1>7, DirSet DEF DInv, Dir
<1>9. IInv'
  BY <1>1, StepIInv DEF DInv
<1>10. Planes'
  BY <1>1 DEF DInv, Planes, Kept, BareIn
<1>11. Locks'
  BY <1>1, <1>3, <1>4, <1>5, <1>6 DEF DInv, Locks
<1>12. Deploys'
  <2>1. Fits(at[p], mem[p])'
    BY <1>1, <1>2, <1>3, <1>4, <1>5, <1>6, <1>8
    DEF Fits, Provisions, Builds, Reads, Kept, BareIn, Provisioning, Building, Reading, Late
  <2>2. ASSUME NEW q \in Deployer \ {p} PROVE Fits(at[q], mem[q])'
    <3>1. Fits(at[q], mem[q]) /\ at'[q] = at[q] /\ mem'[q] = m(q) /\ m(q) \in Memory
      BY <1>2, <1>3, <1>4, <1>6
    <3>2. Provisions(at[q], mem[q])'
      BY <1>1, <1>3, <3>1 DEF Fits, Provisions, Kept, BareIn
    <3>3. Builds(at[q], mem[q])'
      BY <1>1, <1>3, <1>8, <3>1 DEF Fits, Builds, Kept, BareIn, Late, Building
    <3>4. Reads(at[q], mem[q])'
      BY <1>1, <1>3, <1>8, <3>1 DEF Fits, Reads, Builds, Late, Reading
    <3> QED BY <3>1, <3>2, <3>3, <3>4 DEF Fits
  <2> QED BY <1>4, <1>6, <2>1, <2>2 DEF Deploys
<1> QED BY <1>8, <1>9, <1>10, <1>11, <1>12 DEF DInv

LEMMA BreakLockKeeps ==
  ASSUME DInv, NEW p \in Deployer, BreakLock(p)
  PROVE  DInv'
<1> DEFINE b == mem[p].built
           taken == {mem[q].built : q \in {r \in Deployer : at[r] \in Building /\ mem[r].built = b}}
<1>1. /\ at[p] = "break" /\ at' = [at EXCEPT ![p] = "wait"]
      /\ locked' = locked \ {b} /\ robbed' = robbed \cup taken
      /\ UNCHANGED <<project, planes, dirs, mem, credentialVars>>
  BY DEF BreakLock
<1>2. taken \subseteq {b} /\ \A q \in Deployer : at[q] \in Building /\ mem[q].built = b => b \in taken
  OBVIOUS
<1> HIDE DEF taken
<1>3. "wait" \in Place \ Building /\ Fits(at[p], mem[p])
  BY DEF Place, Building, DInv, Deploys
<1>4. /\ at' \in [Deployer -> Place]
      /\ at'[p] = "wait"
      /\ \A q \in Deployer \ {p} : at'[q] = at[q]
  BY <1>1, <1>3, AtSet DEF DInv, Deploys
<1>5. b \in Artifact
  BY <1>1, <1>3 DEF Fits, Builds, Late
<1>6. IInv'
  BY <1>1, StepIInv DEF DInv
<1>7. Planes' /\ Folders'
  BY <1>1 DEF DInv, Planes, Folders, Kept, BareIn
<1>8. Locks'
  BY <1>1, <1>2, <1>3, <1>4, <1>5 DEF DInv, Locks
<1>9. Deploys'
  <2>1. Fits(at[p], mem[p])'
    BY <1>1, <1>3, <1>4
    DEF Fits, Provisions, Builds, Reads, Kept, BareIn, Provisioning, Building, Reading, Late
  <2>2. ASSUME NEW q \in Deployer \ {p} PROVE Fits(at[q], mem[q])'
    BY <1>1, <1>4 DEF DInv, Deploys, Fits, Provisions, Builds, Reads, Kept, BareIn
  <2> QED BY <1>1, <1>4, <2>1, <2>2 DEF DInv, Deploys
<1> QED BY <1>6, <1>7, <1>8, <1>9 DEF DInv

LEMMA FindStaleKeeps ==
  ASSUME DInv, NEW p \in Deployer, FindStale(p)
  PROVE  DInv'
<1>1. /\ at[p] = "wait" /\ at' = [at EXCEPT ![p] = "break"]
      /\ UNCHANGED <<project, planes, folders, mem, credentialVars>>
  BY DEF FindStale
<1>2. "break" \in Place \ Building
  BY DEF Place, Building
<1>3. Fits("break", mem[p])
  BY <1>1, <1>2
  DEF DInv, Deploys, Fits, Provisions, Builds, Reads, Provisioning, Building, Reading, Late
<1> QED BY <1>1, <1>2, <1>3, Moves

LEMMA UnlockKeeps ==
  ASSUME DInv, NEW p \in Deployer, Unlock(p)
  PROVE  DInv'
<1> DEFINE b == mem[p].built
<1>1. PICK x \in {"endpoint", "done"}, m \in {mem[p], NoMemory} :
        /\ x = "endpoint" => at[p] = "unlock" /\ m = mem[p]
        /\ x = "done" => m = NoMemory
        /\ at[p] \in Building /\ at' = [at EXCEPT ![p] = x] /\ mem' = [mem EXCEPT ![p] = m]
        /\ locked' = locked \ {b}
        /\ UNCHANGED <<project, planes, dirs, robbed, credentialVars>>
  BY DEF Unlock, Leaves, Building, DInv, Deploys
<1>2. x \in Place \ Building /\ m \in Memory /\ Fits(at[p], mem[p])
  BY NoMemoryFits DEF Place, Building, Reading, Fits, DInv, Deploys
<1>3. /\ mem' \in [Deployer -> Memory]
      /\ mem'[p] = m
      /\ \A q \in Deployer \ {p} : mem'[q] = mem[q]
  BY <1>1, <1>2, MemSet DEF DInv, Deploys
<1>4. /\ at' \in [Deployer -> Place]
      /\ at'[p] = x
      /\ \A q \in Deployer \ {p} : at'[q] = at[q]
  BY <1>1, <1>2, AtSet DEF DInv, Deploys
<1>5. IInv'
  BY <1>1, StepIInv DEF DInv
<1>6. Planes' /\ Folders'
  BY <1>1 DEF DInv, Planes, Folders, Kept, BareIn
<1>7. Locks'
  BY <1>1, <1>2, <1>3, <1>4 DEF DInv, Locks
<1>8. Deploys'
  <2>1. Fits(at[p], mem[p])'
    <3>1. CASE x = "endpoint"
      BY <1>1, <1>2, <1>3, <1>4, <3>1
      DEF Fits, Provisions, Builds, Reads, Kept, BareIn, Provisioning, Building, Reading, Late
    <3>2. CASE x = "done"
      BY <1>1, <1>2, <1>3, <1>4, <3>2
      DEF Fits, Provisions, Builds, Reads, Provisioning, Building, Reading, Late
    <3> QED BY <1>1, <3>1, <3>2
  <2>2. ASSUME NEW q \in Deployer \ {p} PROVE Fits(at[q], mem[q])'
    BY <1>1, <1>3, <1>4 DEF DInv, Deploys, Fits, Provisions, Builds, Reads, Kept, BareIn
  <2> QED BY <1>3, <1>4, <2>1, <2>2 DEF Deploys
<1> QED BY <1>5, <1>6, <1>7, <1>8 DEF DInv

(***************************************************************************)
(* Steps that change the project or what a control plane has               *)
(***************************************************************************)
\* More stores keep what is kept.
LEMMA StoresGrow ==
  ASSUME NEW ids, Kept(ids), stores \subseteq stores'
  PROVE  \A b \in Binding : ids[b] = None \/ (ids[b] \in stores' /\ ids[b].for = b)
  BY DEF Kept

\* A request never makes a second store of one name at one control plane.
LEMMA OneStoreEach ==
  ASSUME DInv, NEW p \in Deployer, at[p] = "provision", NEW b \in Binding,
         NEW s \in CreateOrFind(p, b), NEW S, S = stores \/ S = stores \cup {s}
  PROVE  /\ S \subseteq Store /\ stores \subseteq S
         /\ \A t, u \in S : t.at = u.at /\ t.for = u.for => t = u
         /\ s \in Store /\ s.for = b /\ s # None
<1>1. mem[p].at \in Endpoint
  BY DEF DInv, Deploys, Fits, Provisions
<1>2. s \in Store /\ s.for = b /\ (s \in stores \/ (s.at = mem[p].at /\ Named(mem[p].at,
    b) = {}))
  BY <1>1 DEF CreateOrFind, NewStore, Named, Store, DInv, Planes
<1>3. \A t \in stores : s.at = t.at /\ s.for = t.for => s = t
  BY <1>2 DEF Named, DInv, Planes
<1> QED BY <1>2, <1>3, DeployAssumption DEF DInv, Planes

\* The store side of a request, whatever its deploy goes on to do.
LEMMA RequestStep ==
  ASSUME DInv, NEW p \in Deployer, NEW x \in Place \ Building, NEW m \in Memory,
         at[p] = "provision", NEW b \in Binding, NEW s \in CreateOrFind(p, b),
         stores' = stores \/ stores' = stores \cup {s}, Fits(x, m)',
         at' = [at EXCEPT ![p] = x], mem' = [mem EXCEPT ![p] = m],
         UNCHANGED <<project, versions, folders, credentialVars>>
  PROVE  DInv'
<1>1. /\ stores' \subseteq Store /\ stores \subseteq stores'
      /\ \A t, u \in stores' : t.at = u.at /\ t.for = u.for => t = u
  BY OneStoreEach
<1>2. /\ mem' \in [Deployer -> Memory]
      /\ mem'[p] = m
      /\ \A q \in Deployer \ {p} : mem'[q] = mem[q]
  BY MemSet DEF DInv, Deploys
<1>3. /\ at' \in [Deployer -> Place]
      /\ at'[p] = x
      /\ \A q \in Deployer \ {p} : at'[q] = at[q]
  BY AtSet DEF DInv, Deploys
<1>4. IInv'
  BY StepIInv DEF DInv
<1>5. Planes' /\ Folders'
  BY <1>1 DEF DInv, Planes, Folders, Kept, BareIn
<1>6. at[p] \notin Building
  BY DEF Building
<1>7. Locks'
  BY <1>2, <1>3, <1>6 DEF DInv, Locks
<1>8. Deploys'
  <2>1. Fits(at[p], mem[p])'
    BY <1>2, <1>3 DEF Fits, Provisions, Builds, Reads, Kept, BareIn
  <2>2. ASSUME NEW q \in Deployer \ {p} PROVE Fits(at[q], mem[q])'
    BY <1>1, <1>2, <1>3 DEF DInv, Deploys, Fits, Provisions, Builds, Reads, Kept, BareIn
  <2> QED BY <1>2, <1>3, <2>1, <2>2 DEF Deploys
<1> QED BY <1>4, <1>5, <1>7, <1>8 DEF DInv

LEMMA ProvisionKeeps ==
  ASSUME DInv, NEW p \in Deployer, Provision(p)
  PROVE  DInv'
<1>1. /\ at[p] = "provision" /\ Fits(at[p], mem[p]) /\ mem[p] \in Memory
      /\ mem[p].source \in Ids /\ Kept(mem[p].source) /\ mem[p].at \in Endpoint
      /\ mem[p].provision
      /\ UNCHANGED <<project, versions, folders, credentialVars>>
  BY DEF Provision, DInv, Deploys, Fits, Provisions, Provisioning
<1>2. PICK b \in BareIn(mem[p].source) : \E s \in CreateOrFind(p, b) :
        /\ at' = [at EXCEPT ![p] = IF BareIn(mem[p].source) = {b} THEN "pin" ELSE "provision"]
        /\ stores' = stores \cup {s}
        /\ mem' = [mem EXCEPT ![p].source[b] = s]
  BY DEF Provision
<1>3. PICK s \in CreateOrFind(p, b) :
        /\ at' = [at EXCEPT ![p] = IF BareIn(mem[p].source) = {b} THEN "pin" ELSE "provision"]
        /\ stores' = stores \cup {s}
        /\ mem' = [mem EXCEPT ![p].source[b] = s]
  BY <1>2
<1>4. b \in Binding
  BY DEF BareIn
<1>5. stores' \subseteq Store /\ stores \subseteq stores' /\ s \in Store /\ s.for = b /\ s # None
  BY <1>1, <1>3, <1>4, OneStoreEach
\* What the deploy goes on with: the ids, its memory and its place.
<1>6. PICK ids \in Ids : ids = [mem[p].source EXCEPT ![b] = s]
  BY <1>1, <1>4, <1>5 DEF Ids
<1>7. \A c \in Binding : ids[c] = IF c = b THEN s ELSE mem[p].source[c]
  BY <1>1, <1>4, <1>6 DEF Ids
<1>8. PICK m \in Memory : m = [mem[p] EXCEPT !.source = ids]
  BY <1>1 DEF Memory
<1>9. m.source = ids /\ m.at = mem[p].at /\ m.provision
  BY <1>1, <1>8 DEF Memory
<1>10. mem' = [mem EXCEPT ![p] = m]
  BY <1>3, <1>6, <1>8
<1>11. PICK x \in {"pin", "provision"} :
         x = IF BareIn(mem[p].source) = {b} THEN "pin" ELSE "provision"
  OBVIOUS
<1>12. x = "pin" => BareIn(ids) = {}
  BY <1>4, <1>5, <1>7, <1>11 DEF BareIn
<1>13. \A c \in Binding : ids[c] = None \/ (ids[c] \in stores' /\ ids[c].for = c)
  BY <1>1, <1>3, <1>5, <1>7 DEF Kept
<1>14. x \in Place \ Building
  BY DEF Place, Provisioning, Building
<1>15. Fits(x, m)'
  BY <1>1, <1>9, <1>12, <1>13, <1>14
  DEF Fits, Provisions, Builds, Reads, Kept, BareIn, Building, Reading, Late
<1> QED BY <1>1, <1>3, <1>4, <1>10, <1>11, <1>14, <1>15, RequestStep

LEMMA ProvisionFailsKeeps ==
  ASSUME DInv, NEW p \in Deployer, ProvisionFails(p)
  PROVE  DInv'
<1>1. PICK b \in BareIn(mem[p].source) :
        \E s \in CreateOrFind(p, b) : stores' \in {stores, stores \cup {s}}
  BY DEF ProvisionFails
<1>5. PICK s \in CreateOrFind(p, b) : stores' \in {stores, stores \cup {s}}
  BY <1>1
<1>2. /\ at[p] = "provision" /\ at' = [at EXCEPT ![p] = "done"]
      /\ mem' = [mem EXCEPT ![p] = NoMemory]
      /\ UNCHANGED <<project, versions, folders, credentialVars>>
  BY DEF ProvisionFails, Leaves
<1>3. b \in Binding /\ "done" \in Place \ Building /\ NoMemory \in Memory
  BY NoMemoryFits DEF BareIn, Fits, Place, Building
<1>4. Fits("done", NoMemory)'
  BY <1>3
  DEF Fits, Provisions, Builds, Reads, Provisioning, Building, Reading, Late
<1> QED BY <1>2, <1>3, <1>4, <1>5, RequestStep

LEMMA PinConfigKeeps ==
  ASSUME DInv, NEW p \in Deployer, PinConfig(p)
  PROVE  DInv'
<1> DEFINE m == [mem[p] EXCEPT !.source = None, !.at = None]
<1>1. /\ at[p] = "pin" /\ mem[p] \in Memory /\ mem[p].source \in Ids
      /\ Kept(mem[p].source) /\ BareIn(mem[p].source) = {}
  BY DEF PinConfig, DInv, Deploys, Fits, Provisions, Provisioning
<1>2. /\ at' = [at EXCEPT ![p] = "project"] /\ config' = mem[p].source
      /\ mem' = [mem EXCEPT ![p] = m]
      /\ UNCHANGED <<site, planes, folders, credentialVars>>
  BY DEF PinConfig
<1>3. m \in Memory /\ m.provision = mem[p].provision
  BY <1>1 DEF Memory
<1> HIDE DEF m
<1>4. "project" \in Place \ Building /\ at[p] \notin Building
  BY <1>1 DEF Place, Building
<1>5. /\ mem' \in [Deployer -> Memory]
      /\ mem'[p] = m
      /\ \A q \in Deployer \ {p} : mem'[q] = mem[q]
  BY <1>2, <1>3, MemSet DEF DInv, Deploys
<1>6. /\ at' \in [Deployer -> Place]
      /\ at'[p] = "project"
      /\ \A q \in Deployer \ {p} : at'[q] = at[q]
  BY <1>2, <1>4, AtSet DEF DInv, Deploys
<1>7. IInv'
  BY <1>2, StepIInv DEF DInv
<1>8. Planes' /\ Folders'
  BY <1>1, <1>2 DEF DInv, Planes, Folders, Kept, BareIn
<1>9. Locks'
  BY <1>2, <1>4, <1>5, <1>6 DEF DInv, Locks
<1>10. Deploys'
  <2>1. Fits(at[p], mem[p])'
    BY <1>1, <1>2, <1>3, <1>4, <1>5, <1>6
    DEF Fits, Provisions, Builds, Reads, BareIn, Provisioning, Building, Reading, Late
  <2>2. ASSUME NEW q \in Deployer \ {p} PROVE Fits(at[q], mem[q])'
    BY <1>1, <1>2, <1>5, <1>6
    DEF DInv, Deploys, Fits, Provisions, Builds, Reads, Kept, BareIn
  <2> QED BY <1>5, <1>6, <2>1, <2>2 DEF Deploys
<1> QED BY <1>7, <1>8, <1>9, <1>10 DEF DInv

LEMMA UploadKeeps ==
  ASSUME DInv, NEW p \in Deployer, Upload(p)
  PROVE  DInv'
<1>1. /\ at[p] = "upload" /\ at' = [at EXCEPT ![p] = "done"]
      /\ mem' = [mem EXCEPT ![p] = NoMemory] /\ versions' = versions \cup {Version(p)}
      /\ UNCHANGED <<project, stores, folders, credentialVars>>
  BY DEF Upload, Leaves
<1>2. Fits(at[p], mem[p])
  BY DEF DInv, Deploys
<1>3. /\ Kept(Version(p).ids)
      /\ Version(p).provisioned => BareIn(Version(p).ids) = {}
      /\ \/ Version(p).disturbed
         \/ [ids |-> Version(p).ids, site |-> Version(p).site] \in robbed
         \/ /\ Version(p).form.manifest = Version(p).form.sprout
            /\ Version(p).form.assets = Version(p).site
  <2>1. mem[p].built \in Artifact
    BY <1>1, <1>2 DEF Fits, Builds, Late
  <2>2. [ids |-> mem[p].built.ids, site |-> mem[p].built.site] = mem[p].built
    BY <2>1 DEF Artifact
  <2> QED BY <1>1, <1>2, <2>1, <2>2 DEF Version, Fits, Builds, Reads, Late
<1>4. "done" \in Place \ Building /\ NoMemory \in Memory /\ at[p] \notin Building
  BY <1>1, NoMemoryFits DEF Fits, Place, Building
<1>5. /\ mem' \in [Deployer -> Memory]
      /\ mem'[p] = NoMemory
      /\ \A q \in Deployer \ {p} : mem'[q] = mem[q]
  BY <1>1, <1>4, MemSet DEF DInv, Deploys
<1>6. /\ at' \in [Deployer -> Place]
      /\ at'[p] = "done"
      /\ \A q \in Deployer \ {p} : at'[q] = at[q]
  BY <1>1, <1>4, AtSet DEF DInv, Deploys
<1>7. IInv'
  BY <1>1, StepIInv DEF DInv
<1>8. Planes' /\ Folders'
  BY <1>1, <1>3 DEF DInv, Planes, Folders, Kept, BareIn
<1>9. Locks'
  BY <1>1, <1>4, <1>5, <1>6 DEF DInv, Locks
<1>10. Deploys'
  <2>1. Fits(at[p], mem[p])'
    BY <1>4, <1>5, <1>6
    DEF Fits, Provisions, Builds, Reads, Provisioning, Building, Reading, Late
  <2>2. ASSUME NEW q \in Deployer \ {p} PROVE Fits(at[q], mem[q])'
    BY <1>1, <1>5, <1>6 DEF DInv, Deploys, Fits, Provisions, Builds, Reads, Kept, BareIn
  <2> QED BY <1>5, <1>6, <2>1, <2>2 DEF Deploys
<1> QED BY <1>7, <1>8, <1>9, <1>10 DEF DInv

(***************************************************************************)
(* The remaining steps of one deploy                                       *)
(***************************************************************************)
\* What every step below starts from.
LEMMA Given ==
  ASSUME DInv, NEW p \in Deployer
  PROVE  /\ at[p] \in Place /\ mem[p] \in Memory /\ Fits(at[p], mem[p])
         /\ config \in Ids /\ Kept(config) /\ site \in 0 .. MaxSites
  BY DEF DInv, Planes, Deploys

LEMMA StartKeeps ==
  ASSUME DInv, NEW p \in Deployer, Start(p)
  PROVE  DInv'
<1>1. PICK provision \in BOOLEAN, fresh \in BOOLEAN :
        /\ Step(p, "idle", IF provision THEN "read" ELSE "project")
        /\ mem' = [mem EXCEPT ![p].provision = provision, ![p].fresh = fresh]
        /\ UNCHANGED <<project, planes, folders, credentialVars>>
  BY DEF Start
<1>2. PICK m \in Memory : m = [mem[p] EXCEPT !.provision = provision, !.fresh = fresh]
  BY Given DEF Memory
<1>3. m.provision = provision /\ mem' = [mem EXCEPT ![p] = m]
  BY <1>1, <1>2, Given DEF Memory
<1>4. PICK x \in {"read", "project"} : x = IF provision THEN "read" ELSE "project"
  OBVIOUS
<1>5. x \in Place \ Building /\ at[p] \notin Building
  BY <1>1 DEF Place, Building
<1>6. Fits(x, m)
  BY <1>3, <1>4, <1>5
  DEF Fits, Provisions, Builds, Reads, Provisioning, Building, Reading, Late
<1> QED BY <1>1, <1>3, <1>4, <1>5, <1>6, OwnStep

LEMMA ReadConfigKeeps ==
  ASSUME DInv, NEW p \in Deployer, ReadConfig(p)
  PROVE  DInv'
<1>1. PICK c \in Ids \cup {None} : c = IF BareIn(config) = {} THEN None ELSE config
  BY Given
<1>2. PICK x \in {"project", "locate"} : x = IF BareIn(config) = {} THEN "project" ELSE "locate"
  OBVIOUS
<1>3. /\ at[p] = "read" /\ at' = [at EXCEPT ![p] = x]
      /\ mem' = [mem EXCEPT ![p].source = c]
      /\ UNCHANGED <<project, planes, folders, credentialVars>>
  BY <1>1, <1>2 DEF ReadConfig
<1>4. PICK m \in Memory : m = [mem[p] EXCEPT !.source = c]
  BY Given DEF Memory
<1>5. m.provision /\ m.source = c /\ mem' = [mem EXCEPT ![p] = m]
  BY <1>3, <1>4, Given DEF Memory, Fits, Provisions
<1>6. x \in Place \ Building /\ at[p] \notin Building
  BY <1>3 DEF Place, Provisioning, Building
<1>7. Fits(x, m)
  BY <1>1, <1>2, <1>5, <1>6, Given
  DEF Fits, Provisions, Builds, Reads, Provisioning, Building, Reading, Late
<1> QED BY <1>3, <1>5, <1>6, <1>7, OwnStep

LEMMA LocateKeeps ==
  ASSUME DInv, NEW p \in Deployer, Locate(p)
  PROVE  DInv'
<1>1. PICK e \in Endpoint : e = Resolve(file)
  BY EndpointAssumption DEF DInv, IInv, Sane, File, Resolve
<1>2. PICK x \in {"token", "credential"} :
        /\ at[p] = IF x = "token" THEN "locate" ELSE "endpoint"
        /\ at' = [at EXCEPT ![p] = x]
        /\ mem' = [mem EXCEPT ![p].at = e]
        /\ UNCHANGED <<project, planes, folders, credentialVars>>
  BY <1>1 DEF Locate
<1>3. PICK m \in Memory : m = [mem[p] EXCEPT !.at = e]
  BY Given DEF Memory
<1>4. /\ m.at = e /\ m.provision = mem[p].provision /\ m.source = mem[p].source
      /\ m.built = mem[p].built /\ m.disturbed = mem[p].disturbed
      /\ mem' = [mem EXCEPT ![p] = m]
  BY <1>2, <1>3, Given DEF Memory
<1>5. x \in Place \ Building /\ at[p] \notin Building
  BY <1>2 DEF Place, Provisioning, Reading, Building
<1>6. Fits(x, m)
  BY <1>2, <1>4, <1>5, Given
  DEF Fits, Provisions, Builds, Reads, Provisioning, Building, Reading, Late
<1> QED BY <1>2, <1>4, <1>5, <1>6, OwnStep

LEMMA HasTokenKeeps ==
  ASSUME DInv, NEW p \in Deployer, HasToken(p)
  PROVE  DInv'
<1>1. PICK x \in {"provision", "manifest"} :
        /\ at[p] = IF x = "provision" THEN "token" ELSE "credential"
        /\ at' = [at EXCEPT ![p] = x]
        /\ UNCHANGED <<project, planes, folders, mem, credentialVars>>
  BY DEF HasToken
<1>2. x \in Place \ Building /\ at[p] \notin Building
  BY <1>1 DEF Place, Provisioning, Reading, Building
<1>3. Fits(x, mem[p])
  BY <1>1, <1>2, Given
  DEF Fits, Provisions, Builds, Reads, Provisioning, Building, Reading, Late
<1> QED BY <1>1, <1>2, <1>3, Moves

LEMMA ReadProjectKeeps ==
  ASSUME DInv, NEW p \in Deployer, ReadProject(p)
  PROVE  DInv'
<1>1. /\ at[p] = "project" /\ at' = [at EXCEPT ![p] = "prepare"]
      /\ mem' = [mem EXCEPT ![p].source = config]
      /\ UNCHANGED <<project, planes, folders, credentialVars>>
  BY DEF ReadProject
<1>2. PICK m \in Memory : m = [mem[p] EXCEPT !.source = config]
  BY Given DEF Memory
<1>3. m.source = config /\ m.provision = mem[p].provision /\ mem' = [mem EXCEPT ![p] = m]
  BY <1>1, <1>2, Given DEF Memory
<1>4. "prepare" \in Place \ Building /\ at[p] \notin Building
  BY <1>1 DEF Place, Building
<1>5. Fits("prepare", m)
  BY <1>1, <1>3, <1>4, Given
  DEF Fits, Provisions, Builds, Reads, Provisioning, Building, Reading, Late
<1> QED BY <1>1, <1>3, <1>4, <1>5, OwnStep

LEMMA PrepareKeeps ==
  ASSUME DInv, NEW p \in Deployer, Prepare(p)
  PROVE  DInv'
<1>1. at[p] = "prepare" /\ mem[p].source \in Ids /\ Kept(mem[p].source)
  BY Given DEF Prepare, Fits, Provisions
<1>2. PICK a \in Artifact : a = [ids |-> mem[p].source, site |-> site]
  BY <1>1, Given DEF Artifact
<1>3. /\ at' = [at EXCEPT ![p] = "wait"]
      /\ mem' = [mem EXCEPT ![p].source = None, ![p].built = a]
      /\ UNCHANGED <<project, planes, folders, credentialVars>>
  BY <1>2 DEF Prepare
<1>4. PICK m \in Memory : m = [mem[p] EXCEPT !.source = None, !.built = a]
  BY Given DEF Memory
<1>5. m.built = a /\ m.provision = mem[p].provision /\ mem' = [mem EXCEPT ![p] = m]
  BY <1>3, <1>4, Given DEF Memory
<1>6. "wait" \in Place \ Building /\ at[p] \notin Building
  BY <1>1 DEF Place, Building
<1>7. Fits("wait", m)
  BY <1>1, <1>2, <1>5, <1>6, Given
  DEF Fits, Provisions, Builds, Reads, Provisioning, Building, Reading, Late
<1> QED BY <1>3, <1>5, <1>6, <1>7, OwnStep

\* One of the three steps that fill the form.
LEMMA TakeKeeps ==
  ASSUME DInv, NEW p \in Deployer, TakeManifest(p) \/ TakeSprout(p) \/ TakeAssets(p)
  PROVE  DInv'
<1> DEFINE d == dirs[mem[p].built]
<1>1. at[p] \in Reading
  BY DEF TakeManifest, TakeSprout, TakeAssets, Take, Reading
<1>2. d \in Directory /\ mem[p].form \in Directory
  BY <1>1, Given DEF Fits, Builds, Late, Reading, Memory, DInv, Folders
<1>3. PICK f \in Directory, x \in {"sprout", "assets", "upload"} :
        /\ x = "sprout" => /\ at[p] = "manifest"
                           /\ f = [mem[p].form EXCEPT !["manifest"] = d["manifest"]]
        /\ x = "assets" => /\ at[p] = "sprout"
                           /\ f = [mem[p].form EXCEPT !["sprout"] = d["sprout"]]
        /\ x = "upload" => /\ at[p] = "assets"
                           /\ f = [mem[p].form EXCEPT !["assets"] = d["assets"]]
        /\ at' = [at EXCEPT ![p] = x] /\ mem' = [mem EXCEPT ![p].form = f]
        /\ UNCHANGED <<project, planes, folders, credentialVars>>
  <2>1. CASE TakeManifest(p)
    BY <1>2, <2>1 DEF TakeManifest, Take, Dir, Directory
  <2>2. CASE TakeSprout(p)
    BY <1>2, <2>2 DEF TakeSprout, Take, Dir, Directory
  <2>3. CASE TakeAssets(p)
    BY <1>2, <2>3 DEF TakeAssets, Take, Dir, Directory
  <2> QED BY <2>1, <2>2, <2>3
<1>4. /\ x = "sprout" => f.manifest = d.manifest
      /\ x = "assets" => f.manifest = mem[p].form.manifest /\ f.sprout = d.sprout
      /\ x = "upload" => /\ f.manifest = mem[p].form.manifest
                         /\ f.sprout = mem[p].form.sprout
                         /\ f.assets = d.assets
  BY <1>2, <1>3 DEF Directory
<1>5. PICK m \in Memory : m = [mem[p] EXCEPT !.form = f]
  BY Given DEF Memory
<1>6. /\ m.form = f /\ m.provision = mem[p].provision /\ m.source = mem[p].source
      /\ m.built = mem[p].built /\ m.disturbed = mem[p].disturbed
      /\ mem' = [mem EXCEPT ![p] = m]
  BY <1>3, <1>5, Given DEF Memory
<1>7. x \in Place \ Building /\ at[p] \notin Building
  BY <1>1 DEF Place, Reading, Building
<1>8. Fits(x, m)
  BY <1>1, <1>3, <1>4, <1>6, <1>7, Given
  DEF Fits, Provisions, Builds, Reads, Provisioning, Building, Reading, Late
<1> QED BY <1>3, <1>6, <1>7, <1>8, OwnStep

\* The steps of a build under its lock.
LEMMA InDirectoryKeeps ==
  ASSUME DInv, NEW p \in Deployer,
         \/ Compile(p) \/ CompileFails(p) \/ WriteManifest(p) \/ ClearAssets(p)
         \/ CopyAssets(p) \/ ListAssets(p) \/ AssetsChanged(p)
  PROVE  DInv'
<1>1. at[p] \in Building
  BY DEF Compile, CompileFails, WriteManifest, ClearAssets, CopyAssets, ListAssets,
         AssetsChanged, InDirectory, Building
<1>2. Dir(p) \in Directory
  BY <1>1, Given DEF Fits, Builds, Late, Building, Dir, DInv, Folders
<1>3. Fits(at[p], mem[p])
  BY Given
<1>4. CASE Compile(p)
  <2>1. PICK v \in Binary : v = IF mem[p].fresh THEN p ELSE Cached
    BY DEF Binary
  <2>2. PICK d \in Directory : d = [Dir(p) EXCEPT !.sprout = v]
    BY <1>2, <2>1 DEF Directory
  <2> QED BY <1>1, <1>4, <2>1, <2>2, BuildStep DEF Compile, InDirectory, Building
<1>5. CASE CompileFails(p)
  BY <1>1, <1>2, <1>5, BuildStep DEF CompileFails, InDirectory, Building
<1>6. CASE WriteManifest(p)
  <2>1. PICK d \in Directory : d = [Dir(p) EXCEPT !.manifest = Dir(p).sprout]
    BY <1>2 DEF Directory
  <2>2. d.manifest = d.sprout
    BY <1>2, <2>1 DEF Directory
  <2> QED BY <1>1, <1>6, <2>1, <2>2, BuildStep DEF WriteManifest, InDirectory, Building
<1>7. CASE ClearAssets(p)
  <2>1. PICK d \in Directory : d = [Dir(p) EXCEPT !.assets = Partial]
    BY <1>2 DEF Directory
  <2>2. d.manifest = d.sprout \/ mem[p].built \in robbed
    BY <1>2, <1>3, <1>7, <2>1 DEF ClearAssets, InDirectory, Directory, Fits, Builds, Dir
  <2> QED BY <1>1, <1>7, <2>1, <2>2, BuildStep DEF ClearAssets, InDirectory, Building
<1>8. CASE CopyAssets(p)
  <2>1. PICK copy \in {site, Partial} :
          InDirectory(p, "copy", "list", [Dir(p) EXCEPT !.assets = copy])
    BY <1>8 DEF CopyAssets
  <2>2. PICK d \in Directory : d = [Dir(p) EXCEPT !.assets = copy]
    BY <1>2, <2>1, Given DEF Directory
  <2>3. d.manifest = d.sprout \/ mem[p].built \in robbed
    BY <1>2, <1>3, <2>1, <2>2 DEF InDirectory, Directory, Fits, Builds, Dir
  <2> QED BY <1>1, <2>1, <2>2, <2>3, BuildStep DEF InDirectory, Building
<1>9. CASE ListAssets(p)
  <2>1. /\ Dir(p).manifest = Dir(p).sprout \/ mem[p].built \in robbed
        /\ Dir(p).assets = mem[p].built.site
    BY <1>3, <1>9 DEF ListAssets, Fits, Builds, Dir
  <2> QED BY <1>1, <1>2, <1>9, <2>1, BuildStep DEF ListAssets, InDirectory, Building
<1>10. CASE AssetsChanged(p)
  BY <1>1, <1>2, <1>10, BuildStep DEF AssetsChanged, InDirectory, Building
<1> QED BY <1>4, <1>5, <1>6, <1>7, <1>8, <1>9, <1>10

\* The steps that end a deploy and leave the locks as they are.
LEMMA EndKeeps ==
  ASSUME DInv, NEW p \in Deployer,
         \/ NoToken(p) \/ BuildFails(p) \/ LockTimeout(p) \/ DryRun(p)
         \/ AssetMissing(p) \/ UploadFails(p) \/ Killed(p)
  PROVE  DInv'
<1>1. /\ at' = [at EXCEPT ![p] = "done"] /\ mem' = [mem EXCEPT ![p] = NoMemory]
      /\ UNCHANGED <<project, planes, folders, credentialVars>>
  BY DEF NoToken, BuildFails, LockTimeout, DryRun, AssetMissing, UploadFails, Killed, Leaves
<1> QED BY <1>1, Leaving

(***************************************************************************)
(* All of it                                                               *)
(***************************************************************************)
LEMMA InitDInv == DeployInit => DInv
<1> SUFFICES ASSUME DeployInit PROVE DInv
  OBVIOUS
<1>1. IInv
  BY InitIInv DEF DeployInit
<1>2. Planes
  BY DeployAssumption DEF DeployInit, Planes, Kept, Ids
<1>3. Folders /\ DOMAIN dirs = {}
  BY DEF DeployInit, Folders
<1>4. Locks
  BY DEF DeployInit, Locks, Building
<1>5. Deploys
  <2>1. at \in [Deployer -> {"idle", "done"}] /\ mem = [p \in Deployer |-> NoMemory]
    BY DEF DeployInit
  <2>2. NoMemory \in Memory
    BY NoMemoryFits DEF Fits
  <2>3. \A p \in Deployer : Fits(at[p], mem[p])
    BY <2>1, <2>2
    DEF Fits, Provisions, Builds, Reads, Place, Provisioning, Building, Reading, Late
  <2> QED BY <2>1, <2>2, <2>3 DEF Deploys, Place
<1> QED BY <1>1, <1>2, <1>3, <1>4, <1>5 DEF DInv

LEMMA DeployStepKeeps ==
  ASSUME DInv, NEW p \in Deployer, DeployStep(p)
  PROVE  DInv'
BY StartKeeps, ReadConfigKeeps, LocateKeeps, HasTokenKeeps, ProvisionKeeps, ProvisionFailsKeeps,
   PinConfigKeeps, ReadProjectKeeps, PrepareKeeps, TakeLockKeeps, FindStaleKeeps,
   BreakLockKeeps, InDirectoryKeeps, UnlockKeeps, TakeKeeps, UploadKeeps, EndKeeps
DEF DeployStep

LEMMA StepDInv == DInv /\ [DeployNext]_deployVars => DInv'
<1> SUFFICES ASSUME DInv, [DeployNext]_deployVars PROVE DInv'
  OBVIOUS
\* Steps in which no deploy moves.
<1>1. ASSUME UNCHANGED <<config, planes, folders, at, mem>>, site' \in 0 .. MaxSites, IInv'
      PROVE  DInv'
  BY <1>1
  DEF DInv, Planes, Folders, Locks, Deploys, Fits, Provisions, Builds, Reads, Kept, BareIn
<1>2. CASE UNCHANGED deployVars
  BY <1>1, <1>2, StepIInv DEF deployVars, DInv, Planes
<1>3. CASE SiteBuild
  BY <1>1, <1>3, StepIInv, DeployAssumption DEF SiteBuild, DInv, Planes
<1>4. CASE Next /\ UNCHANGED <<project, planes, folders, at, mem>>
  BY <1>1, <1>4, StepIInv DEF DInv, Planes
<1>5. CASE \E p \in Deployer : DeployStep(p)
  BY <1>5, DeployStepKeeps
<1> QED BY <1>2, <1>3, <1>4, <1>5 DEF DeployNext

LEMMA Invariance == DeploySpec => []DInv
  BY InitDInv, StepDInv, PTL DEF DeploySpec

\* Every variable has its type, and a directory whose lock was never taken away
\* from a build has at most one deploy that builds in it, and is locked as long,
\* whichever others wait, find its lock too old, are killed or were killed there.
THEOREM DeployTypeCorrect == DeploySpec => []DeployTypeOK
<1>1. ASSUME DInv PROVE DeployTypeOK
  BY <1>1 DEF DeployTypeOK, DInv, IInv, Planes, Folders, Locks, Deploys
<1> QED BY <1>1, Invariance, PTL

\* However many deploys overlap, fail half way, are tried again and write over
\* each other's sproutboat.jsonc, while logins and logouts move the active
\* endpoint: a version deployed with provisioning has a store for each binding,
\* and two versions never have two stores for one binding at one control plane.
THEOREM StoresSurvive == DeploySpec => []StoreSurvives
<1>1. ASSUME DInv PROVE StoreSurvives
  <2>1. \A v \in versions : v.provisioned => BareIn(v.ids) = {}
    BY <1>1 DEF DInv, Planes
  <2>2. ASSUME NEW v \in versions, NEW w \in versions, NEW b \in Binding,
               None \notin {v.ids[b], w.ids[b]}, v.ids[b].at = w.ids[b].at
        PROVE  v.ids[b] = w.ids[b]
    <3>1. Kept(v.ids) /\ Kept(w.ids)
      BY <1>1, <2>2 DEF DInv, Planes
    <3>2. \A s, t \in stores : s.at = t.at /\ s.for = t.for => s = t
      BY <1>1 DEF DInv, Planes
    <3> QED BY <2>2, <3>1, <3>2 DEF Kept
  <2> QED BY <2>1, <2>2 DEF StoreSurvives
<1> QED BY <1>1, Invariance, PTL

\* What is uploaded is what one build left, for any number of deploys that share
\* directories, remove locks they find too old and are killed while they build;
\* unless another build took the directory while it was read, or its lock was
\* taken away from a build at work.
THEOREM UploadsAreWhole == DeploySpec => []UploadIsWhole
<1>1. DInv => UploadIsWhole
  BY DEF DInv, Planes, UploadIsWhole
<1> QED BY <1>1, Invariance, PTL

=============================================================================
