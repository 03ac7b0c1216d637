# Verification of the Sproutboat CLI

TLA+ models of the parts of `sproutboat` (the command-line tool in `src/src/`)
where several processes, callbacks or failures meet, with TLC configurations
that check them on small instances and TLAPS proofs for every instance.
`PROJECT.json` lists the runs, the theorems, what each definition stands for in
the source, the hazards and the findings.

## The system

The CLI builds a web handler into a native binary, runs it locally, and deploys
it to a control plane. It keeps no daemon: what runs at the same time are
several invocations of the CLI (in one project, or in one user's account), and
inside one invocation the callbacks of a single-threaded event loop. Processes
meet only in the file system.

| Component | State it keeps | Operations | Meets | Hard about it |
|---|---|---|---|---|
| compile cache (`compile-cache.ts`) | `.sproutboat/compile-cache/<key>` (binary + record), `<key>.lock`, stages | `compileCached`, `verified`, `publish` | other builds of the project | lock directories without owner, recovery by age, deadlines, two-step reads, kills |
| build pipeline (`build.ts`) | artifact directory, `porffor-units/<shape>/sprout.generated.js`, artifact and unit locks | `buildArtifact`, `emitGenerated` | cache (callback), toolchain caches, compiler | nested locks with one age limit, one file shared by all builds of a shape |
| native compile (`compile.ts`) | the generated file, Porffor's build directories | `compileSprout`, `writeGenerated`, `prunePorfforBuilds` | build pipeline, external compiler | a time limit on one channel only, pruning what another build uses |
| dev server (`dev.ts`) | running and pending candidate, `dirty`, `rebuilding`, timer, watchers, public route | `runDev`, `start`, `stop`, `onChange`, `shutdown` | file watcher, child processes, broker, signals | callbacks between awaits, coalescing of saves, shutdown during a build, exits |
| toolchain caches (`toolchain.ts`, `sqlite.ts`, `bearssl.ts`) | the trees of Zig, uWebSockets, SQLite and BearSSL, each with a completion manifest, a lock and stages | `ensureZig`, `ensureUWebSockets*`, `ensureSqliteObject`, `ensureBearssl` and what they share | every build of the user | 30 s waiters, 5 min age limit, long downloads, trees filled in place, pairs of renames, use after release |
| pinned downloads (`fetch-pinned.ts`) | one cached archive | `fetchPinned` | toolchain | which failure is final, which is retried |
| credentials (`credentials.ts`, login in `main.ts`) | `credentials.json`: tokens and the active endpoint | `saveToken`, `forgetToken`, `resolveApiUrl` | other invocations | unlocked read-modify-write |
| deploy, provisioning, management (`main.ts`) | `sproutboat.jsonc`, resources and deployments of the control plane | `provisionBindings`, `deploy`, `rollback`, KV bulk writes, ... | control plane (HTTP) | failure between remote steps |
| live tail (`tail.ts`) | failure count, back-off, idle timer | `runTail`, `readFrames` | control plane (event stream) | reconnects, aborts, budget |
| storage commands (`main.ts`) | the control plane's namespaces and contents, the file of an export | `storage`, `kvContents`, `writeAtomic` | other commands, other machines | pages read while they change, bulk batches, replacing a file whole |
| other management commands (`main.ts`, `api-version.ts`, `update-check.ts`) | endpoint and token, the file of the last update check | `versions`, `rollback`, `domains`, `secrets`, `remove`, `whoami`, `waitForHealthy` | control plane, credentials | two reads of one file, what is said of an odd answer |
| command lines (`main.ts`, `tail.ts`, scripts) | none | each command's own reading of its arguments | | operands told from option values by their place |
| bundling (`bundle.ts`, `node-shims.ts`) | none | resolving imports, replacing free names, the shims' functions | Bun's bundler | decisions by pattern, scanners of paths |
| native restore (`native-restore.ts`) | none | the dispatcher in a standalone binary, the renaming of its object's symbols | the application's object | numbers near 2^64, names that collide |
| standalone recipes (`standalone-deploy.ts`) | `/opt/<name>`, systemd units, a container, a Fly machine | `writeDeployFiles` and the scripts it writes | systemd, Docker, Fly | broken-off copies, restarts, two times in different files |
| linked packages (`scripts/with-local-packages.ts`) | `node_modules/@sproutboat/*` and what is moved aside | the run, its repair, its restore | other runs, signals, the package manager | overlapping and killed runs |
| types and reports (`types-gen.ts`, `report.ts`) | `sproutboat-env.d.ts` | `generateTypes`, `refreshTypes`, `projectReport` | | one list of kinds written four times |
| the rest | none, or text | styles, help, prebuild scripts, re-exports, benchmarks | | text, sequential or external |

What makes each of them correct:

* **caches**: a caller only ever gets something complete that was made for what
  it asked for; the expensive work is done once; a live holder is not robbed; a
  dead holder does not block others for ever; nothing is left behind.
* **build pipeline**: the compiler reads the source of its own build, as long as its
  lock is not taken away for its age.
* **dev server**: one server serves at a time, it is the newest that came up, a
  bad save changes nothing, saves settle, a signal stops everything.
* **live tail**: it gives up exactly when its budget of failures is spent, never
  hangs on a silent server, and the signal always ends it.
* **credentials**: a command is never sent to an active endpoint that has no
  token, whatever logins and logouts overlap.
* **deploy**: a binding keeps its store; what is uploaded is one build's result.
* **storage commands**: what is written over a file is a faithful dump of what the
  answers held, or nothing.
* **functions** (command lines, paths, bundles, keys, manifests, event frames,
  doctor, lists of bindings): the code's way of working it out and the definition
  of what is wanted give the same answer for every question.
* **downloads**: one good source, or one good copy, suffices.
* **restore**: the transaction id is exactly the number that was written.
* **recipes**: what runs is a whole program, and an upgrade resets no request.
* **linked packages**: no package's own directory is ever lost.

## Modules

| Module | Models | Composes |
|---|---|---|
| `DirLock` | the lock directory: free or an age, saturating one tick past the limit | |
| `SingleFlight` | abstract: what the compile cache promises, without files or locks | |
| `CompileCache` | `compile-cache.ts` | `DirLock`; refines `SingleFlight` |
| `CompileCacheProofs` | theorems about `CompileCache`, with the refinement | |
| `BuildPipeline` | the compile callback of `build.ts`, the unit lock, `--emit-only`, uncached builds | `CompileCache` + a second `DirLock`; refines `CompileCache` |
| `BuildPipelineProofs` | theorems about `BuildPipeline`, with the refinement | `CompileCacheProofs` |
| `DevServer` | `dev.ts` | |
| `DevServerProofs` | theorems about `DevServer` | |
| `ToolchainCache` | the shared trees of `toolchain.ts`, `sqlite.ts` and `bearssl.ts`: Zig, uWebSockets, SQLite, BearSSL | `DirLock` |
| `ToolchainCacheProofs` | theorems about `ToolchainCache` | |
| `LiveTail` | `runTail` of `tail.ts` | |
| `TailFrames` | `readFrames`, `toFrame`, `toEvent` of `tail.ts` | |
| `LiveTailProofs` | theorems about `LiveTail` and `TailFrames` | |
| `Credentials` | `credentials.ts`, `login`, `logout` | |
| `Deploy` | `deploy` and `provisionBindings` of `main.ts`, the artifact directory of `build.ts` | `Credentials` |
| `DeployProofs` | theorems about `Credentials` and `Deploy` | |
| `KvContents` | `storage`, `kvContents`, `writeAtomic` of `main.ts` against a control plane | |
| `LocalPackages` | `scripts/with-local-packages.ts` | |
| `Retries` | `fetchPinned`, the Zig archive's download, `waitForHealthy` | |
| `RestoreCommand` | the C dispatcher of `native-restore.ts` | |
| `RestoreBuild` | the symbols of the restore's object | |
| `PorfforBuilds` | `prunePorfforBuilds` beside compiles | |
| `StandaloneDeploy` | the recipes of `standalone-deploy.ts`, carried out | |
| `CommandsProofs` | theorems about `RestoreCommand`, `Retries`, `KvContents`, `PorfforBuilds`, `LocalPackages` and `StandaloneDeploy` | |
| `CommandLine` | how every command reads its arguments | |
| `ProjectCommands` | management commands, `api-version.ts`, `update-check.ts` | |
| `CompilePlan` | checks, compile key, target and channel, objects and manifest: `build.ts`, `compile.ts`, `targets.ts` | |
| `HostTools` | `toolchain doctor` against what a build uses | |
| `Bindings` | types, report and manifest of a project's bindings; `refreshTypes` | |
| `NodeShims` | `node:path`, `node:querystring`, `node:url` of `node-shims.ts` | |
| `HandlerImports` | the plugins of `bundle.ts` | |
| `Questions` | one question to one of six of these modules, and its answer | `CompilePlan`, `HostTools`, `ProjectCommands`, `RestoreBuild`, `HandlerImports`, `Bindings` |
| `QuestionsProofs` | theorems about `Questions` | |
| `CommandsMC` | all from `KvContents` on and `TailFrames`, one part moving in each behaviour | |
| other `*MC` | processes, keys and symmetry for TLC | |

### CompileCache

One process is one call of `compileCached`. `pc` is the place in the function
between two awaits whose results another process can change: `fast` (first
`verified`), `mkdir` / `poll` / `stat` / `break` (the lock loop), `recheck`,
`clear`, `compile`, `install` (under the lock), `publish`, `release` (the
`finally` block). An entry is a pair (record, bytes): `verified` reads the
record (`ReadRecord`, kept in `seen`) and later the bytes (`VerifiedHit`,
`Missed`). A binary is named by the key it was compiled for and the process
that compiled it; a digest is the binary itself, so "the digest matches" is
equality. `stat` and `rm` of an old lock are two steps, as in the code, and
`rm` removes whatever directory is there. `Kill` ends a process with no
`finally`; `Damage` alters an entry from outside; a `Tick` ages every lock and
every process's timer, as long as one call is not over, begun or not. `HoldMax`
bounds how long a live process holds the lock.

### BuildPipeline

Adds to every process its `kind` (cached, bypass, emit) and the second state
machine `upc` that runs inside `compile()`: the unit lock's loop
(`acquireArtifactLock`), `writeGenerated`, the compiler, the release. The
generated file is the key whose source it holds. A compile is a series of reads
(`ReadSource`), each of the generated file or of what another compiler that runs in
the same directory has made of its own (`sprout.a22.js`, `units-a22`), and the binary
is of the source read last; a mixture counts as one of its sources. A killed
build's compiler is taken to die with it. A tick (minutes) passes only
when every live process sleeps in a lock loop, its deadline not over, or waits for
the compiler (`Asleep`), since all other steps take far less; it adds to the timers
of those who wait and of those who hold, for which `CompileCache` has a limit.

Only the alpha 19 channel ends a compile after a time (compile.ts:403-407); the
default channel's (compile.ts:431-498) has no limit, so a live build may still be
compiling when its unit lock is older than 15 minutes, and who waits for the lock then
removes it (build.ts:111-112). The model has that: `CompileMax` is larger than
`StaleAge`, `overran` remembers the live builds whose hold has outlasted the limit and
`robbed` those whose lock was removed; both are history. The properties say what the
code keeps: until a live build has lost the unit lock the file is its compiler's own
and every binary of its own source, and none loses it unless a build was killed in
the unit or has outlasted the limit (`LockLost`). After that nothing holds (Findings).

`ImplementsCompileCache` maps the pipeline to it: a bypassing or emitting build is a
call that never starts, all that is in `compile()` is the time before `Compile` or
`CompileFails`; it holds as long as no live build loses the unit lock. Builds have artifact directories of their own:
`acquireArtifactLock(artifactDir)` then never makes one wait. Builds of one key
with different configurations or assets do have different directories.

### DevServer

The coordinator's code runs from await to await; so does each action. Rebuild
`t` yields candidate `t`; candidate 0 is the first build. `disk` is a version
number that each `Save` increments, `event` a notification the watchers have
not delivered. `OnChange`, `TimerStarts`/`TimerIgnored`, `ReadOk`, `StartOk`,
`Switch`, `NotReady` and so on are the stretches of `onChange`'s task;
`Finally` is part of each action that ends it. `Stop` is `stop()`. A sprout may
exit at any time, a build or a readiness check may fail at any time,
`resetWatchers` may throw `MaxWatchErrors` times, in a switch (`SwitchWatchFails`) or
when the first build is ready (`FirstWatchFails`: `runDev` rejects, the command ends and
its candidate is not stopped); a signal may come at any time
after the first build. `exits` is `exitOnShutdown`, `watch` is `--no-watch`
negated. The public route, `activePort`, changes with `running` in one
synchronous stretch, so `running` stands for both.

### ToolchainCache

One behaviour is about one of eight trees (`tree`) and the calls that ensure it.
All have a lock directory and a completion manifest; they differ as follows.

| Tree | Code | Made | Looked at first | Manifest names the compiler |
|---|---|---|---|---|
| `zig` | `ensureZig` | in a stage, one rename of the directory | yes | no |
| `bearssl source` | `sourceTree` | the same | only under the lock | no |
| `sqlite source` | `amalgamation` | file, then manifest, by two renames | yes | no |
| `sqlite object` | `ensureSqliteObject` | the same | yes | yes |
| `trust anchors` | `trustAnchorSource` | the same | only under the lock | no |
| `uws musl` | `ensureUWebSockets` | unpacked in place | yes | no |
| `uws compiled` | `ensureUWebSocketsHost`, `...Standalone` | unpacked in place, certified, stripped, compiled, certified again | yes | yes |
| `bearssl objects` | `ensureBearssl` | compiled in place | yes | yes |

Two waiters exist in the code. Zig's polls for the tree, looks whether the lock
exists, then calls `stat`, and starts from scratch with a new deadline when the
lock goes away. The loop of the other three locks tries the `mkdir` again and
has one deadline. `files` is what is at the path: what the archive or a
compiler gives, the bare archive (`Raw`), the process that has half made it, or
`Spoilt`. The manifest's digests are that value, so "the digests match" is
equality. `robbed` and `built` are history for the properties. After a call
succeeds it is at `use` until its build has linked. Reading a manifest and
hashing what it names are one step: a reader sees at worst a mixture of two
trees made alike. Left out: that a cache directory cannot be written, and which
compiler `resolveHostCompiler` finds.

### LiveTail

One loop and its environment. `pc` is where `runTail` waits: `fetch`, the text
of an error answer (`refused` for a final 4xx, `unwell` for the rest),
`stream`, `sleep`. `cut` is the attempt's own controller, which the idle timer
and the user's signal both abort. `idle` counts ticks since the timer was
armed; `silent` counts ticks since the server sent anything, frame or not. The
two are equal until a keepalive, which is the whole finding. `ReconnectsOnlyOnSilence` is
about an open stream that has delivered a frame; in TLC's trace a frame, a tick, a
keepalive and a tick come before the idle timer cuts the stream. `past` remembers
how the last `MaxFailures` attempts ended; it belongs to the properties, the
code has only `failures`. `Caught` is the catch block, entered from four
actions. What a frame says is left out.

### Credentials

One call of `login` or `logout` reads the whole file (`SaveReads`,
`ForgetReads`), changes the copy in `held` and renames a new file into place
(`SaveWrites`, `ForgetWrites`); any number of them overlap, with no lock. A
token is the endpoint it is for, so the file is the active endpoint and a set
of endpoints. `Approved` and `NotApproved` are the browser flow's outcomes.
Of two logins at once one may be lost; what must not happen is that the active
endpoint is left without a token.

### Deploy

Each deploy's place in `deploy()` is `at[p]`, what it has in memory `mem[p]`: the
ids it has read and pins, the endpoint it has resolved, the artifact, and the
form it fills for the upload. `sproutboat.jsonc` is the id of each binding;
`stores` and `versions` are the control plane's, which answers
`ifExists: "return"` with the store that has the name. An artifact is named by
the configuration and assets it is built from, as its directory is, so deploys
of one input share a directory and its lock: `TakeLock` to `Unlock` is
`buildArtifact`, with the binary, the manifest, the assets and their comparison
as steps of their own. The configuration is read (`ReadProject`) before the assets
are listed (`Prepare`), and either may have changed by then.

The lock is the same `acquireArtifactLock` as the unit's: a waiter that finds it older
than 15 minutes removes it (`FindStale`, `BreakLock`, two steps), be it one that a killed
build has left (`Killed`) or that of a build still at work, and `Unlock` removes whatever
lock is there. `Deploy` has no clock, and a build with its waits and its compile has no
longest time, so any lock may be found too old. `robbed` is history: the artifacts whose
lock was taken away from a build at work. Two builds may then write one directory, and
`UploadIsWhole` promises nothing more of that artifact.

The upload reads the directory file by file without the lock, and `disturbed` is history
for the other exception: another build of the same input took the directory in between
(hazard at main.ts:568). Nothing in the repository says that this cannot happen, and it
can; no property covers it. `fresh` is a build that bypasses
the compile cache: its binary is its own, that of the others is the cache's. `apiCredentials`
is called twice, before provisioning and before the upload, and each call reads
the file twice (`Locate`, `HasToken`). `SiteBuild` replaces the assets at any
time. Left out: `--artifact`, deploys killed outside a build (they leave no more than one that
fails there), endpoints and tokens from the environment, user edits
of the configuration (which a deploy may overwrite: main.ts:471), and the
readiness wait after the upload, which only warns (it is in `Retries`).

### KvContents

A command is a place in `storage` or `kvContents` and what it holds: the id it
has looked up, what it has received, the listing's page and cursor. `nsName` and
`contents` are the control plane's. Each request is a step, so a namespace may be
renamed, deleted or changed between any two of them. `staged` is the temporary
file of `writeAtomic`, `dest` the file it replaces. An answer that is no success ends the
command (`Fails`), and so does an array that is none where the code insists on one
(main.ts:1229). Otherwise the code takes from an answer what it understands and goes on:
a listing without `keys` or `cursor` is an empty or a last page (main.ts:1217, 1237,
`ListShort`), an entry without a text for its key or value is skipped (main.ts:1232,
`ReadPage`), a bulk answer that is no array adds nothing (main.ts:1184, `Bulk`). A dump
that was cut short so is published, and reported, as a success; `missed` is history for
it, and `OutputFaithful` asks completeness only of an export that missed nothing. An export is judged by `seen`:
what each key has held since the command looked the namespace up.

### LocalPackages

Runs of the script, each the sequence of its file system calls: repair of what
an earlier run has left, then for each package the rename and the link, the
command, and the restore. A run may be killed between any two calls. All before the
command is synchronous, so signals are heard while it runs: the first is passed on,
the second kills it, and either way the run restores. `Reinstall` is a package
manager. `NeverLost` concerns a directory that exists; `Restored` is
about a run that no other overlaps (`sole`).

### Retries, PorfforBuilds

`Retries` is one call of one of three loops; a source may answer anything each
time. `asked` counts the requests to each, `steady` says which sources always
answer right: the property is that one of these suffices. For `waitForHealthy`,
time is in seconds, with the code's 90 and 5. `PorfforBuilds` has pruners that
list, stat, sort and remove step by step while compiles use directories. The
listing has no order, the sort is stable, and `index` counts through what it
gave; a day is a tick. `lastUse` is history: when a directory was last used,
also when it is gone.

### RestoreCommand, RestoreBuild

`RestoreCommand` walks `argv` and reads the id digit by digit in arithmetic
modulo `MaxTxid + 1`; `exact` is the same number without a bound and belongs to
the proof. `RestoreBuild` takes every object `nm` could describe over five
symbols, and asks what inventory, renaming and check leave.

### StandaloneDeploy

A recipe is one of three (systemd, Docker, Fly). For systemd each line of
`deploy-vps.sh` is an action (copy to `/tmp`, begin and end of the install,
rename, socket, restart), any of which may be the last (`BreakOff`); systemd's
socket keeps connections while the service is down, starts it, restarts it after
a failure, and kills it when its time is over. Times are seconds in steps of two:
the binary's drain against `TimeoutStopSec`, `docker stop` and `kill_timeout`.
`image` is what runs, which may be half copied only if it was started from a
file that was. One deployment runs at a time.

### TailFrames

A behaviour is one body. The decoder takes it byte by byte (`DecodeByte`), a chunk
may end after each (`ChunkEnds`), also within a character, whose first byte is kept
(`half`); then the loop over blank lines cuts block after block from `buffer`
(`CutBlock`) until there is none (`ChunkDone`). `text` is all that the decoder has
given, and belongs to the properties: they define from it alone where blocks end
(of the newlines in a row every second one, from the first) and never speak of
chunks. A body ends or breaks off. What a frame says is `ToFrame`, an event's fields
are known by their kind.

### Modules of functions

`CommandLine`, `CompilePlan`, `HostTools`, `Bindings`, `NodeShims`, `HandlerImports`,
`ProjectCommands` and `RestoreBuild` have no state of their own. Each
defines a set of questions, `...Answer`, which works the answer out in the way
and order the code does, and `...Right`, which says what is wanted in terms that
are not the code's: segments instead of a scanner, a grammar instead of indices
into `argv`, the inputs that change a binary instead of the fields of a key.
`CommandsMC` asks one question per behaviour; those whose answers are the subject of
theorems are asked in `Questions`.

* `CommandLine`: every command of `main.ts`, `parseTailArgs` and the argument
  loop of `with-local-packages.ts`; a question is a form of the documented grammar
  with its options, flags and operands in any order.
* `CompilePlan`: builds with every target, channel and environment variable the
  code looks at. Two builds with one key must compile the same; the manifest must
  say of the binary what it is.
* `HostTools`: every state of the variables and directories the doctor looks at.
* `Bindings`: projects with one or two bindings of any kind and date. A list is a
  sequence of kinds with the rows of each; the order within a kind is left out.
* `NodeShims`: paths up to `PathLength` characters, pairs up to `PairLength`.
* `HandlerImports`: modules and what imports them, files as the plugins'
  patterns see them (what is declared, used, written), names of functions.
* `ProjectCommands`: every credentials file, environment and answer; two files
  where the code reads twice.

## Runs

| Run | Question | Result |
|---|---|---|
| `cache` | three builds of one key, undisturbed but for one damaged entry: exclusion, no wasted compile, no valid entry lost, single flight | holds |
| `cache_takeover` | two builds, kills, holders slower than the age limit, two damages: sound output, clean exit, termination | holds |
| `pipeline` | cached, bypassing and emitting builds over one generated file, one of them mortal, compiles longer than the lock's age limit | holds until a live build has lost the unit lock, and none does before a build was killed there or outlasted the limit |
| `dev` | three saves, all interleavings: one server, no leak, never older, saves settle | holds |
| `dev_bad_save` | does a bad save keep the server up? | violated: `fail()` exits the process |
| `toolchain` | three builds needing one tree, one mortal, one damage, for each of the eight trees: whole, made once, kept, clean exit, termination | holds |
| `zig_waiter` | do concurrent calls share a healthy download? | violated: `stat` throws ENOENT |
| `tail` | the reconnect loop against any server: budget, back-off, no hang, the signal ends it | holds |
| `tail_keepalive` | does a keepalive keep the stream open? | violated: only frames arm the idle timer; frame, keepalive, cut |
| `deploy` | two deploys of one project beside a login or logout, a site rebuilt meanwhile, failures anywhere, builds killed, locks found too old; and three logins and logouts at once: stores survive, uploads are whole, the active endpoint has a token | holds |
| `commands` | the parts of `CommandsMC`: faithful exports, packages never lost, sources that suffice, exact ids, builds kept, deployments that serve, frames whole wherever a body is cut, and the functions against their definitions | holds |
| `deploy_directory` | is the directory given to `deploy` the one that is deployed? | violated: without `--artifact` the first operand is skipped |

Bounds. Three processes are the least that give a holder, a waiter that steals
and a third that is robbed; two keys tell apart "another key" from "my key".
`Deadline < StaleAge` as in the code (12 < 15 minutes, 30 s < 5 minutes). In
`cache`, `HoldMax = StaleAge`, the boundary at which `>` still protects a
holder. In `cache_takeover`, `HoldMax = StaleAge + 1`, so that live holders are
robbed too. In `toolchain` a robbery takes a
killed holder, whose lock two waiters see stale before one of them replaces it.
In the pipeline run the deadline is 1, the limit 2 and a compile takes at most 3
ticks: it ends before the limit, at it or after it, and a wait and a compile are longer
than the limit together though neither is alone. Two constraints cut the run where
nothing is left to ask: `UntilLost` ends a behaviour at the state in which a live
build has lost the unit lock, after which both properties are excused for good, and
`Mixed` leaves out builds of one source only and three cached builds among
themselves. `UntilRobbed` is the same for `deploy`. In the part `kv` of
`commands`, one namespace is the named one from the start: no other constant tells the
namespaces apart.
In `deploy`, one storage binding, two control planes and one replacement of the
site; `DeployMC` starts the deploys from the two files from which one login or
logout moves the active endpoint, and the logins and logouts alone from all.
In `commands` two storage commands, one reading and one doing everything else,
are enough for a page to change between two reads; batches of 1 and pages of 2
over 3 keys make both loops go round more than once. Two packages and two runs
give overlap, and `--only a,a`. `MaxTxid` 255 with texts of three digits has every
way to overflow. Five characters of `/`, `.` and two letters hold every
combination of segments `.`, `..`, empty and named that a scanner tells apart;
five arguments hold two options with values and an operand. `Bodies` are up to four
lines of five kinds and a line that has not ended: two blocks, a comment and every
row of newlines up to four. `OwnName` and `OddName` are the names of the application's
own symbols and of one that the restore's object must not have. Two pruners, two directories, one
kept. For `StandaloneDeploy` the times are those of the recipes, `Needs` is below,
between and above the drains, and two versions are an upgrade.
Three saves give a rebuild, one coalesced during it and one after it. In `tail` the budget is the
code's 5 and the first delay 2000 ms instead of 500, so that the cap of 8000 ms
is reached within the budget; two ticks of idle time let frames, keepalives and
the timer meet in every order. Symmetry
permutes processes that no constant tells apart, and is used only in runs
without liveness.

Fairness. `CompileCache!FairSpec` and `ToolchainCache!FairSpec`: each call is weakly
fair (the processes are run by the operating system) and time passes. For a tree that
rests on the downloads' time limits. For the compile cache it takes for granted that a
compile ends: on alpha 19 `COMPILE_TIMEOUT_MS` sees to it, on the default channel nothing
in the CLI does, so `Termination` is as good there as the external compiler. `DevServer!FairSpec`: the event loop runs what is
ready; no fairness on saves, signals, exits or a sprout's start to listen (the
readiness wait is bounded, so `NotReady` is always possible). `LiveTail!FairSpec`: the
loop, its timers and the rejection of an aborted request run; the server and
the user may do nothing for ever. Deadlock is checked but for `DevServer`,
`LiveTail`, `Deploy` and `CommandsMC`, which end. `commands` has no fairness: its
properties are of safety, and the loops in it are bounded by counters.

## What is proved

Each theorem holds for every value of the constants that satisfies the `ASSUME`s
of its module (finiteness, distinct values, sizes that are numbers) and the
condition named here, where there is one. A proof has one lemma for each action
or for each group of actions that touch the same part of the invariant, and a
last step in temporal logic.

The conditions say when the code promises what the theorem states. A lock that is
stolen by age protects its holder only as long as no hold outlives that age:

| Condition | Says | In the code |
|---|---|---|
| `Undisturbed` (`CompileCacheProofs`) | nobody is killed, and no cache lock is held past its age limit | nothing in the code keeps it: on alpha 19 a compile ends after 10 of the 15 minutes, on the default channel it has no limit, and up to 12 minutes of waiting for the unit lock come on top (see Findings). It is the usual case, not a guarantee |
| `LongEnough` (`BuildPipelineProofs`) | `HoldMax`, the time that `CompileCache` lets a call hold its lock, is at least the deadline for the unit, a tick, and a compile | no limit of the code's: it says which `CompileCache` is implemented, one whose calls hold as long as the wait and the longest compile, however long that is, not the one that `Undisturbed` asks. One tick less and TLC finds the refinement violated |
| `[](robbed = {})` (in `PipelineImplementsCache`) | no live build has lost the unit lock | as above: true unless a build was killed in the unit or compiled past 15 minutes |
| `Prompt` (`ToolchainCacheProofs`) | no tree takes longer to make than its lock's age limit | 5 minutes; a download may be slower |

What is stated without a condition holds through theft, kills and damage.

### CompileCacheProofs

* `TypeCorrect`, `OutputIsSound`, without condition. The invariant is `TypeOK`
  strengthened by: the bytes a process holds, the record it has read and the record
  of an entry are of the key they are kept under. Types alone do not give it:
  publication takes its bytes from memory, which came from an entry, which came
  from an install.
* `NothingLeft`, without condition. A lock directory is always one that some live
  process will remove, though perhaps not the one that made it, and a stage is
  its own process's (`CleanInv`).
* `Mutex`, `NoCompileWasted` under `Undisturbed`. Exclusion is not inductive: it
  needs that a holder's lock exists and is as old as the holder's timer says
  (`LockInv`), hence never stale, hence that nobody is at `break`, which is
  where a lock is lost. That a rename finds nothing in its way then follows from
  exclusion between `clear` and `install`.
* `ValidEntriesStay`, `CacheIsSingleFlight` under `Undisturbed`. Both need that
  what was refused under the lock stays refused until it is cleared (`RecheckInv`).
  The refinement needs besides that each binary there is was made by a process
  that still holds it (`MadeInv`), since the abstract cache answers with one of
  those. `Flies` shows that the choice in the refinement mapping is no choice: at
  most one process compiles for a key. Every step is then one of `SingleFlight`'s
  or leaves its variables alone.

### BuildPipelineProofs

* `BinariesAreOwn`, `SourceStaysOwn`, without condition, for any times and any
  compiles; what they say is in the two properties. The cache's locks protect nothing
  here, so nothing is assumed of them. There are two invariants. As long as no live
  build has lost the unit lock it has one holder, and who compiles reads its own
  source (`Orderly`); from there a binary's key goes with it through cache and entry,
  which is `OutputIsSound`'s invariant again. And no live build loses it before one
  was killed in the unit or stayed past the limit (`InTime`): until then a held lock
  is as old as its hold, hence never stale, hence nobody is about to remove it.
* `PipelineLeavesNothing`, for any times and without condition: `CompileCache`'s argument
  (`CleanInv`) once more, around a compile that takes steps, and that a directory of the
  unit lock belongs to a build that will remove it (`Attended`).
* `PipelineImplementsCache` under `LongEnough`, for the runs in which no live build loses
  the unit lock: the theorems about `CompileCache` speak of the pipeline's
  cached builds. Each step of the pipeline is a step of the cache, a tick, or none that
  it sees. `CallsInv` has what this takes: where a build that uses the cache, and one
  that does not, can be (`Placed`); that a hold has lasted no longer than the wait for
  the unit and the compile (`Spent`); and that the binary a compiler gives is its own
  build's (`Signed`), of its own key by the theorem above.

### ToolchainCacheProofs

The invariant has two halves. What is at the path and in the manifest is right as
long as no live holder was robbed (`Alone`, `Owned`, `Certified`, `Sealing`): a holder
finds what it left itself. And nobody is robbed when nobody is killed and the
condition holds (`Timely`).

* `AcceptedIsWhole` needs the first half only, `TreesLeftClean` that a lock and a
  stage belong to a call that will remove them (`Tended`); neither has a condition.
  What both properties except is in their definitions.
* `BuiltOnce`, `TreesStay` under `Prompt`. The first has the invariant that who
  has made the tree is about to put it in its place, or every call would accept
  what is there (`MadeOnce`).

### DevServerProofs

`ServesWithOne`, `NothingLeaks`, `NeverGoesBack`, without condition, for any number
of saves. The invariant: `rebuilding` keeps rebuilds one at a time and
`pendingCandidate` is the one that boots (`OneAtATime`); versions are read from a
disk that only gets newer, and what a rebuild has read is not older than what is
served (`InOrder`); who has a process and was not stopped serves or boots
(`Accounted`). That a signal misses nobody rests on `Accounted` in the step to
`shutdown`, where the one that boots is the pending one.

* `NoSaveForgotten`: when neither event, timer nor rebuild is left, the latest version is
  served, or its rebuild was reported to have failed, or no watcher told of it. It is what
  `Converges` has of safety. A save that is not settled is on its way (`Pursued`): the
  watchers have yet to tell of it, the timer is set, or a rebuild will read the latest
  version, has read it, or will find at its end that a change came in between. For the
  last, `rebuilding` must stand only while a rebuild is in flight, and the timer be set
  only for a change that no rebuild has begun for (`Busy`).
* `RebuildsSuffice`: rebuilds are taken in their order and each save costs one at most
  (`Numbered`), so that the model's supply of them is never what stops a rebuild.

### LiveTailProofs

`TypeCorrect`, `BudgetIsExact` (the loop gives up exactly when it should) and
`BackOffIsExact` (the pause is the first delay doubled once for each failure after
the first, and capped). The invariant says what `failures` counts: the length of a
row of failed attempts at the end of `past`, of which only the first may have
delivered a frame, and which began there (`Row`, `Counted`). `RememberShape` moves
such a row along when the oldest attempt is forgotten. The code doubles a variable
and cuts it each time, the property takes a power and cuts it once. The provers
do not know that 2^(n+1) is twice 2^n; `PowerDoubles` has it from the number of
subsets of a set with one element more.

`SignalIsHeard` (an attempt is cut off whenever the user has aborted, otherwise only
by the timer), `AbortIsFinal` (after it every step is one towards the end) and
`TimerIsMonotone` (only a frame puts the timer back) are what `AbortEnds` and
`NoSilentHang` have of safety.

`FramesComeWhole`, for any bodies and cuttings. What is cut off must be a matter of the
text alone: a newline ends a block if an even number of newlines lies between it and
the first of its row, and `buffer` begins behind such an end (`Aligned`). `FirstEnds`
says that then the first blank line in `buffer` is the next end in the text; `EndsStay`
that a later character moves no end but the last; `NothingLeft` that a buffer without a
blank line leaves no end out. A frame's place in the list is the number of ends up to
its own. That the text is the bytes', with each character once, is `TextGrows`.

### DeployProofs

* `TypeCorrect` and `ActiveAlwaysHasToken`, for any calls of login and logout and any
  endpoints. What is written may rest on a stale copy, so the invariant is that every
  copy of the file, in memory as on disk, is `Sane`; the lemmas `SavedSane` and
  `ForgottenSane` say that both changes of a copy keep it so.
* `DeployTypeCorrect`, `StoresSurvive`, `UploadsAreWhole`, for any deploys, logins,
  bindings, endpoints and site builds. The invariant `DInv` has three parts: what
  holds of the configuration, the control planes and the directories (`Planes`,
  `Folders`); who holds which lock (`Locks`); and what a deploy may rely on at its
  place with its memory (`Fits`). Ids are kept because every copy of them, in the
  file, in a deploy, in an artifact, in a version, is of stores that exist, of which
  there is at most one for a name and a control plane (`OneStoreEach`), and because
  a deploy past provisioning leaves a configuration with nothing bare, which no
  later write undoes. An upload is whole because an undisturbed reader's directory
  is not locked (`Reads`), and only a lock's holder changes a directory
  (`BuildStep`); both only for artifacts whose lock was never taken away from a build,
  which the invariant carries along as a condition. Locks of killed builds, and builds
  that find them, are no exception. `OwnStep` covers the steps that touch nothing shared, so each of
  those only has to show `Fits`.

### CommandsProofs

* `TransactionIdExact`, for every width of the counter, every text and every command
  line. Before each digit the value is the exact number and fits, so the guard
  before the multiplication is what keeps it so; and a refusal has its reason.
* `GoodSourceSuffices`, for any mirrors, attempts, answers and times. The property is
  about the end of a call, the invariant about its middle: no source is listed twice,
  none is asked more often than is allowed, none after the present one has been
  asked, and the one that always answers rightly has not been passed over
  (`Questioned`, `Trusted`); for `waitForHealthy`, how long it can have waited for
  a deployment that does not serve (`Timed`).
* `ExportsAreFaithful`, for any commands, namespaces, keys, values and sizes of a
  page. `Fit` says how each command's temporary file, page and cursor stand to what
  its namespace ever held and always held since it was looked up. The heart is
  `Dump`: what is in the file comes before what is still to be read, and of what was
  always there nothing is missing that comes before the cursor, unless an answer lacked
  a part.
* `BuildsAreKept`, for any directories, processes and times. What a process has found
  is there once, in the order of its times, each of which is at most the directory's
  last use (`Found`, `Ordered`); so the place in the list, which is all that the code
  looks at, counts directories used since (`TakesTheOld`).
* `PackagesNeverLost`, for any packages, runs and requests. `NeverLost` with the types
  of the two places is inductive (`Kept`); the calls that matter are the rename that
  moves a directory aside and the removals, which are of links only.
* `PackagesRestored`. `Restored` needs to know who will put a package back: as long as no
  run was killed, what is not a directory is noted by some run, or before it in its
  `restoreAll` (`Cared`, `OwnsLink`, `OwnsGap`), and what a run that nobody overlaps
  has looked at is still so (`Alone`).
* `DeploymentsServe`, for any connections, times and builds. The invariant
  `StandaloneInv` has the types, what a deployment has handed over at its place
  (`Handed`), that the file a start will use is whole (`Startable`), what serving
  means for connections and times (`Serving`), and the property. `Startable` is the
  heart: only the rename changes the file that is started, and what it renames is
  whole.

### QuestionsProofs

The functions are asked in one step, so a theorem about them is one about every answer;
the provers go through the code's cases and not, as TLC does, through the questions.

* `KeysDetermine`, `BuildsAreHonest`, for any handlers, of which any may reach
  `crypto.subtle`, and any names in the restore's program. They follow from more:
  `KeyDetermines` and `ManifestsAreTrue` are about every combination of all that a build
  looks at (`Build`), where TLC is asked about builds in which a few inputs at a time leave
  their usual value. Two builds with one key are given the same sources, target, channel,
  objects and flags, and the manifest says what was compiled. `PreparedIf`, `BuiltIf` and
  `EmittedIf` say what it means that none of a build's checks fails.
* `DoctorIsTrue`, `CommandsAreHonest`: `HostTools` and `ProjectCommands` have no constants,
  so TLC has seen every question; the proofs say why. `EveryCommandIsRight` is the
  second without the machine that asks.
* `HandlersBundle`: what `ShimsAgree` says of bundles, which is `EveryHandlerIsRight` (for
  any imports of a file and any mentions in its text) at the questions of the run.
* `BindingsAreListed`, for any names, with any kinds, ids and days (TLC is asked about two
  names): `EveryBindingIsListed`. A kind stands at one place of each list, so what is
  listed under its kind is listed once (`OneRowEach`), and the kinds of the lists are
  all there are, but for those the report leaves out (`TypesListed`, `ReportListed`).

### Only model-checked

* Liveness (`Termination`, `Converges`, `AbortEnds`, `NoSilentHang`): out of the prover's
  reach.
* `ShimsAgree` but for its bundles, and `ArgumentsAgree`: `NodeShims` and `CommandLine`
  walk texts and arguments by recursion, and what recursion computes for every input
  needs an induction that no installed prover can be given.
* The four refuted properties (see Findings).

The types of `CompileCache`, `LiveTail` and `Deploy` are proved and not run.

## Findings

See `PROJECT.json`, `findings`; each is a run whose property the source states
and TLC refutes. In short: a syntax error saved during `dev` ends the server; a
healthy waiter of the Zig cache can fail with ENOENT; a quiet live tail is
disconnected although keepalives arrive; `sproutboat deploy my-project` deploys
the current directory.

Disagreements met while modelling that have no run of their own:

* build.ts:284 says of the unit lock "Same lock as a full build, so an emit never races
  a compile reading the file". It can, in two ways. A compile of the default channel
  (compile.ts:431-498, no time limit) that takes more than 15 minutes, or whose machine
  was suspended, loses its lock to any build or emit that waits (build.ts:111-112). And
  two waiters may both see a killed build's lock stale, and the second removes the first
  one's fresh lock. The compiler then reads another build's source, and the cache keeps
  the binary under the wrong key. `GeneratedStable` and `BinaryFromOwnSource` end
  where that begins (`LockLost`); `CompilerReadsOwnSource` alone is violated, both ways,
  with the constants of `pipeline` and without `UntilLost`.
* The artifact lock is broken by age in the same way (build.ts:357): two builds may then
  write one artifact directory, and the upload mix them. `UploadIsWhole` excepts it,
  as it does a build that takes the directory while another deploy uploads from it.
* A KV export whose listing lacks `keys` or `cursor` ends there, replaces the output
  file with the short dump and says "exported" (main.ts:1217, 1237, 1242).
* `runDev` does not stop its first candidate, nor the proxy, when the first
  `resetWatchers()` throws (dev.ts:421).
* `rebuildTask` is overwritten by a task that finds a rebuild under way and does
  nothing, and shutdown awaits that one (dev.ts:358, dev.ts:431).
* `ensureBearssl`, `ensureUWebSocketsHost` and `ensureSqliteObject` return paths that
  name the target and not the compiler, and release the lock before the caller
  links: `ToolchainCache` with two members of `Command` reaches states where a call at
  `use` is not `Verified` any more (bearssl.ts:313-317; CHANGELOG.md:1332 calls the
  caches "keyed by compiler identity").
* The compile under a cache lock may wait 12 minutes for the unit lock and then
  compile for 10 (alpha 19) or as long as it takes, and the cache lock's age limit is
  15: with `BuildPipelineMC`'s constants and `Mortal = {}`, `MutualExclusion` fails. The binary is not wrong for
  it; the work is done twice.
* On alpha 22 a Linux build that is given no variant links the tree
  `uwsVariant ?? "sa-x86_64"` (compile.ts:479), the one of standalone binaries, and not
  the one it has ensured (compile.ts:315), although toolchain.ts:738 says which goes
  with which. `LinksItsTree` excepts it.
* `SPROUTBOAT_COMPILE_TIMEOUT_MS` does not reach the alpha 22 compile; `targets.ts` is
  not among the files `integrationIdentity` hashes (build.ts:87); with a
  `version_metadata` binding the artifact directory does not depend on the compile
  key.
* `latestVersion` strips a tag before it compares, which its comment
  (update-check.ts:30) does not expect; `report.ts:43` lists neither `services` nor
  `version_metadata`; `secrets list` says "no secrets" of JSON it does not
  understand; `waitForHealthy` and a login poll with no time limit on a request.
* `kv key put ns k -5` takes the value for a flag; `delete --yes --name` with no
  value deletes the project of the current directory; `dev` does not take a
  directory whose name is a number.
* `downloadZig` stops at the first source that answers 200, whatever its bytes.
* The doctor calls an empty `CC` missing though a build then uses `cc`; it says
  "missing" where Zig would be used instead; an override of Zig that is not there
  is shown as to be acquired though the build fails; SQLite and BearSSL are
  "cached" when only their directory exists. `DoctorRight` excepts these.
* Shims: `parse("/..")` has the extension ".", `basename` with an extension that is
  only part of a suffix and a slash at the end, a URL's password without a user, and
  `a=1&&b=2`, which has a key more, differ from Node; `ShimRight` excepts them.
  `bundle.ts` does not shim the built-ins `path`, `url`, `querystring` and `async_hooks`
  without their prefix, leaves a name unbound that only another function binds,
  binds a second time what a file declares as `function Buffer` or imports as
  `global`, and takes a line that looks like an `import` in a CommonJS file's text
  for one.
* With `--only a,a`, or two overlapping runs, a symbolic link that stood in
  `node_modules` before may be lost (directories are not: `NeverLost`).
* Pruning may remove a build directory a compile has begun to reuse
  (compile.ts:191): `RecentBuildsKept` speaks of those not used again.
* Two `deploy-vps.sh` at once share `/tmp/<name>` and `<name>.new`, so that a
  half-copied binary may be installed (docs/standalone.md:285 says never); a project
  named `data` cannot be built with `--deploy-files` (standalone-deploy.ts:193).
* Without a watcher `runDev` returns when the sprout exits and leaves its proxy
  listening, so the command does not end (dev.ts:436).

## Plan

1. `DevServer`: the first build and its signals, the proxy as a variable, events
   of what a build writes itself.
2. `ToolchainCache`: a cache root that cannot be written; two compilers, with the
   property that what was returned is what is linked.
3. Proofs: `NodeShims` and `CommandLine` as machines that take a character or an
   argument at a time, as `TailFrames` does with bytes, so that what they compute is an
   invariant and needs no induction over data.

## Not modelled

* Bun's bundler, the compilers, linkers and archivers: external; what the CLI
  asks of them and does with their failures is in the models.
* The packages `@sproutboat/*` whose source is not in the repository: the runtime,
  the broker, the compiler, the restore's program, the parsing of a project.
  `src/` has lines that re-export them, or a copy of their text.
* `build-cli.ts`, `prebuild-uws.ts`: sequential scripts that run
  programs and meet nobody.
* The bodies of the other shims of `node-shims.ts` (events, streams, sockets),
  which are text compiled into a handler; the text of C sources and patches.
* Colours, help texts, columns and wording; benchmarks; the style rules under
  `tools/oxlint`; examples.
* The polling of a login's device code; `--artifact`.
