---------------------------- MODULE BuildPipeline ----------------------------
(***************************************************************************)
(* build.ts around compile-cache.ts: what happens inside compile().        *)
(*                                                                         *)
(* All builds of one project with the same target, transport and optimize  *)
(* level share a unit directory, and in it one sprout.generated.js that    *)
(* the compiler reads.  A second lock directory (acquireArtifactLock of    *)
(* the unit) covers it.  A cached build takes the unit lock while it holds *)
(* its cache lock; a build that bypasses the cache and `build --emit-only` *)
(* take the unit lock alone.                                               *)
(*                                                                         *)
(* Here a tick is minutes: it passes only while every live process sleeps  *)
(* in a lock loop or waits for the compiler.  Only the alpha 19 channel    *)
(* limits how long a compile may take (COMPILE_TIMEOUT_MS); the default    *)
(* channel does not, and the unit lock of a build that still compiles      *)
(* when it is older than StaleAge is removed by whoever waits for it.      *)
(* Builds have artifact directories of their own.                          *)
(***************************************************************************)
EXTENDS CompileCache

CONSTANT CompileMax   \* a bound of the exploration: the longest compile, in ticks

ASSUME CompileMaxAssumption == CompileMax \in Nat

VARIABLES
  kind,       \* what each process is: "cached", "bypass" or "emit"
  upc,        \* where it is in compile(), or in emitGenerated
  utimer,     \* ticks in the unit lock's loop, then in the compiler; 0 outside
  ubin,       \* what the compiler produced, None if it failed
  unitLock,   \* the unit's lock directory
  generated   \* whose source sprout.generated.js holds

\* For the properties alone; no action looks at them.
VARIABLES
  robbed,     \* the live builds whose directory of the unit lock another removed
  overran     \* the builds whose hold of the unit grew older than StaleAge

unitVars == <<kind, upc, utimer, ubin, unitLock, generated, robbed, overran>>
pipelineVars == <<vars, unitVars>>

Kind == {"cached", "bypass", "emit"}

PipelineInit ==
  /\ Init
  /\ kind \in [Process -> Kind]
  /\ upc = [p \in Process |-> "out"]
  /\ utimer = [p \in Process |-> 0]
  /\ ubin = [p \in Process |-> None]
  /\ unitLock = Free
  /\ generated = None
  /\ robbed = {}
  /\ overran = {}

\* Between the mkdir and the rm of the unit lock; a killed process stays there.
HoldsUnit(p) == upc[p] \in {"write", "run", "unlock"}

UGo(p, from, to) ==
  p \notin killed /\ upc[p] = from /\ upc' = [upc EXCEPT ![p] = to]

\* The builds whose lock it is that a removal takes away, but for p's own.
LiveHolders(p) == {q \in Process \ (killed \cup {p}) : HoldsUnit(q)}

\* What p's compiler can find in the unit directory: the generated file, and
\* what the compilers that are running there have made of theirs
\* (sprout.a22.js, units-a22).  A mixture counts as either of its sources.
\* A killed build's compiler is killed with it.
UnitSources == {generated} \cup {key[q] : q \in {q \in Process \ killed : upc[q] = "run"}}

\* Mutant: --emit-only writes the file without the lock.
EnterUnlocked(p) ==
  /\ UGo(p, "out", IF kind[p] = "emit" THEN "write" ELSE "mkdir")
  /\ pc[p] = IF kind[p] = "cached" THEN "compile" ELSE "idle"
  /\ UNCHANGED <<kind, utimer, ubin, unitLock, generated, robbed, overran, vars>>

\* Zig, SQLite and BearSSL are in place: start to compete for the unit lock.
\* A cached build gets here through the cache, the others directly.
EnterUnit(p) ==
  /\ UGo(p, "out", "mkdir")
  /\ pc[p] = IF kind[p] = "cached" THEN "compile" ELSE "idle"
  /\ UNCHANGED <<kind, utimer, ubin, unitLock, generated, robbed, overran, vars>>

TakeUnit(p) ==
  /\ CanMake(unitLock)
  /\ UGo(p, "mkdir", "write")
  /\ unitLock' = Fresh
  /\ utimer' = [utimer EXCEPT ![p] = 0]
  /\ UNCHANGED <<kind, ubin, generated, robbed, overran, vars>>

UnitBusy(p) ==
  /\ ~CanMake(unitLock)
  /\ utimer[p] <= Deadline
  /\ UGo(p, "mkdir", "stat")
  /\ UNCHANGED <<kind, utimer, ubin, unitLock, generated, robbed, overran, vars>>

\* "timed out waiting for artifact lock": compile() throws.
UnitGiveUp(p) ==
  /\ ~CanMake(unitLock)
  /\ utimer[p] > Deadline
  /\ UGo(p, "mkdir", "finished")
  /\ utimer' = [utimer EXCEPT ![p] = 0]
  /\ UNCHANGED <<kind, ubin, unitLock, generated, robbed, overran, vars>>

\* Mutant: a directory as old as the limit is taken for stale.
StatUnitAtLimit(p) ==
  /\ UGo(p, "stat", IF IsStaleAtLimit(unitLock) THEN "break" ELSE "mkdir")
  /\ UNCHANGED <<kind, utimer, ubin, unitLock, generated, robbed, overran, vars>>

StatUnit(p) ==
  /\ UGo(p, "stat", IF IsStale(unitLock) THEN "break" ELSE "mkdir")
  /\ UNCHANGED <<kind, utimer, ubin, unitLock, generated, robbed, overran, vars>>

\* rm(lock), one await after the stat: whosever directory it is by then, and
\* whether or not its holder is alive.
BreakUnit(p) ==
  /\ UGo(p, "break", "mkdir")
  /\ unitLock' = Free
  /\ robbed' = robbed \cup LiveHolders(p)
  /\ UNCHANGED <<kind, utimer, ubin, generated, overran, vars>>

\* writeGenerated; an emit stops there.
WriteGenerated(p) ==
  /\ UGo(p, "write", IF kind[p] = "emit" THEN "unlock" ELSE "run")
  /\ generated' = key[p]
  /\ UNCHANGED <<kind, utimer, ubin, unitLock, robbed, overran, vars>>

\* The compiler, or one of the compilers it starts in turn, reads its input.
ReadSource(p) ==
  /\ UGo(p, "run", "run")
  /\ \E source \in UnitSources : ubin' = [ubin EXCEPT ![p] = [key |-> source, by |-> p]]
  /\ UNCHANGED <<kind, utimer, unitLock, generated, robbed, overran, vars>>

\* The compiler ends: its binary is of the source that was read last.
RunCompiler(p) ==
  /\ UGo(p, "run", "unlock")
  /\ ubin[p] # None
  /\ UNCHANGED <<kind, utimer, ubin, unitLock, generated, robbed, overran, vars>>

\* A compiler error, the time limit of alpha 19, or no binary in the end.
CompilerFails(p) ==
  /\ UGo(p, "run", "unlock")
  /\ ubin' = [ubin EXCEPT ![p] = None]
  /\ UNCHANGED <<kind, utimer, unitLock, generated, robbed, overran, vars>>

\* finally: rm of the unit lock, or of what is now another's.
ReleaseUnit(p) ==
  /\ UGo(p, "unlock", "finished")
  /\ unitLock' = Free
  /\ robbed' = robbed \cup LiveHolders(p)
  /\ utimer' = [utimer EXCEPT ![p] = 0]
  /\ UNCHANGED <<kind, ubin, generated, overran, vars>>

\* compile() returns to compileCached, or throws.
CachedCompileEnds(p) ==
  /\ kind[p] = "cached" /\ upc[p] = "finished"
  /\ IF ubin[p] = None THEN CompileFails(p) ELSE CompileTo(p, ubin[p])
  /\ UNCHANGED unitVars

\* Without the cache: rename(candidate, sproutPath), if there is one to rename.
BypassEnds(p) ==
  /\ kind[p] # "cached" /\ upc[p] = "finished"
  /\ Go(p, "idle", "done")
  /\ out' = [out EXCEPT ![p] = ubin[p]]
  /\ UNCHANGED <<key, timer, seen, bin, staged, entry, lock, result, killed, damages, unitVars>>

\* Started and not over, whatever its kind.
Running(p) == Live(p) \/ (pc[p] = "idle" /\ upc[p] # "out")

KillBuild(p) ==
  /\ p \in Mortal
  /\ Running(p)
  /\ pc' = [pc EXCEPT ![p] = "done"]
  /\ killed' = killed \cup {p}
  /\ timer' = [timer EXCEPT ![p] = 0]
  /\ utimer' = [utimer EXCEPT ![p] = 0]
  /\ UNCHANGED <<key, seen, bin, staged, entry, lock, out, result, damages>>
  /\ UNCHANGED <<kind, upc, ubin, unitLock, generated, robbed, overran>>

\* Nothing to do until a lock is removed, a deadline is over or the compiler
\* ends; how long that takes the bound CompileMax says and nothing in the code.
Asleep(p) ==
  \/ pc[p] = "mkdir" /\ ~CanMake(lock[key[p]]) /\ timer[p] <= Deadline
  \/ upc[p] = "mkdir" /\ ~CanMake(unitLock) /\ utimer[p] <= Deadline
  \/ upc[p] = "run" /\ utimer[p] < CompileMax

PipelineTick ==
  /\ \E p \in Process : Running(p)
  /\ \A p \in Process : Running(p) => Asleep(p)
  /\ lock' = [k \in Key |-> Aged(lock[k])]
  /\ unitLock' = Aged(unitLock)
  /\ timer' = [p \in Process |->
                 IF Holds(p) \/ (Waits(p) /\ timer[p] <= Deadline) THEN timer[p] + 1 ELSE timer[p]]
  /\ utimer' = [p \in Process |->
                  IF Running(p) /\ upc[p] \in {"mkdir", "run"} THEN utimer[p] + 1 ELSE utimer[p]]
  /\ UNCHANGED <<pc, key, seen, bin, staged, entry, out, result, killed, damages>>
  /\ overran' = overran \cup
       {p \in Process : Running(p) /\ HoldsUnit(p) /\ utimer'[p] > StaleAge}
  /\ UNCHANGED <<kind, upc, ubin, generated, robbed>>

CacheStep(p) ==
  /\ kind[p] = "cached"
  /\ Start(p) \/ Reading(p) \/ Waiting(p) \/ Producing(p)
  /\ UNCHANGED unitVars

UnitStep(p) ==
  EnterUnit(p) \/ TakeUnit(p) \/ UnitBusy(p) \/ UnitGiveUp(p) \/ StatUnit(p)
    \/ BreakUnit(p) \/ WriteGenerated(p) \/ ReadSource(p) \/ RunCompiler(p)
    \/ CompilerFails(p) \/ ReleaseUnit(p)

BuildStep(p) == CacheStep(p) \/ UnitStep(p) \/ CachedCompileEnds(p) \/ BypassEnds(p)

PipelineNext ==
  \/ \E p \in Process : BuildStep(p) \/ KillBuild(p)
  \/ PipelineTick
  \/ (\A p \in Process : pc[p] = "done") /\ UNCHANGED pipelineVars

PipelineSpec == PipelineInit /\ [][PipelineNext]_pipelineVars

(***************************************************************************)
(* Properties.                                                             *)
(***************************************************************************)
\* A build was killed between its mkdir and its rm of the unit lock.
UnitOrphaned == \E p \in killed : HoldsUnit(p)

\* "Same lock as a full build, so an emit never races a compile reading the
\* file": while a compiler runs, the file it reads is its own build's source.
CompilerReadsOwnSource ==
  \A p \in Process \ killed : upc[p] = "run" => generated = key[p]

\* A live build has lost the unit lock, and it has lost it to its age: a killed
\* build's directory was cleared away while another took the lock, or a hold
\* outlasted the limit.
LockLost == robbed # {} /\ (UnitOrphaned \/ overran # {})

\* Every binary that is published or kept in the cache was compiled from the
\* source of the build that asked for it, although cache locks may be stolen
\* meanwhile: until a live build has lost the unit lock, and no live build
\* loses it before one was killed in the unit or stayed there past the limit.
BinaryFromOwnSource ==
  \/ LockLost
  \/ /\ OutputSound
     /\ \A k \in Key : Valid(k) => entry[k].bytes.key = k

\* The file is a compiler's own for as long as it runs, until the same moment.
GeneratedStable == LockLost \/ CompilerReadsOwnSource

\* What CompileCache takes for one step, a compile of the call's own key, is
\* done by all this, as long as no live build loses the unit lock: the cached
\* builds are calls of compileCached, and the others are none, as if they never
\* started.
UsesCache(p) == kind[p] = "cached"

CallPc == [p \in Process |-> IF UsesCache(p) THEN pc[p] ELSE "idle"]
CallOut == [p \in Process |-> IF UsesCache(p) THEN out[p] ELSE None]
CallsKilled == {p \in killed : UsesCache(p)}

Calls == INSTANCE CompileCache WITH pc <- CallPc, out <- CallOut, killed <- CallsKilled

ImplementsCompileCache == Calls!Spec

=============================================================================
