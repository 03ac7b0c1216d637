-------------------------- MODULE BuildPipelineProofs --------------------------
(***************************************************************************)
(* For any number of builds, cached or not, and any sources: each binary   *)
(* is of the source of the build that asked for it, because the unit lock  *)
(* covers the writing of sprout.generated.js and the compiler's run.       *)
(*                                                                         *)
(* The cache locks protect nothing here: they may be stolen, and whatever  *)
(* CompileCache guarantees of types and of keys it guarantees regardless.  *)
(* The unit lock is another matter: nothing limits a compile of the        *)
(* default channel, and a build may die in the unit.  So there are two     *)
(* invariants: as long as no live build has lost the unit, all is in       *)
(* order; and none loses it before a build has died there or has stayed    *)
(* longer than the lock's age limit.                                       *)
(* That builds which are not killed leave nothing behind needs no lock.    *)
(***************************************************************************)
EXTENDS BuildPipeline, CompileCacheProofs

UnitPlace == {"out", "mkdir", "stat", "break", "write", "run", "unlock", "finished"}

UnitTypes ==
  /\ kind \in [Process -> Kind]
  /\ upc \in [Process -> UnitPlace]
  /\ utimer \in [Process -> Nat]
  /\ ubin \in [Process -> Binary \cup {None}]
  /\ unitLock \in Lock
  /\ generated \in Key \cup {None}
  /\ robbed \subseteq Process /\ overran \subseteq Process
  /\ \A p \in Process : upc[p] = "run" => generated \in Key

\* A build that is at the unit lock or behind it is nowhere else, as long as
\* it lives.
Within ==
  \A p \in Process \ killed :
    upc[p] \notin {"out", "finished"} =>
      pc[p] = IF kind[p] = "cached" THEN "compile" ELSE "idle"

\* The unit lock is of one live build at most, and there as long as that holds
\* it.
Lone ==
  /\ \A p, q \in Process \ killed : HoldsUnit(p) /\ HoldsUnit(q) => p = q
  /\ \A p \in Process \ killed : HoldsUnit(p) => unitLock # Free

\* What a compiler has made is of its own build's key.
OwnBinary == \A p \in Process : For(key[p], ubin[p])

Orderly == Lone /\ CompilerReadsOwnSource /\ OwnBinary /\ SoundInv

\* No build has died in the unit or stayed there past the limit ...
InTime == ~UnitOrphaned /\ overran = {}

\* ... and then the lock is as old as its holder's hold, and nobody is about to
\* remove it.
Dated ==
  /\ \A p \in Process : HoldsUnit(p) => unitLock = utimer[p] /\ utimer[p] <= StaleAge
  /\ unitLock # Free => \E p \in Process : HoldsUnit(p)
  /\ \A p \in Process \ killed : upc[p] # "break"

PipelineInv ==
  /\ TypeOK /\ UnitTypes /\ Within
  /\ robbed = {} => Orderly
  /\ InTime => robbed = {} /\ Dated

-----------------------------------------------------------------------------
(* The steps, by what they leave alone.                                    *)

\* Nothing of the unit changes, nor who lives.
UnitQuiet == UNCHANGED unitVars /\ key' = key /\ killed' = killed

\* A step of the cache's own: one of CompileCache, and none of a build that
\* compiles or has not started and does not use the cache.
LEMMA CacheStepIs ==
  ASSUME TypeOK, NEW p \in Process, CacheStep(p)
  PROVE  /\ Next /\ UnitQuiet
         /\ \A q \in Process \ {p} : pc'[q] = pc[q]
         /\ kind[p] = "cached" /\ pc[p] # "compile"
<1>1. Next /\ UNCHANGED unitVars /\ kind[p] = "cached"
  BY DEF CacheStep, Next, Step
<1>2. CASE Start(p) \/ Reading(p)
  BY <1>1, <1>2 DEF TypeOK, UnitQuiet, Go, Start, Reading, ReadRecord, VerifiedHit, RecheckMiss
<1>3. CASE Waiting(p)
  BY <1>1, <1>3 DEF TypeOK, UnitQuiet, Go, Waiting, FastMiss, TakeLock, LockBusy, PollMiss,
     GiveUp,
     StatFresh, StatStale, BreakLock
<1>4. CASE Producing(p)
  BY <1>1, <1>4 DEF TypeOK, UnitQuiet, Go, Producing, Clear, Install, InstallFails, Publish,
     PublishFails, Release
<1> QED
  BY <1>2, <1>3, <1>4 DEF CacheStep

LEMMA EndsQuietly ==
  ASSUME TypeOK, NEW p \in Process, CachedCompileEnds(p) \/ BypassEnds(p)
  PROVE  /\ UnitQuiet /\ upc[p] = "finished"
         /\ \A q \in Process \ {p} : pc'[q] = pc[q]
  BY DEF TypeOK, UnitQuiet, Go, CachedCompileEnds, BypassEnds, CompileFails, CompileTo, unitVars

\* A step in the unit changes nothing else, and only its own build's place.
LEMMA UnitStepIs ==
  ASSUME NEW p \in Process, UnitStep(p)
  PROVE  UNCHANGED vars /\ kind' = kind /\ p \notin killed /\ upc' = [upc EXCEPT ![p] = upc'[p]]
  BY DEF UnitStep, UGo, EnterUnit, TakeUnit, UnitBusy, UnitGiveUp, StatUnit, BreakUnit,
     WriteGenerated, ReadSource, RunCompiler, CompilerFails, ReleaseUnit, unitVars

-----------------------------------------------------------------------------
(* Types.                                                                  *)

LEMMA TypesKept ==
  ASSUME TypeOK, UnitTypes, [PipelineNext]_pipelineVars
  PROVE  TypeOK'
<1>1. ASSUME NEW p \in Process, CacheStep(p) PROVE TypeOK'
  BY <1>1, CacheStepIs, TypeInductive
<1>2. ASSUME UNCHANGED vars PROVE TypeOK'
  BY <1>2, TypeInductive
<1>3. ASSUME NEW p \in Process, CachedCompileEnds(p) PROVE TypeOK'
  <2>1. CASE CompileFails(p)
    BY <2>1, TypeInductive DEF Next, Step
  <2>2. CASE CompileTo(p, ubin[p]) /\ ubin[p] # None
    BY <2>2 DEF CompileTo, Go, TypeOK, UnitTypes, PC
  <2> QED
    BY <1>3, <2>1, <2>2 DEF CachedCompileEnds
<1>4. ASSUME NEW p \in Process, BypassEnds(p) PROVE TypeOK'
  BY <1>4 DEF BypassEnds, Go, TypeOK, UnitTypes, PC
<1>5. ASSUME NEW p \in Process, KillBuild(p) PROVE TypeOK'
  BY <1>5 DEF KillBuild, TypeOK, PC
<1>6. ASSUME PipelineTick PROVE TypeOK'
  BY <1>6, LockStates DEF PipelineTick, TypeOK
<1> QED
  BY <1>1, <1>2, <1>3, <1>4, <1>5, <1>6, UnitStepIs DEF PipelineNext, BuildStep, pipelineVars

LEMMA UnitTypesKept ==
  ASSUME TypeOK, UnitTypes, [PipelineNext]_pipelineVars
  PROVE  UnitTypes'
<1>1. ASSUME UNCHANGED unitVars PROVE UnitTypes'
  BY <1>1 DEF unitVars, UnitTypes
<1>2. ASSUME NEW p \in Process, CacheStep(p) \/ CachedCompileEnds(p) \/ BypassEnds(p)
             PROVE UnitTypes'
  BY <1>1, <1>2 DEF CacheStep, CachedCompileEnds, BypassEnds
<1>3. ASSUME NEW p \in Process, UnitStep(p) PROVE UnitTypes'
  <2> USE DEF UGo, UnitTypes, UnitPlace
  <2>1. CASE EnterUnit(p) \/ UnitBusy(p) \/ StatUnit(p) \/ RunCompiler(p) \/ CompilerFails(p)
    BY <2>1 DEF EnterUnit, UnitBusy, StatUnit, RunCompiler, CompilerFails
  <2>2. CASE TakeUnit(p) \/ UnitGiveUp(p) \/ BreakUnit(p) \/ ReleaseUnit(p)
    BY <2>2, LockStates DEF TakeUnit, UnitGiveUp, BreakUnit, ReleaseUnit, LiveHolders
  <2>3. CASE WriteGenerated(p)
    BY <2>3 DEF WriteGenerated, TypeOK
  <2>4. CASE ReadSource(p)
    <3>1. PICK source \in UnitSources : ubin' = [ubin EXCEPT ![p] = [key |-> source, by |-> p]]
      BY <2>4 DEF ReadSource
    <3>2. source \in Key
      BY <2>4 DEF ReadSource, UnitSources, TypeOK
    <3>3. [key |-> source, by |-> p] \in Binary
      BY <3>2 DEF Binary
    <3> QED
      BY <2>4, <3>1, <3>3 DEF ReadSource
  <2> QED
    BY <1>3, <2>1, <2>2, <2>3, <2>4 DEF UnitStep
<1>4. ASSUME NEW p \in Process, KillBuild(p) PROVE UnitTypes'
  BY <1>4 DEF KillBuild, UnitTypes
<1>5. ASSUME PipelineTick PROVE UnitTypes'
  BY <1>5, LockStates DEF PipelineTick, UnitTypes
<1> QED
  BY <1>1, <1>2, <1>3, <1>4, <1>5 DEF PipelineNext, BuildStep, pipelineVars

LEMMA WithinKept ==
  ASSUME TypeOK, UnitTypes, Within, [PipelineNext]_pipelineVars
  PROVE  Within'
<1>1. ASSUME UNCHANGED pipelineVars PROVE Within'
  BY <1>1 DEF pipelineVars, vars, unitVars, Within
<1>2. ASSUME NEW p \in Process, CacheStep(p) PROVE Within'
  <2>1. p \in killed \/ upc[p] \in {"out", "finished"}
    BY <1>2, CacheStepIs DEF Within
  <2> QED
    BY <1>2, <2>1, CacheStepIs DEF Within, UnitQuiet, unitVars
<1>3. ASSUME NEW p \in Process, CachedCompileEnds(p) \/ BypassEnds(p) PROVE Within'
  BY <1>3, EndsQuietly DEF Within, UnitQuiet, unitVars
<1>4. ASSUME NEW p \in Process, UnitStep(p) PROVE Within'
  <2>1. upc[p] = "out" => pc[p] = IF kind[p] = "cached" THEN "compile" ELSE "idle"
    BY <1>4 DEF UnitStep, UGo, EnterUnit, TakeUnit, UnitBusy, UnitGiveUp, StatUnit, BreakUnit,
       WriteGenerated, ReadSource, RunCompiler, CompilerFails, ReleaseUnit
  <2>2. upc[p] # "finished"
    BY <1>4 DEF UnitStep, UGo, EnterUnit, TakeUnit, UnitBusy, UnitGiveUp, StatUnit, BreakUnit,
       WriteGenerated, ReadSource, RunCompiler, CompilerFails, ReleaseUnit
  <2> QED
    BY <1>4, <2>1, <2>2, UnitStepIs DEF Within, UnitTypes, vars
<1>5. ASSUME NEW p \in Process, KillBuild(p) PROVE Within'
  BY <1>5 DEF KillBuild, Within, TypeOK
<1>6. ASSUME PipelineTick PROVE Within'
  BY <1>6 DEF PipelineTick, Within
<1> QED
  BY <1>1, <1>2, <1>3, <1>4, <1>5, <1>6 DEF PipelineNext, BuildStep

-----------------------------------------------------------------------------
(* The unit lock.                                                          *)

\* A build that has died at a place stays there.
LEMMA OrphansStay ==
  ASSUME TypeOK, UnitTypes, UnitOrphaned, [PipelineNext]_pipelineVars
  PROVE  UnitOrphaned'
<1> PICK q \in killed : HoldsUnit(q)
  BY DEF UnitOrphaned
<1>1. killed \subseteq killed'
  <2>1. ASSUME NEW p \in Process, BuildStep(p) PROVE killed' = killed
    BY <2>1, CacheStepIs, EndsQuietly, UnitStepIs DEF BuildStep, UnitQuiet, vars
  <2> QED
    BY <2>1 DEF PipelineNext, KillBuild, PipelineTick, pipelineVars, vars
<1>2. upc'[q] = upc[q]
  <2>1. q \in Process
    BY CacheAssumption DEF TypeOK
  <2>2. ASSUME NEW p \in Process, BuildStep(p) PROVE upc'[q] = upc[q]
    BY <2>1, <2>2, CacheStepIs, EndsQuietly, UnitStepIs DEF BuildStep, UnitQuiet, unitVars,
       UnitTypes
  <2> QED
    BY <2>2 DEF PipelineNext, KillBuild, PipelineTick, pipelineVars, unitVars
<1> QED
  BY <1>1, <1>2 DEF UnitOrphaned, HoldsUnit

\* What has gone wrong once is not forgotten.
LEMMA HistoryGrows ==
  ASSUME TypeOK, UnitTypes, [PipelineNext]_pipelineVars
  PROVE  /\ robbed \subseteq robbed' /\ overran \subseteq overran'
         /\ InTime' => InTime
<1>1. ASSUME NEW p \in Process, UnitStep(p)
      PROVE  robbed \subseteq robbed' /\ overran \subseteq overran'
  BY <1>1 DEF UnitStep, EnterUnit, TakeUnit, UnitBusy, UnitGiveUp, StatUnit, BreakUnit,
     WriteGenerated, ReadSource, RunCompiler, CompilerFails, ReleaseUnit
<1>2. robbed \subseteq robbed' /\ overran \subseteq overran'
  BY <1>1, CacheStepIs, EndsQuietly
     DEF PipelineNext, BuildStep, KillBuild, PipelineTick, pipelineVars, unitVars, UnitQuiet
<1> QED
  BY <1>2, OrphansStay DEF InTime

\* Two live builds in the unit, or one without its directory: whoever brings
\* that about robs somebody.
LEMMA LoneKept ==
  ASSUME TypeOK, UnitTypes, Lone, robbed' = {}, [PipelineNext]_pipelineVars
  PROVE  Lone'
<1>1. ASSUME UnitQuiet PROVE Lone'
  BY <1>1 DEF UnitQuiet, unitVars, Lone, HoldsUnit
<1>2. ASSUME NEW p \in Process, UnitStep(p) PROVE Lone'
  <2>1. /\ p \notin killed /\ killed' = killed
        /\ \A q \in Process \ {p} : HoldsUnit(q)' = HoldsUnit(q)
    BY <1>2, UnitStepIs DEF vars, UnitTypes, HoldsUnit
  <2>2. CASE TakeUnit(p)
    <3>1. /\ \A q \in Process \ killed : ~HoldsUnit(q)
          /\ unitLock' # Free
      BY <2>2 DEF TakeUnit, CanMake, Lone, Fresh, Free
    <3> QED
      BY <2>1, <3>1 DEF Lone
  <2>3. CASE BreakUnit(p) \/ ReleaseUnit(p)
    <3>1. LiveHolders(p) = {}
      BY <2>3 DEF BreakUnit, ReleaseUnit
    <3>2. ~HoldsUnit(p)'
      BY <2>3 DEF BreakUnit, ReleaseUnit, UGo, UnitTypes, HoldsUnit
    <3>3. \A q \in Process \ killed' : ~HoldsUnit(q)'
      BY <2>1, <3>1, <3>2 DEF LiveHolders
    <3> QED
      BY <3>3 DEF Lone
  <2>4. CASE EnterUnit(p) \/ UnitBusy(p) \/ UnitGiveUp(p) \/ StatUnit(p)
    <3>1. unitLock' = unitLock /\ ~HoldsUnit(p)'
      BY <2>4 DEF EnterUnit, UnitBusy, UnitGiveUp, StatUnit, UGo, UnitTypes, HoldsUnit
    <3> QED
      BY <2>1, <3>1 DEF Lone
  <2>5. CASE WriteGenerated(p) \/ ReadSource(p) \/ RunCompiler(p) \/ CompilerFails(p)
    <3>1. unitLock' = unitLock /\ HoldsUnit(p)
      BY <2>5 DEF WriteGenerated, ReadSource, RunCompiler, CompilerFails, UGo, HoldsUnit
    <3> QED
      BY <2>1, <3>1 DEF Lone
  <2> QED
    BY <1>2, <2>2, <2>3, <2>4, <2>5 DEF UnitStep
<1>3. ASSUME NEW p \in Process, KillBuild(p) PROVE Lone'
  BY <1>3 DEF KillBuild, Lone, HoldsUnit
<1>4. CASE PipelineTick
  BY <1>4, LockStates DEF PipelineTick, UnitTypes, Lone, HoldsUnit
<1> QED
  BY <1>1, <1>2, <1>3, <1>4, CacheStepIs, EndsQuietly
     DEF PipelineNext, BuildStep, pipelineVars, vars, UnitQuiet

\* Who holds the unit stays who held it, for as long as the lock says.
LEMMA HoldersSame ==
  ASSUME Dated,
         \A q \in Process : HoldsUnit(q)' = HoldsUnit(q),
         \A q \in Process : HoldsUnit(q) => utimer'[q] = utimer[q],
         unitLock' = unitLock,
         \A q \in Process \ killed' : upc'[q] # "break"
  PROVE  Dated'
  BY DEF Dated

\* Where nobody holds the unit there is no directory, so a waiter that sees an
\* old one sees what is not there.
LEMMA UnitNeverStale ==
  ASSUME UnitTypes, Dated
  PROVE  ~IsStale(unitLock)
  BY StaleAgeAssumption DEF UnitTypes, Dated, IsStale, Free, Lock

LEMMA UnitStepKeepsDates ==
  ASSUME UnitTypes, Lone, Dated, InTime, robbed = {}, NEW p \in Process, UnitStep(p)
  PROVE  Dated' /\ robbed' = {}
<1>1. /\ p \notin killed /\ killed' = killed
      /\ \A q \in Process \ {p} : upc'[q] = upc[q]
      /\ upc[p] # "break"
  BY UnitStepIs DEF UnitTypes, vars, Dated
<1>2. \A q \in Process \ {p} : HoldsUnit(q)' = HoldsUnit(q)
  BY <1>1 DEF HoldsUnit
<1>3. \A q \in Process \ killed : q # p => upc'[q] # "break"
  BY <1>1 DEF Dated
<1>4. CASE EnterUnit(p) \/ UnitBusy(p) \/ UnitGiveUp(p) \/ StatUnit(p)
  <2>1. /\ upc'[p] \in {"mkdir", "stat", "finished"}
        /\ ~HoldsUnit(p) /\ unitLock' = unitLock /\ robbed' = robbed
        /\ \A q \in Process \ {p} : utimer'[q] = utimer[q]
    BY <1>4, UnitNeverStale DEF EnterUnit, UnitBusy, UnitGiveUp, StatUnit, UGo, UnitTypes,
       HoldsUnit
  <2>2. ~HoldsUnit(p)' /\ upc'[p] # "break"
    BY <2>1 DEF HoldsUnit
  <2>3. \A q \in Process : HoldsUnit(q)' = HoldsUnit(q)
    BY <1>2, <2>1, <2>2 DEF HoldsUnit
  <2>4. \A q \in Process \ killed' : upc'[q] # "break"
    BY <1>1, <1>3, <2>2
  <2>5. \A q \in Process : HoldsUnit(q) => utimer'[q] = utimer[q]
    BY <2>1
  <2> QED
    BY <2>1, <2>3, <2>4, <2>5, HoldersSame
<1>5. CASE WriteGenerated(p) \/ ReadSource(p) \/ RunCompiler(p) \/ CompilerFails(p)
  <2>1. /\ upc'[p] \in {"run", "unlock"} /\ HoldsUnit(p)
        /\ unitLock' = unitLock /\ utimer' = utimer /\ robbed' = robbed
    BY <1>5 DEF WriteGenerated, ReadSource, RunCompiler, CompilerFails, UGo, UnitTypes, HoldsUnit
  <2>2. HoldsUnit(p)' /\ upc'[p] # "break"
    BY <2>1 DEF HoldsUnit
  <2>3. \A q \in Process : HoldsUnit(q)' = HoldsUnit(q)
    BY <1>2, <2>1, <2>2 DEF HoldsUnit
  <2>4. \A q \in Process \ killed' : upc'[q] # "break"
    BY <1>1, <1>3, <2>2
  <2> QED
    BY <2>1, <2>3, <2>4, HoldersSame
<1>6. CASE TakeUnit(p)
  <2>1. \A q \in Process : ~HoldsUnit(q)
    BY <1>6 DEF TakeUnit, CanMake, Dated, UnitTypes, Free
  <2>2. upc'[p] = "write" /\ utimer'[p] = 0 /\ unitLock' = 0 /\ robbed' = robbed
    BY <1>6 DEF TakeUnit, UGo, UnitTypes, Fresh
  <2>3. HoldsUnit(p)' /\ upc'[p] # "break"
    BY <2>2 DEF HoldsUnit
  <2>4. \A q \in Process : HoldsUnit(q)' => q = p
    BY <1>2, <2>1
  <2>5. Dated'
    BY <1>1, <1>3, <2>2, <2>3, <2>4, StaleAgeAssumption DEF Dated
  <2> QED
    BY <2>2, <2>5
<1>7. CASE ReleaseUnit(p)
  <2>1. HoldsUnit(p) /\ upc'[p] = "finished" /\ unitLock' = Free
    BY <1>7 DEF ReleaseUnit, UGo, UnitTypes, HoldsUnit
  <2>2. ~HoldsUnit(p)' /\ upc'[p] # "break"
    BY <2>1 DEF HoldsUnit
  <2>3. ASSUME NEW q \in Process \ {p} PROVE ~HoldsUnit(q)
    <3>1. HoldsUnit(q) => q \notin killed
      BY DEF InTime, UnitOrphaned
    <3> QED
      BY <1>1, <2>1, <3>1 DEF Lone
  <2>4. \A q \in Process : ~HoldsUnit(q)'
    BY <1>2, <2>2, <2>3
  <2>5. Dated'
    BY <1>1, <1>3, <2>1, <2>2, <2>4 DEF Dated
  <2>6. LiveHolders(p) = {}
    BY <2>3 DEF LiveHolders
  <2> QED
    BY <1>7, <2>5, <2>6 DEF ReleaseUnit
<1>8. ~BreakUnit(p)
  BY <1>1 DEF BreakUnit, UGo
<1> QED
  BY <1>4, <1>5, <1>6, <1>7, <1>8 DEF UnitStep

\* Time passes only while the holder waits for its compiler, and past the limit
\* not without a note of it.
LEMMA TickKeepsDates ==
  ASSUME UnitTypes, Within, Dated, InTime, InTime', PipelineTick
  PROVE  Dated'
<1>1. upc' = upc /\ killed' = killed
  BY DEF PipelineTick
<1>2. \A q \in Process : HoldsUnit(q)' = HoldsUnit(q)
  BY <1>1 DEF HoldsUnit
<1>3. ASSUME NEW q \in Process, HoldsUnit(q) PROVE Running(q) /\ upc[q] = "run"
  <2>1. q \notin killed
    BY <1>3 DEF InTime, UnitOrphaned
  <2>2. pc[q] \in {"compile", "idle"} /\ upc[q] # "out" /\ upc[q] # "mkdir"
    BY <1>3, <2>1 DEF Within, HoldsUnit
  <2>3. Running(q)
    BY <2>2 DEF Running, Live
  <2> QED
    BY <2>2, <2>3 DEF PipelineTick, Asleep
<1>4. ASSUME NEW q \in Process, HoldsUnit(q)
      PROVE  utimer'[q] = utimer[q] + 1 /\ ~(utimer'[q] > StaleAge)
  <2>1. utimer'[q] = utimer[q] + 1
    BY <1>3, <1>4 DEF PipelineTick
  <2>2. q \notin overran'
    BY DEF InTime
  <2>3. ~(utimer'[q] > StaleAge)
    BY <1>3, <1>4, <2>2 DEF PipelineTick
  <2> QED
    BY <2>1, <2>3
<1>5. unitLock # Free => unitLock' = unitLock + 1
  BY UnitNeverStale DEF PipelineTick, Aged, IsStale
<1>6. unitLock' = Free <=> unitLock = Free
  BY LockStates DEF PipelineTick, UnitTypes
<1>7. ASSUME NEW q \in Process, HoldsUnit(q)'
      PROVE  unitLock' = utimer'[q] /\ utimer'[q] <= StaleAge
  <2>1. HoldsUnit(q) /\ utimer[q] \in Nat /\ unitLock = utimer[q]
    BY <1>2, <1>7 DEF Dated, UnitTypes
  <2>2. unitLock # Free
    BY <2>1 DEF Free
  <2> QED
    BY <1>4, <1>5, <2>1, <2>2, StaleAgeAssumption
<1> QED
  BY <1>1, <1>2, <1>6, <1>7 DEF Dated

LEMMA DatesKept ==
  ASSUME TypeOK, UnitTypes, Within, Lone, Dated, InTime, InTime', robbed = {},
         [PipelineNext]_pipelineVars
  PROVE  Dated' /\ robbed' = {}
<1>1. ASSUME UnitQuiet PROVE Dated' /\ robbed' = {}
  BY <1>1, HoldersSame DEF UnitQuiet, unitVars, HoldsUnit, Dated
<1>2. ASSUME NEW p \in Process, BuildStep(p) PROVE Dated' /\ robbed' = {}
  BY <1>1, <1>2, CacheStepIs, EndsQuietly, UnitStepKeepsDates DEF BuildStep
<1>3. ASSUME NEW p \in Process, KillBuild(p) PROVE Dated' /\ robbed' = {}
  <2>1. /\ upc' = upc /\ unitLock' = unitLock /\ killed' = killed \cup {p}
        /\ robbed' = robbed
        /\ \A q \in Process \ {p} : utimer'[q] = utimer[q]
    BY <1>3 DEF KillBuild, UnitTypes
  <2>2. ~HoldsUnit(p)
    BY <2>1 DEF InTime, UnitOrphaned, HoldsUnit
  <2> QED
    BY <2>1, <2>2, HoldersSame DEF HoldsUnit, Dated
<1>4. CASE PipelineTick
  BY <1>4, TickKeepsDates DEF PipelineTick
<1>5. CASE UNCHANGED pipelineVars
  BY <1>1, <1>5 DEF pipelineVars, vars, UnitQuiet
<1> QED
  BY <1>1, <1>2, <1>3, <1>4, <1>5 DEF PipelineNext, pipelineVars, vars, UnitQuiet

-----------------------------------------------------------------------------
(* What is compiled.                                                       *)

\* No other build writes the file while a compiler runs: it would hold the unit
\* as well.
LEMMA OwnSourceKept ==
  ASSUME TypeOK, UnitTypes, Lone, CompilerReadsOwnSource, [PipelineNext]_pipelineVars
  PROVE  CompilerReadsOwnSource'
<1>1. ASSUME UnitQuiet PROVE CompilerReadsOwnSource'
  BY <1>1 DEF UnitQuiet, unitVars, CompilerReadsOwnSource
<1>2. ASSUME NEW p \in Process, UnitStep(p) PROVE CompilerReadsOwnSource'
  <2>1. /\ key' = key /\ killed' = killed
        /\ \A q \in Process \ {p} : upc'[q] = upc[q]
    BY <1>2, UnitStepIs DEF vars, UnitTypes
  <2>2. CASE WriteGenerated(p)
    <3>1. generated' = key[p] /\ HoldsUnit(p)
      BY <2>2 DEF WriteGenerated, UGo, HoldsUnit
    <3>2. \A q \in Process \ (killed \cup {p}) : upc'[q] # "run"
      BY <1>2, <2>1, <3>1, UnitStepIs DEF Lone, HoldsUnit
    <3> QED
      BY <2>1, <3>1, <3>2 DEF CompilerReadsOwnSource
  <2>3. CASE ~WriteGenerated(p)
    <3>1. generated' = generated /\ (upc'[p] = "run" => upc[p] = "run")
      BY <1>2, <2>3 DEF UnitStep, UGo, EnterUnit, TakeUnit, UnitBusy, UnitGiveUp, StatUnit,
         BreakUnit, ReadSource, RunCompiler, CompilerFails, ReleaseUnit, UnitTypes
    <3> QED
      BY <2>1, <3>1 DEF CompilerReadsOwnSource
  <2> QED
    BY <2>2, <2>3
<1>3. ASSUME NEW p \in Process, KillBuild(p) PROVE CompilerReadsOwnSource'
  BY <1>3 DEF KillBuild, CompilerReadsOwnSource
<1>4. CASE PipelineTick
  BY <1>4 DEF PipelineTick, CompilerReadsOwnSource
<1> QED
  BY <1>1, <1>2, <1>3, <1>4, CacheStepIs, EndsQuietly
     DEF PipelineNext, BuildStep, pipelineVars, vars, UnitQuiet

LEMMA OwnBinaryKept ==
  ASSUME TypeOK, UnitTypes, Lone, CompilerReadsOwnSource, OwnBinary,
         [PipelineNext]_pipelineVars
  PROVE  OwnBinary'
<1>1. ASSUME key' = key, ubin' = ubin PROVE OwnBinary'
  BY <1>1 DEF OwnBinary, For
<1>2. ASSUME NEW p \in Process, UnitStep(p) PROVE OwnBinary'
  <2>1. key' = key
    BY <1>2, UnitStepIs DEF vars
  <2>2. CASE ReadSource(p)
    <3>1. p \notin killed /\ upc[p] = "run"
      BY <2>2 DEF ReadSource, UGo
    <3>2. generated = key[p] /\ key[p] \in Key
      BY <3>1 DEF CompilerReadsOwnSource, TypeOK
    <3>3. \A q \in Process \ killed : upc[q] = "run" => q = p
      BY <3>1 DEF Lone, HoldsUnit
    <3>4. UnitSources = {key[p]}
      BY <3>1, <3>2, <3>3 DEF UnitSources
    <3>5. ubin' = [ubin EXCEPT ![p] = [key |-> key[p], by |-> p]]
      BY <2>2, <3>4 DEF ReadSource
    <3>6. For(key[p], [key |-> key[p], by |-> p])
      BY <3>2 DEF For, Binary
    <3> QED
      BY <2>1, <3>5, <3>6 DEF OwnBinary, UnitTypes, For
  <2>3. CASE CompilerFails(p)
    BY <2>1, <2>3 DEF CompilerFails, OwnBinary, UnitTypes, For
  <2>4. CASE ~ReadSource(p) /\ ~CompilerFails(p)
    <3>1. ubin' = ubin
      BY <1>2, <2>4 DEF UnitStep, EnterUnit, TakeUnit, UnitBusy, UnitGiveUp, StatUnit,
         BreakUnit, WriteGenerated, RunCompiler, ReleaseUnit
    <3> QED
      BY <1>1, <2>1, <3>1
  <2> QED
    BY <2>2, <2>3, <2>4
<1> QED
  BY <1>1, <1>2, CacheStepIs, EndsQuietly
     DEF PipelineNext, BuildStep, KillBuild, PipelineTick, pipelineVars, vars, unitVars,
         UnitQuiet

\* The cache hands on what the compiler made.
LEMMA SoundKept ==
  ASSUME TypeOK, UnitTypes, OwnBinary, SoundInv, [PipelineNext]_pipelineVars
  PROVE  SoundInv'
<1>1. ASSUME [Next]_vars PROVE SoundInv'
  BY <1>1, SoundInductive
<1>2. ASSUME NEW p \in Process, CachedCompileEnds(p) PROVE SoundInv'
  <2>1. CASE CompileFails(p)
    BY <1>1, <2>1 DEF Next, Step
  <2>2. CASE CompileTo(p, ubin[p])
    <3>1. For(key[p], ubin[p])
      BY DEF OwnBinary
    <3> QED
      BY <2>2, <3>1 DEF CompileTo, SoundInv, TypeOK, For
  <2> QED
    BY <1>2, <2>1, <2>2 DEF CachedCompileEnds
<1>3. ASSUME NEW p \in Process, BypassEnds(p) PROVE SoundInv'
  <2>1. For(key[p], ubin[p])
    BY DEF OwnBinary
  <2> QED
    BY <1>3, <2>1 DEF BypassEnds, SoundInv, TypeOK, For
<1>4. ASSUME NEW p \in Process, KillBuild(p) PROVE SoundInv'
  BY <1>4 DEF KillBuild, SoundInv, For
<1>5. CASE PipelineTick
  BY <1>5 DEF PipelineTick, SoundInv, For
<1> QED
  BY <1>1, <1>2, <1>3, <1>4, <1>5, CacheStepIs, UnitStepIs DEF PipelineNext, BuildStep,
     pipelineVars

-----------------------------------------------------------------------------
LEMMA PipelineStarts == PipelineInit => PipelineInv
<1> SUFFICES ASSUME PipelineInit PROVE PipelineInv
  OBVIOUS
<1>1. TypeOK
  BY LockStates, CacheAssumption DEF PipelineInit, Init, TypeOK, Entry, Absent, PC, Result
<1>2. UnitTypes /\ Within
  BY LockStates DEF PipelineInit, UnitTypes, UnitPlace, Within
<1>3. Lone /\ Dated /\ CompilerReadsOwnSource /\ robbed = {}
  BY DEF PipelineInit, Lone, Dated, CompilerReadsOwnSource, HoldsUnit
<1>4. OwnBinary /\ SoundInv
  BY DEF PipelineInit, Init, OwnBinary, SoundInv, For, Absent
<1> QED
  BY <1>1, <1>2, <1>3, <1>4 DEF PipelineInv, Orderly

LEMMA PipelineKept ==
  ASSUME PipelineInv, [PipelineNext]_pipelineVars
  PROVE  PipelineInv'
<1>1. TypeOK' /\ UnitTypes' /\ Within'
  BY TypesKept, UnitTypesKept, WithinKept DEF PipelineInv
<1>2. robbed' = {} => Orderly'
  <2> SUFFICES ASSUME robbed' = {} PROVE Orderly'
    OBVIOUS
  <2>1. Orderly
    BY HistoryGrows DEF PipelineInv
  <2> QED
    BY <2>1, LoneKept, OwnSourceKept, OwnBinaryKept, SoundKept DEF PipelineInv, Orderly
<1>3. InTime' => robbed' = {} /\ Dated'
  <2> SUFFICES ASSUME InTime' PROVE robbed' = {} /\ Dated'
    OBVIOUS
  <2>1. InTime /\ robbed = {} /\ Dated /\ Lone
    BY HistoryGrows DEF PipelineInv, Orderly
  <2> QED
    BY <2>1, DatesKept DEF PipelineInv
<1> QED
  BY <1>1, <1>2, <1>3 DEF PipelineInv

LEMMA PipelineInvHolds == PipelineSpec => []PipelineInv
<1>1. PipelineInv /\ [PipelineNext]_pipelineVars => PipelineInv'
  BY PipelineKept
<1> QED
  BY <1>1, PipelineStarts, PTL DEF PipelineSpec

\* What the provisos of the two properties come to.
LEMMA OrderUntilLost == PipelineInv => LockLost \/ Orderly
  BY DEF PipelineInv, LockLost, InTime

\* However long compiles take and whoever is killed: whatever is published, or
\* kept in the cache and would be a hit, was compiled from the source of the
\* build that asked for it, until a live build has lost its unit lock; and none
\* does before a build has died in the unit or stayed there past the limit.
THEOREM BinariesAreOwn == PipelineSpec => []BinaryFromOwnSource
<1>1. SoundInv => OutputSound /\ \A k \in Key : Valid(k) => entry[k].bytes.key = k
  BY DEF SoundInv, OutputSound, Valid, For
<1>2. PipelineInv => BinaryFromOwnSource
  BY <1>1, OrderUntilLost DEF Orderly, BinaryFromOwnSource
<1> QED
  BY <1>2, PipelineInvHolds, PTL

\* While a compiler runs, the file it reads is its own build's, until the same
\* moment: an emit waits for the lock like a build.
THEOREM SourceStaysOwn == PipelineSpec => []GeneratedStable
<1>1. PipelineInv => GeneratedStable
  BY OrderUntilLost DEF Orderly, GeneratedStable
<1> QED
  BY <1>1, PipelineInvHolds, PTL

-----------------------------------------------------------------------------
(* What the builds leave behind, for any times: no lock need be honoured.  *)

\* A directory of the unit lock belongs to a build that will remove it.
Attended ==
  killed = {} /\ unitLock # Free => \E p \in Process : HoldsUnit(p)

\* When every build and emit of the project has ended and none was killed,
\* neither cache nor unit holds a lock, and no stage is left.
PipelineCleanExit ==
  /\ CleanExit
  /\ killed = {} /\ (\A p \in Process : pc[p] = "done") => unitLock = Free

LEMMA AttendedKept ==
  ASSUME TypeOK, UnitTypes, Attended, [PipelineNext]_pipelineVars
  PROVE  Attended'
<1>1. ASSUME UnitQuiet PROVE Attended'
  BY <1>1 DEF UnitQuiet, unitVars, Attended, HoldsUnit
<1>2. ASSUME NEW p \in Process, UnitStep(p) PROVE Attended'
  <2>1. /\ killed' = killed
        /\ \A q \in Process \ {p} : HoldsUnit(q)' = HoldsUnit(q)
    BY <1>2, UnitStepIs DEF vars, UnitTypes, HoldsUnit
  <2>2. CASE TakeUnit(p)
    <3>1. HoldsUnit(p)'
      BY <2>2 DEF TakeUnit, UGo, UnitTypes, HoldsUnit
    <3> QED
      BY <3>1 DEF Attended
  <2>3. CASE BreakUnit(p) \/ ReleaseUnit(p)
    BY <2>3 DEF BreakUnit, ReleaseUnit, Attended
  <2>4. CASE EnterUnit(p) \/ UnitBusy(p) \/ UnitGiveUp(p) \/ StatUnit(p)
    <3>1. unitLock' = unitLock /\ ~HoldsUnit(p)
      BY <2>4 DEF EnterUnit, UnitBusy, UnitGiveUp, StatUnit, UGo, HoldsUnit
    <3> QED
      BY <2>1, <3>1 DEF Attended
  <2>5. CASE WriteGenerated(p) \/ ReadSource(p) \/ RunCompiler(p) \/ CompilerFails(p)
    <3>1. unitLock' = unitLock /\ HoldsUnit(p)'
      BY <2>5 DEF WriteGenerated, ReadSource, RunCompiler, CompilerFails, UGo, UnitTypes, HoldsUnit
    <3> QED
      BY <3>1 DEF Attended
  <2> QED
    BY <1>2, <2>2, <2>3, <2>4, <2>5 DEF UnitStep
<1>3. ASSUME NEW p \in Process, KillBuild(p) PROVE Attended'
  BY <1>3 DEF KillBuild, Attended
<1>4. CASE PipelineTick
  BY <1>4, LockStates DEF PipelineTick, UnitTypes, Attended, HoldsUnit
<1> QED
  BY <1>1, <1>2, <1>3, <1>4, CacheStepIs, EndsQuietly
     DEF PipelineNext, BuildStep, pipelineVars, vars, UnitQuiet

\* The cache's own locks and stages, around a compile that takes steps.
LEMMA CachesCleanKept ==
  ASSUME TypeOK, CleanInv, [PipelineNext]_pipelineVars
  PROVE  CleanInv'
<1>1. ASSUME [Next]_vars PROVE CleanInv'
  BY <1>1, CleanInductive
\* A step after which every hold and every stage there was is still accounted for.
<1>2. ASSUME key' = key, lock' = lock, staged' = staged, killed' = killed,
             \A q \in Process : Holds(q) => Holds(q)',
             \A q \in Process : pc[q] \in {"compile", "install", "release"}
                                  => pc'[q] \in {"compile", "install", "release"}
      PROVE  CleanInv'
  BY <1>2 DEF TypeOK, CleanInv
<1>3. ASSUME NEW p \in Process, CachedCompileEnds(p) PROVE CleanInv'
  <2>1. CASE CompileFails(p)
    BY <1>1, <2>1 DEF Next, Step
  <2>2. CASE CompileTo(p, ubin[p])
    BY <1>2, <2>2 DEF CompileTo, Go, Holds, Holding, TypeOK
  <2> QED
    BY <1>3, <2>1, <2>2 DEF CachedCompileEnds
<1>4. ASSUME NEW p \in Process, BypassEnds(p) PROVE CleanInv'
  BY <1>2, <1>4 DEF BypassEnds, Go, Holds, Holding, TypeOK
<1>5. ASSUME NEW p \in Process, KillBuild(p) PROVE CleanInv'
  BY <1>5 DEF KillBuild, CleanInv
<1>6. CASE PipelineTick
  <2>1. \A k \in Key : lock'[k] = Free <=> lock[k] = Free
    BY <1>6, LockStates DEF PipelineTick, TypeOK
  <2>2. \A q \in Process : Holds(q)' <=> Holds(q)
    BY <1>6 DEF PipelineTick, Holds
  <2> QED
    BY <1>6, <2>1, <2>2 DEF PipelineTick, CleanInv, TypeOK
<1>7. ASSUME UNCHANGED vars PROVE CleanInv'
  BY <1>1, <1>7
<1> QED
  BY <1>1, <1>3, <1>4, <1>5, <1>6, <1>7, CacheStepIs, UnitStepIs
     DEF PipelineNext, BuildStep, pipelineVars

\* Builds that time out, fail, steal a cache lock from each other or wait for
\* an emit clean up after themselves all the same; only a kill leaves a lock.
THEOREM PipelineLeavesNothing == PipelineSpec => []PipelineCleanExit
<1> DEFINE Inv == TypeOK /\ UnitTypes /\ Within /\ Attended /\ CleanInv
<1>1. PipelineInit => Inv
  BY PipelineStarts DEF PipelineInv, PipelineInit, Init, Attended, CleanInv
<1>2. Inv /\ [PipelineNext]_pipelineVars => Inv'
  BY TypesKept, UnitTypesKept, WithinKept, AttendedKept, CachesCleanKept
<1>3. Inv => PipelineCleanExit
  <2> SUFFICES ASSUME Inv PROVE PipelineCleanExit
    OBVIOUS
  <2>1. CleanExit
    BY DEF TypeOK, CleanInv, CleanExit, Holds, Holding
  <2>2. ASSUME killed = {}, \A p \in Process : pc[p] = "done" PROVE unitLock = Free
    <3>1. \A p \in Process : upc[p] \in {"out", "finished"}
      BY <2>2 DEF Within
    <3> QED
      BY <2>2, <3>1 DEF Attended, HoldsUnit
  <2> QED
    BY <2>1, <2>2 DEF PipelineCleanExit
<1> QED
  BY <1>1, <1>2, <1>3, PTL DEF PipelineSpec

-----------------------------------------------------------------------------
(***************************************************************************)
(* The pipeline implements CompileCache: what goes on in the unit is, for  *)
(* the cache, one compile of the build's own key, that ends in time.       *)
(***************************************************************************)
\* The two bounds of the exploration agree: a cached build may wait for the unit
\* as long as it may, and compile after that.
LongEnough == Deadline + 1 + CompileMax <= HoldMax

BeforeCompile == {"idle", "fast", "mkdir", "poll", "stat", "break", "recheck", "clear"}

\* A build that uses the cache gets to the unit by its compile alone, one that
\* does not is no call of compileCached, and who is killed does nothing.
Placed ==
  \A p \in Process :
    /\ UsesCache(p) /\ pc[p] \in BeforeCompile => upc[p] = "out"
    /\ ~UsesCache(p) => pc[p] \in {"idle", "done"} /\ timer[p] = 0
    /\ p \in killed => pc[p] = "done"

\* How long the cache lock has been held is how long the build has waited for
\* the unit and then compiled.
Spent ==
  \A p \in Process :
    /\ upc[p] = "out" => utimer[p] = 0
    /\ pc[p] \in {"recheck", "clear"} => timer[p] = 0
    /\ pc[p] = "compile" =>
         /\ upc[p] = "out" => timer[p] = 0
         /\ upc[p] \in {"mkdir", "stat", "break"} =>
              timer[p] = utimer[p] /\ utimer[p] <= Deadline + 1
         /\ upc[p] = "write" => timer[p] <= Deadline + 1 /\ utimer[p] = 0
         /\ upc[p] \in {"run", "unlock"} =>
              timer[p] <= Deadline + 1 + utimer[p] /\ utimer[p] <= CompileMax

\* A compiler's binary is by the build that ran it.
Signed == \A p \in Process : ubin[p] # None => ubin[p].by = p

CallsInv == Placed /\ Spent /\ Signed

\* The steps in the cache, by what Placed and Spent ask of them.
LEMMA CacheStepMoves ==
  ASSUME TypeOK, NEW p \in Process, CacheStep(p)
  PROVE  /\ killed' = killed /\ \A q \in Process \ {p} : timer'[q] = timer[q] /\ pc'[q] = pc[q]
         /\ pc'[p] \in BeforeCompile \cup {"compile"} => pc[p] \in BeforeCompile
         /\ pc'[p] \in {"recheck", "clear", "compile"} =>
              timer'[p] = 0 \/ (pc[p] \in {"recheck", "clear"} /\ timer'[p] = timer[p])
<1> USE DEF TypeOK, Go, BeforeCompile
<1>1. CASE Start(p)
  BY <1>1 DEF Start
<1>2. CASE Reading(p)
  <2>1. CASE ReadRecord(p)
    BY <2>1 DEF ReadRecord
  <2>2. CASE VerifiedHit(p)
    BY <2>2 DEF VerifiedHit
  <2>3. CASE RecheckMiss(p)
    BY <2>3 DEF RecheckMiss
  <2> QED
    BY <1>2, <2>1, <2>2, <2>3 DEF Reading
<1>3. CASE Waiting(p)
  <2>1. CASE FastMiss(p) \/ TakeLock(p) \/ LockBusy(p) \/ PollMiss(p)
    BY <2>1 DEF FastMiss, TakeLock, LockBusy, PollMiss
  <2>2. CASE GiveUp(p) \/ StatFresh(p) \/ StatStale(p) \/ BreakLock(p)
    BY <2>2 DEF GiveUp, StatFresh, StatStale, BreakLock
  <2> QED
    BY <1>3, <2>1, <2>2 DEF Waiting
<1>4. CASE Producing(p)
  <2>1. CASE Clear(p)
    BY <2>1 DEF Clear
  <2>2. CASE Install(p) \/ InstallFails(p)
    BY <2>2 DEF Install, InstallFails
  <2>3. CASE Publish(p) \/ PublishFails(p) \/ Release(p)
    BY <2>3 DEF Publish, PublishFails, Release
  <2> QED
    BY <1>4, <2>1, <2>2, <2>3 DEF Producing
<1> QED
  BY <1>1, <1>2, <1>3, <1>4 DEF CacheStep

LEMMA CacheStepKeepsCalls ==
  ASSUME TypeOK, UnitTypes, CallsInv, NEW p \in Process, CacheStep(p)
  PROVE  CallsInv'
<1>1. /\ killed' = killed
      /\ \A q \in Process \ {p} : timer'[q] = timer[q] /\ pc'[q] = pc[q]
      /\ pc'[p] \in BeforeCompile \cup {"compile"} => pc[p] \in BeforeCompile
      /\ pc'[p] \in {"recheck", "clear", "compile"} =>
           timer'[p] = 0 \/ (pc[p] \in {"recheck", "clear"} /\ timer'[p] = timer[p])
  BY CacheStepMoves
<1>2. UNCHANGED unitVars /\ UsesCache(p) /\ pc[p] # "done"
  BY DEF CacheStep, UsesCache, Start, Reading, Waiting, Producing, Go, ReadRecord, VerifiedHit,
     RecheckMiss, FastMiss, TakeLock, LockBusy, PollMiss, GiveUp, StatFresh, StatStale,
     BreakLock, Clear, Install, InstallFails, Publish, PublishFails, Release
<1>3. Signed'
  BY <1>2 DEF CallsInv, Signed, unitVars
<1>4. p \notin killed /\ (pc'[p] \in BeforeCompile \cup {"compile"} => upc[p] = "out")
  BY <1>1, <1>2 DEF CallsInv, Placed
<1>5. Placed'
  BY <1>1, <1>2, <1>4 DEF CallsInv, Placed, unitVars, UsesCache
<1>6. Spent'
  <2>1. ASSUME NEW q \in Process \ {p}
        PROVE  pc'[q] = pc[q] /\ timer'[q] = timer[q] /\ upc'[q] = upc[q] /\ utimer'[q] = utimer[q]
    BY <1>1, <1>2 DEF unitVars
  <2>2. upc'[p] = upc[p] /\ utimer'[p] = utimer[p]
    BY <1>2 DEF unitVars
  <2>3. pc'[p] \in {"recheck", "clear", "compile"} => timer'[p] = 0 /\ upc[p] = "out"
    BY <1>1, <1>4 DEF CallsInv, Spent, BeforeCompile
  <2> QED
    BY <2>1, <2>2, <2>3 DEF CallsInv, Spent
<1> QED
  BY <1>3, <1>5, <1>6 DEF CallsInv

LEMMA UnitStepKeepsCalls ==
  ASSUME TypeOK, UnitTypes, CallsInv, NEW p \in Process, UnitStep(p)
  PROVE  CallsInv'
<1>1. /\ UNCHANGED vars /\ kind' = kind /\ p \notin killed
      /\ \A q \in Process \ {p} : upc'[q] = upc[q]
  BY UnitStepIs DEF UnitTypes
<1>2. \A q \in Process \ {p} : utimer'[q] = utimer[q] /\ ubin'[q] = ubin[q]
  BY DEF UnitTypes, UnitStep, EnterUnit, TakeUnit, UnitBusy, UnitGiveUp, StatUnit, BreakUnit,
     WriteGenerated, ReadSource, RunCompiler, CompilerFails, ReleaseUnit
<1>3. upc[p] = "out" /\ UsesCache(p) => pc[p] = "compile"
  BY DEF UsesCache, UnitStep, UGo, EnterUnit, TakeUnit, UnitBusy, UnitGiveUp, StatUnit,
     BreakUnit, WriteGenerated, ReadSource, RunCompiler, CompilerFails, ReleaseUnit
<1>4. Placed'
  <2>1. UsesCache(p) => pc[p] \notin BeforeCompile
    BY <1>3 DEF CallsInv, Placed, BeforeCompile
  <2> QED
    BY <1>1, <2>1 DEF CallsInv, Placed, UsesCache, vars
<1>5. Signed'
  <2>1. ubin'[p] # None => ubin'[p] = ubin[p] \/ ubin'[p].by = p
    BY DEF UnitTypes, UnitStep, EnterUnit, TakeUnit, UnitBusy, UnitGiveUp, StatUnit, BreakUnit,
       WriteGenerated, ReadSource, RunCompiler, CompilerFails, ReleaseUnit
  <2> QED
    BY <1>2, <2>1 DEF CallsInv, Signed
<1>6. Spent'
  <2>0. pc' = pc /\ timer' = timer
    BY <1>1 DEF vars
  <2>1. ASSUME NEW q \in Process \ {p}
        PROVE  pc'[q] = pc[q] /\ timer'[q] = timer[q] /\ upc'[q] = upc[q] /\ utimer'[q] = utimer[q]
    BY <1>1, <1>2, <2>0
  <2> DEFINE Mine == pc[p] = "compile" =>
               /\ upc'[p] = "out" => timer[p] = 0
               /\ upc'[p] \in {"mkdir", "stat", "break"} =>
                    timer[p] = utimer'[p] /\ utimer'[p] <= Deadline + 1
               /\ upc'[p] = "write" => timer[p] <= Deadline + 1 /\ utimer'[p] = 0
               /\ upc'[p] \in {"run", "unlock"} =>
                    timer[p] <= Deadline + 1 + utimer'[p] /\ utimer'[p] <= CompileMax
  <2>2. utimer[p] \in Nat /\ timer[p] \in Nat
    BY DEF TypeOK, UnitTypes
  <2>3. Mine
    <3> USE <2>2, CacheAssumption, CompileMaxAssumption DEF CallsInv, Spent, UGo, UnitTypes
    <3>1. CASE EnterUnit(p)
      BY <3>1 DEF EnterUnit
    <3>2. CASE TakeUnit(p)
      BY <3>2 DEF TakeUnit
    <3>3. CASE UnitBusy(p) \/ StatUnit(p) \/ BreakUnit(p)
      BY <3>3 DEF UnitBusy, StatUnit, BreakUnit
    <3>4. CASE UnitGiveUp(p) \/ ReleaseUnit(p)
      BY <3>4 DEF UnitGiveUp, ReleaseUnit
    <3>5. CASE WriteGenerated(p)
      BY <3>5 DEF WriteGenerated
    <3>6. CASE ReadSource(p) \/ RunCompiler(p) \/ CompilerFails(p)
      BY <3>6 DEF ReadSource, RunCompiler, CompilerFails
    <3> HIDE DEF Mine
    <3> QED
      BY <3>1, <3>2, <3>3, <3>4, <3>5, <3>6 DEF UnitStep
  <2>4. upc'[p] # "out"
    BY DEF UnitTypes, UnitStep, UGo, EnterUnit, TakeUnit, UnitBusy, UnitGiveUp, StatUnit,
       BreakUnit, WriteGenerated, ReadSource, RunCompiler, CompilerFails, ReleaseUnit
  <2> QED
    BY <2>0, <2>1, <2>3, <2>4 DEF CallsInv, Spent
<1> QED
  BY <1>4, <1>5, <1>6 DEF CallsInv

\* While time passes a build that holds its cache lock compiles: it waits for
\* the unit, before its deadline, or for the compiler.
LEMMA HoldersSleep ==
  ASSUME TypeOK, UnitTypes, Within, CallsInv, PipelineTick, NEW p \in Process, Holds(p)
  PROVE  /\ pc[p] = "compile" /\ Running(p) /\ UsesCache(p)
         /\ \/ upc[p] = "mkdir" /\ utimer[p] <= Deadline
            \/ upc[p] = "run" /\ utimer[p] < CompileMax
<1>1. pc[p] \notin {"idle", "done", "mkdir"}
  BY DEF Holds, Holding
<1>2. Running(p) /\ UsesCache(p) /\ p \notin killed
  BY <1>1 DEF Running, Live, CallsInv, Placed
<1>3. Asleep(p)
  BY <1>2 DEF PipelineTick
<1>4. \/ upc[p] = "mkdir" /\ utimer[p] <= Deadline
      \/ upc[p] = "run" /\ utimer[p] < CompileMax
  BY <1>1, <1>3 DEF Asleep
<1> QED
  BY <1>2, <1>4 DEF Within, UsesCache

LEMMA CallsKept ==
  ASSUME TypeOK, UnitTypes, Within, CallsInv, [PipelineNext]_pipelineVars
  PROVE  CallsInv'
<1>1. ASSUME NEW p \in Process, CachedCompileEnds(p) PROVE CallsInv'
  <2>1. /\ UNCHANGED unitVars /\ timer' = timer /\ killed' = killed
        /\ pc[p] = "compile" /\ pc'[p] \in {"install", "release"}
        /\ \A q \in Process \ {p} : pc'[q] = pc[q]
        /\ UsesCache(p)
    BY <1>1 DEF CachedCompileEnds, CompileFails, CompileTo, Go, TypeOK, UsesCache
  <2>2. p \notin killed
    BY <2>1 DEF CallsInv, Placed
  <2>3. Placed'
    BY <2>1, <2>2 DEF CallsInv, Placed, UsesCache, unitVars, BeforeCompile
  <2>4. Spent' /\ Signed'
    BY <2>1 DEF CallsInv, Spent, Signed, unitVars
  <2> QED
    BY <2>3, <2>4 DEF CallsInv
<1>2. ASSUME NEW p \in Process, BypassEnds(p) PROVE CallsInv'
  <2>1. /\ UNCHANGED unitVars /\ timer' = timer /\ killed' = killed
        /\ pc'[p] = "done" /\ ~UsesCache(p)
        /\ \A q \in Process \ {p} : pc'[q] = pc[q]
    BY <1>2 DEF BypassEnds, Go, TypeOK, UsesCache
  <2>2. Placed'
    BY <2>1 DEF CallsInv, Placed, UsesCache, unitVars
  <2>3. Spent' /\ Signed'
    BY <2>1 DEF CallsInv, Spent, Signed, unitVars
  <2> QED
    BY <2>2, <2>3 DEF CallsInv
<1>3. ASSUME NEW p \in Process, KillBuild(p) PROVE CallsInv'
  <2>1. /\ kind' = kind /\ upc' = upc /\ ubin' = ubin /\ killed' = killed \cup {p}
        /\ pc'[p] = "done" /\ timer'[p] = 0 /\ utimer'[p] = 0
        /\ \A q \in Process \ {p} :
             pc'[q] = pc[q] /\ timer'[q] = timer[q] /\ utimer'[q] = utimer[q]
    BY <1>3 DEF KillBuild, TypeOK, UnitTypes
  <2>2. Placed'
    BY <2>1 DEF CallsInv, Placed, UsesCache, BeforeCompile
  <2>3. Spent'
    BY <2>1 DEF CallsInv, Spent
  <2>4. Signed'
    BY <2>1 DEF CallsInv, Signed
  <2> QED
    BY <2>2, <2>3, <2>4 DEF CallsInv
<1>4. CASE PipelineTick
  <2>1. /\ pc' = pc /\ kind' = kind /\ upc' = upc /\ ubin' = ubin /\ killed' = killed
    BY <1>4 DEF PipelineTick
  <2>2. Signed'
    BY <2>1 DEF CallsInv, Signed
  <2>3. ASSUME NEW p \in Process, ~UsesCache(p) PROVE timer'[p] = timer[p]
    <3>1. ~Holds(p) /\ ~Waits(p)
      BY <2>3 DEF CallsInv, Placed, Holds, Holding, Waits
    <3> QED
      BY <1>4, <3>1 DEF PipelineTick
  <2>4. Placed'
    BY <2>1, <2>3 DEF CallsInv, Placed, UsesCache
  <2>5. ASSUME NEW p \in Process
        PROVE  /\ upc[p] = "out" => utimer'[p] = 0
               /\ pc[p] \notin {"recheck", "clear"}
               /\ pc[p] = "compile" =>
                    /\ upc[p] \in {"mkdir", "run"}
                    /\ upc[p] = "mkdir" =>
                         timer'[p] = utimer'[p] /\ utimer'[p] <= Deadline + 1
                    /\ upc[p] = "run" =>
                         timer'[p] <= Deadline + 1 + utimer'[p] /\ utimer'[p] <= CompileMax
    <3>1. upc[p] = "out" => utimer'[p] = 0
      BY <1>4 DEF PipelineTick, CallsInv, Spent
    <3>2. pc[p] \notin {"recheck", "clear"}
      BY <1>4, HoldersSleep DEF Holds, Holding
    <3>3. ASSUME pc[p] = "compile"
          PROVE  /\ \/ upc[p] = "mkdir" /\ utimer[p] <= Deadline
                    \/ upc[p] = "run" /\ utimer[p] < CompileMax
                 /\ timer'[p] = timer[p] + 1
                 /\ utimer'[p] = utimer[p] + 1
      <4>1. Holds(p)
        BY <3>3 DEF Holds, Holding
      <4>2. /\ Running(p)
            /\ \/ upc[p] = "mkdir" /\ utimer[p] <= Deadline
               \/ upc[p] = "run" /\ utimer[p] < CompileMax
        BY <1>4, <4>1, HoldersSleep
      <4>3. timer'[p] = timer[p] + 1
        BY <1>4, <4>1 DEF PipelineTick
      <4>4. utimer'[p] = IF Running(p) /\ upc[p] \in {"mkdir", "run"}
                          THEN utimer[p] + 1 ELSE utimer[p]
        BY <1>4 DEF PipelineTick
      <4> QED
        BY <4>2, <4>3, <4>4
    <3>4. /\ timer[p] \in Nat /\ utimer[p] \in Nat /\ Deadline \in Nat /\ CompileMax \in Nat
      BY CacheAssumption, CompileMaxAssumption DEF TypeOK, UnitTypes
    <3>5. pc[p] = "compile" =>
            /\ upc[p] = "mkdir" => timer[p] = utimer[p]
            /\ upc[p] = "run" => timer[p] <= Deadline + 1 + utimer[p]
      BY DEF CallsInv, Spent
    <3> QED
      BY <3>1, <3>2, <3>3, <3>4, <3>5
  <2>6. Spent'
    BY <2>1, <2>5 DEF Spent
  <2> QED
    BY <2>2, <2>4, <2>6 DEF CallsInv
<1>5. CASE UNCHANGED pipelineVars
  BY <1>5 DEF pipelineVars, vars, unitVars, CallsInv, Placed, Spent, Signed, UsesCache
<1> QED
  BY <1>1, <1>2, <1>3, <1>4, <1>5, CacheStepKeepsCalls, UnitStepKeepsCalls
     DEF PipelineNext, BuildStep

LEMMA CallsStart == PipelineInit => CallsInv /\ Calls!Init
<1> SUFFICES ASSUME PipelineInit PROVE CallsInv /\ Calls!Init
  OBVIOUS
<1>1. Placed /\ Spent
  BY DEF PipelineInit, Init, Placed, Spent, UsesCache
<1>2. Signed
  BY DEF PipelineInit, Init, Signed
<1>3. CallPc = [p \in Process |-> "idle"] /\ CallOut = [p \in Process |-> None] /\ CallsKilled = {}
  BY DEF PipelineInit, Init, CallPc, CallOut, CallsKilled
<1>4. Calls!Init
  BY <1>3 DEF PipelineInit, Init, Calls!Init, Free, Calls!Free, Absent, Calls!Absent
<1> QED
  BY <1>1, <1>2, <1>4 DEF CallsInv

\* What moves a build that uses the cache moves its call.
LEMMA CallMoves ==
  ASSUME TypeOK, kind' = kind, NEW p \in Process, UsesCache(p), NEW x, pc' = [pc EXCEPT ![p] = x]
  PROVE  CallPc[p] = pc[p] /\ CallPc' = [CallPc EXCEPT ![p] = x]
  BY DEF TypeOK, CallPc, UsesCache

LEMMA CallPublishes ==
  ASSUME TypeOK, kind' = kind, NEW p \in Process, UsesCache(p), NEW b, out' = [out EXCEPT ![p] = b]
  PROVE  CallOut' = [CallOut EXCEPT ![p] = b]
  BY DEF TypeOK, CallOut, UsesCache

LEMMA CallsStay ==
  ASSUME kind' = kind
  PROVE  /\ pc' = pc => CallPc' = CallPc
         /\ out' = out => CallOut' = CallOut
         /\ killed' = killed => CallsKilled' = CallsKilled
  BY DEF CallPc, CallOut, CallsKilled, UsesCache

\* A call sees of its build what the build sees of itself.
LEMMA CallSees ==
  ASSUME NEW p \in Process
  PROVE  /\ UsesCache(p) => /\ CallPc[p] = pc[p] /\ (Calls!Holds(p) <=> Holds(p))
                            /\ (Calls!Waits(p) <=> Waits(p)) /\ (Calls!Live(p) <=> Live(p))
         /\ ~UsesCache(p) => ~Calls!Holds(p) /\ ~Calls!Waits(p)
         /\ Calls!Missed(p) <=> Missed(p)
  BY DEF CallPc, Holds, Holding, Calls!Holds, Calls!Holding, Waits, Calls!Waits,
     Live, Calls!Live, Missed, Calls!Missed

LEMMA LocksSame ==
  /\ Calls!Free = Free /\ Calls!Fresh = Fresh /\ Calls!Absent = Absent
  /\ \A l : (Calls!CanMake(l) <=> CanMake(l)) /\ (Calls!IsStale(l) <=> IsStale(l))
            /\ Calls!Aged(l) = Aged(l)
  BY DEF Free, Calls!Free, Fresh, Calls!Fresh, Absent, Calls!Absent, CanMake, Calls!CanMake,
     IsStale, Calls!IsStale, Aged, Calls!Aged

LEMMA ReadingRefines ==
  ASSUME TypeOK, kind' = kind, NEW p \in Process, UsesCache(p), Start(p) \/ Reading(p)
  PROVE  Calls!Next
<1> USE CallsStay, CallSees
<1>1. CASE Start(p)
  <2>1. Calls!Start(p)
    BY <1>1, CallMoves DEF Start, Go, Calls!Start, Calls!Go
  <2> QED
    BY <2>1 DEF Calls!Next
<1>2. CASE ReadRecord(p)
  <2>1. Calls!ReadRecord(p)
    BY <1>2 DEF ReadRecord, Calls!ReadRecord
  <2> QED
    BY <2>1 DEF Calls!Next, Calls!Step, Calls!Reading
<1>3. CASE VerifiedHit(p)
  <2>1. Calls!VerifiedHit(p)
    BY <1>3, CallMoves DEF VerifiedHit, Calls!VerifiedHit
  <2> QED
    BY <2>1 DEF Calls!Next, Calls!Step, Calls!Reading
<1>4. CASE RecheckMiss(p)
  <2>1. Calls!RecheckMiss(p)
    BY <1>4, CallMoves DEF RecheckMiss, Go, Calls!RecheckMiss, Calls!Go
  <2> QED
    BY <2>1 DEF Calls!Next, Calls!Step, Calls!Reading
<1> QED
  BY <1>1, <1>2, <1>3, <1>4 DEF Reading

LEMMA WaitingRefines ==
  ASSUME TypeOK, kind' = kind, NEW p \in Process, UsesCache(p), Waiting(p)
  PROVE  Calls!Next
<1> USE CallsStay, CallSees, LocksSame DEF Go, Calls!Go
<1>1. FastMiss(p) => Calls!FastMiss(p)
  BY CallMoves DEF FastMiss, Calls!FastMiss
<1>2. TakeLock(p) => Calls!TakeLock(p)
  BY CallMoves DEF TakeLock, Calls!TakeLock
<1>3. LockBusy(p) => Calls!LockBusy(p)
  BY CallMoves DEF LockBusy, Calls!LockBusy
<1>4. PollMiss(p) => Calls!PollMiss(p)
  BY CallMoves DEF PollMiss, Calls!PollMiss
<1>5. GiveUp(p) => Calls!GiveUp(p)
  BY CallMoves DEF GiveUp, Calls!GiveUp
<1>6. StatFresh(p) => Calls!StatFresh(p)
  BY CallMoves DEF StatFresh, Calls!StatFresh
<1>7. StatStale(p) => Calls!StatStale(p)
  BY CallMoves DEF StatStale, Calls!StatStale
<1>8. BreakLock(p) => Calls!BreakLock(p)
  BY CallMoves DEF BreakLock, Calls!BreakLock
<1>9. Calls!Waiting(p)
  BY <1>1, <1>2, <1>3, <1>4, <1>5, <1>6, <1>7, <1>8 DEF Waiting, Calls!Waiting
<1> QED
  BY <1>9 DEF Calls!Next, Calls!Step

LEMMA ProducingRefines ==
  ASSUME TypeOK, kind' = kind, NEW p \in Process, UsesCache(p), Producing(p)
  PROVE  Calls!Next
<1> USE CallsStay, CallSees, LocksSame DEF Go, Calls!Go
<1>1. Clear(p) => Calls!Clear(p)
  BY CallMoves DEF Clear, Calls!Clear
<1>2. Install(p) => Calls!Install(p)
  BY CallMoves DEF Install, Calls!Install
<1>3. InstallFails(p) => Calls!InstallFails(p)
  BY CallMoves DEF InstallFails, Calls!InstallFails
<1>4. Publish(p) => Calls!Publish(p)
  BY CallMoves, CallPublishes DEF Publish, Calls!Publish
<1>5. PublishFails(p) => Calls!PublishFails(p)
  BY CallMoves DEF PublishFails, Calls!PublishFails
<1>6. Release(p) => Calls!Release(p)
  BY CallMoves DEF Release, Calls!Release
<1>7. Calls!Producing(p)
  BY <1>1, <1>2, <1>3, <1>4, <1>5, <1>6 DEF Producing, Calls!Producing
<1> QED
  BY <1>7 DEF Calls!Next, Calls!Step

\* The unit hands the cache a binary of the call's own key, or a failure.
LEMMA CompileRefines ==
  ASSUME TypeOK, UnitTypes, OwnBinary, Signed, NEW p \in Process, CachedCompileEnds(p)
  PROVE  Calls!Next
<1>1. UsesCache(p) /\ kind' = kind
  BY DEF CachedCompileEnds, UsesCache, unitVars
<1>2. CASE ubin[p] = None
  <2>1. CompileFails(p)
    BY <1>2 DEF CachedCompileEnds
  <2>2. Calls!CompileFails(p)
    BY <1>1, <2>1, CallMoves, CallsStay DEF CompileFails, Go, Calls!CompileFails, Calls!Go
  <2> QED
    BY <2>2 DEF Calls!Next, Calls!Step
<1>3. CASE ubin[p] # None
  <2>1. PICK b \in Binary : b = ubin[p]
    BY <1>3 DEF UnitTypes
  <2>2. b.key = key[p] /\ b.by = p
    BY <1>3, <2>1 DEF OwnBinary, Signed, For
  <2>3. ubin[p] = [key |-> key[p], by |-> p]
    BY <2>1, <2>2 DEF Binary
  <2>4. Compile(p)
    BY <1>3, <2>3 DEF CachedCompileEnds, Compile
  <2>5. Calls!Compile(p)
    BY <1>1, <2>4, CallMoves, CallsStay
       DEF Compile, CompileTo, Go, Calls!Compile, Calls!CompileTo, Calls!Go
  <2> QED
    BY <2>5 DEF Calls!Next, Calls!Step
<1> QED
  BY <1>2, <1>3

LEMMA KillRefines ==
  ASSUME TypeOK, CallsInv, NEW p \in Process, KillBuild(p)
  PROVE  Calls!Next \/ UNCHANGED Calls!vars
<1>1. kind' = kind
  BY DEF KillBuild
<1>2. CASE UsesCache(p)
  <2>1. Live(p)
    BY <1>2 DEF KillBuild, Running, CallsInv, Placed, BeforeCompile
  <2>2. CallsKilled' = CallsKilled \cup {p}
    BY <1>1, <1>2 DEF KillBuild, CallsKilled, UsesCache
  <2>3. Calls!Kill(p)
    BY <1>1, <1>2, <2>1, <2>2, CallMoves, CallsStay, CallSees DEF KillBuild, Calls!Kill
  <2> QED
    BY <2>3 DEF Calls!Next
<1>3. CASE ~UsesCache(p)
  <2>1. CallPc' = CallPc
    BY <1>1, <1>3 DEF KillBuild, CallPc, UsesCache, TypeOK
  <2>2. CallsKilled' = CallsKilled
    BY <1>1, <1>3 DEF KillBuild, CallsKilled, UsesCache
  <2>3. timer[p] = 0
    BY <1>3 DEF CallsInv, Placed
  <2>4. timer' = timer
    BY <2>3 DEF KillBuild, TypeOK
  <2> QED
    BY <1>1, <2>1, <2>2, <2>4, CallsStay DEF KillBuild, Calls!vars
<1> QED
  BY <1>2, <1>3

LEMMA BypassRefines ==
  ASSUME TypeOK, NEW p \in Process, BypassEnds(p)
  PROVE  UNCHANGED Calls!vars
<1>1. ~UsesCache(p) /\ kind' = kind
  BY DEF BypassEnds, UsesCache, unitVars
<1>2. CallPc' = CallPc /\ CallOut' = CallOut
  BY <1>1 DEF BypassEnds, Go, CallPc, CallOut, UsesCache, TypeOK
<1> QED
  BY <1>1, <1>2, CallsStay DEF BypassEnds, Calls!vars

\* No lock is held for longer than HoldMax: time stops for no build that waits
\* or compiles within its limits.
LEMMA TickRefines ==
  ASSUME LongEnough, TypeOK, UnitTypes, Within, CallsInv, PipelineTick
  PROVE  Calls!Next
<1>1. kind' = kind
  BY DEF PipelineTick
<1>2. \E p \in Process : CallPc[p] # "done"
  <2>1. PICK p \in Process : Running(p)
    BY DEF PipelineTick
  <2> QED
    BY <2>1 DEF Running, Live, CallPc
<1>3. ASSUME NEW p \in Process, Calls!Holds(p) PROVE timer[p] < HoldMax
  <2>1. Holds(p)
    BY <1>3, CallSees
  <2>2. /\ pc[p] = "compile"
        /\ \/ upc[p] = "mkdir" /\ utimer[p] <= Deadline
           \/ upc[p] = "run" /\ utimer[p] < CompileMax
    BY <2>1, HoldersSleep
  <2>3. \/ timer[p] = utimer[p] /\ utimer[p] <= Deadline
        \/ timer[p] <= Deadline + 1 + utimer[p] /\ utimer[p] < CompileMax
    BY <2>2 DEF CallsInv, Spent
  <2>4. /\ timer[p] \in Nat /\ utimer[p] \in Nat
        /\ Deadline \in Nat /\ CompileMax \in Nat /\ HoldMax \in Nat
    BY CacheAssumption, CompileMaxAssumption DEF TypeOK, UnitTypes
  <2> QED
    BY <2>3, <2>4 DEF LongEnough
<1>4. timer' = [p \in Process |->
                  IF Calls!Holds(p) \/ (Calls!Waits(p) /\ timer[p] <= Deadline)
                  THEN timer[p] + 1 ELSE timer[p]]
  <2>1. ASSUME NEW p \in Process
        PROVE  (Calls!Holds(p) <=> Holds(p)) /\ (Calls!Waits(p) <=> Waits(p))
    <3>1. CASE UsesCache(p)
      BY <3>1, CallSees
    <3>2. CASE ~UsesCache(p)
      BY <3>2, CallSees DEF CallsInv, Placed, Holds, Holding, Waits
    <3> QED
      BY <3>1, <3>2
  <2> QED
    BY <2>1 DEF PipelineTick
<1>5. lock' = [k \in Key |-> Calls!Aged(lock[k])]
  BY LocksSame DEF PipelineTick
<1>6. Calls!Tick
  BY <1>1, <1>2, <1>3, <1>4, <1>5, CallsStay DEF PipelineTick, Calls!Tick
<1> QED
  BY <1>6 DEF Calls!Next

\* The cached builds of a project, among others that bypass the cache or only
\* emit, are calls of compileCached as CompileCache has them: what it takes for
\* one step, a compile of the call's own key, is what the unit lock provides.
\* In runs in which no live build loses that lock.
THEOREM PipelineImplementsCache ==
  ASSUME LongEnough
  PROVE  PipelineSpec /\ [](robbed = {}) => ImplementsCompileCache
<1>1. ASSUME PipelineInv, CallsInv, robbed = {}, [PipelineNext]_pipelineVars
      PROVE  [Calls!Next]_(Calls!vars)
  <2>1. TypeOK /\ UnitTypes /\ Within /\ OwnBinary /\ Signed
    BY <1>1 DEF PipelineInv, Orderly, CallsInv
  <2>2. ASSUME NEW p \in Process, CacheStep(p) PROVE Calls!Next
    <3>1. UsesCache(p) /\ kind' = kind
      BY <2>2 DEF CacheStep, UsesCache, unitVars
    <3> QED
      BY <2>1, <2>2, <3>1, ReadingRefines, WaitingRefines, ProducingRefines DEF CacheStep
  <2>3. ASSUME NEW p \in Process, UnitStep(p) PROVE UNCHANGED Calls!vars
    BY <2>3, UnitStepIs, CallsStay DEF vars, Calls!vars
  <2>4. CASE UNCHANGED pipelineVars
    BY <2>4, CallsStay DEF pipelineVars, unitVars, vars, Calls!vars
  <2> QED
    BY <1>1, <2>1, <2>2, <2>3, <2>4, CompileRefines, KillRefines, BypassRefines, TickRefines
       DEF PipelineNext, BuildStep
<1>2. PipelineInv /\ CallsInv /\ [PipelineNext]_pipelineVars => CallsInv'
  BY CallsKept DEF PipelineInv
<1> QED
  BY <1>1, <1>2, CallsStart, PipelineInvHolds, PTL
     DEF PipelineSpec, ImplementsCompileCache, Calls!Spec

==============================================================================
