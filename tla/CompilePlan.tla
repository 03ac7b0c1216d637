------------------------------ MODULE CompilePlan ------------------------------
(***************************************************************************)
(* What a build does with its input, before and around the compiler:       *)
(* build.ts (checks, the key of the compile cache, the manifest),          *)
(* compile.ts (which uWebSockets tree is ensured, which compiler with      *)
(* which flags, objects and environment), standalone-build.ts and          *)
(* targets.ts.  A build here is BuildInput together with the environment   *)
(* variables, the machine and the checkout it finds; the order of locks    *)
(* and files is in BuildPipeline.                                          *)
(***************************************************************************)
EXTENDS Naturals, Sequences, FiniteSets, FiniteSetsExt

CONSTANTS
  Handler,   \* sources of a handler
  Subtle     \* those that name crypto.subtle: reachesSubtle, an external function

Unset == "unset"
Fine == "fine"

Linux == {"linux-x86_64", "linux-arm64"}
BuildTarget == Linux \cup {"host"}

\* LINUX_TARGETS; linuxTriple gives x86_64 for what is not arm64.
Arch(target) == IF target = "linux-arm64" THEN "aarch64" ELSE "x86_64"

ConfigKind == {"plain", "assets", "services", "no asset directory", "large assets"}

\* What is so for most builds.
Usual == [config |-> "plain", metadata |-> FALSE, place |-> "project", reuse |-> FALSE,
          override |-> FALSE, flto |-> Unset, fromSource |-> Unset, tools |-> {},
          seed |-> "usable", usingZig |-> FALSE, edits |-> {}]

\* Builds that are as usual but for the fields in free.  place: the project, or
\* a candidate directory of dev with its own generated path; override:
\* SPROUTBOAT_PORFFOR_DIR and the like; seed: the prebuilt uWebSockets archive;
\* edits: local modules of the checkout that were edited.
BuildRequests(free) ==
  LET Of(field, S) == IF field \in free THEN S ELSE {Usual[field]} IN
  [target : BuildTarget, transport : {"broker", "embedded"}, optimize : {"dev", "release"},
   withRestore : BOOLEAN, handler : Handler, channel : {Unset, "alpha-19", "alpha-22"},
   config : Of("config", ConfigKind), metadata : Of("metadata", BOOLEAN),
   place : Of("place", {"project", "candidate"}), reuse : Of("reuse", BOOLEAN),
   override : Of("override", BOOLEAN), flto : Of("flto", {Unset, "0", "1"}),
   fromSource : Of("fromSource", {Unset, "0", "1"}), tools : Of("tools", SUBSET {"git", "make"}),
   seed : Of("seed", {"usable", "unusable"}), usingZig : Of("usingZig", BOOLEAN),
   edits : Of("edits", SUBSET {"compile.ts", "targets.ts"})]

Embedded(b) == b.transport = "embedded"
OnHost(b) == b.target = "host"

\* The first check that fails says why.
FirstFailure(checks) ==
  LET failing == {i \in DOMAIN checks : checks[i][1]}
  IN IF failing = {} THEN Fine ELSE checks[Min(failing)][2]

-----------------------------------------------------------------------------
(* Checks and the generated module.                                        *)

PrepareError(b) == FirstFailure(<<
  <<Embedded(b) /\ b.config = "services", "unsupported binding">>,
  <<b.withRestore /\ b.reuse, "restore cannot reuse">>,
  <<b.withRestore /\ ~Embedded(b), "restore is for standalone">>,
  <<b.target = "linux-arm64" /\ ~Embedded(b), "arm64 is for standalone">>,
  <<b.config = "no asset directory", "asset directory not found">>,
  <<Embedded(b) /\ b.config = "large assets", "assets too large">> >>)

\* An embedded build has its assets in the module; with version metadata no
\* two builds have the same.
GeneratedSource(b) ==
  [handler |-> b.handler, transport |-> b.transport,
   baked |-> IF Embedded(b) THEN b.config ELSE Unset, built |-> b.metadata]

GeneratedPath(b) ==
  IF b.place = "candidate" THEN <<"dev-compile">>
  ELSE <<"porffor-units", b.target, b.transport, b.optimize, b.withRestore>>

\* emitGenerated: compileSprout refuses to emit with restore, and then writes.
EmitError(b) == FirstFailure(<<
  <<PrepareError(b) # Fine, PrepareError(b)>>,
  <<b.withRestore, "restore needs a native compile">> >>)

EmitGenerated(b) == [error |-> EmitError(b), path |-> GeneratedPath(b), source |-> GeneratedSource(b)]

-----------------------------------------------------------------------------
(* Compiler and cache key.                                                 *)

\* --with-restore stays on alpha 19, and conflicts with asking for another.
PorfforChannel(b) ==
  IF b.withRestore THEN "alpha-19" ELSE IF b.channel = Unset THEN "alpha-22" ELSE b.channel

ChannelError(b) == b.withRestore /\ b.channel = "alpha-22"

NativeStamps(b) ==
  IF Embedded(b) THEN {"sqlite", "bearssl"} ELSE IF b.handler \in Subtle THEN {"bearssl"} ELSE {}

\* Files of the checkout that are hashed; targets.ts is not one of them.
IntegrationIdentity(b) == b.edits \ {"targets.ts"}

\* Mutant: the inputs of the alpha 22 channel are forgotten.
CompileKeyNoInputs(b) ==
  [source |-> GeneratedSource(b), target |-> b.target, optimize |-> b.optimize,
   channel |-> PorfforChannel(b), channelInputs |-> Unset,
   native |-> NativeStamps(b), integration |-> IntegrationIdentity(b), restore |-> b.withRestore]

CompileKey(b) ==
  [source |-> GeneratedSource(b), target |-> b.target, optimize |-> b.optimize,
   channel |-> PorfforChannel(b),
   channelInputs |-> IF PorfforChannel(b) = "alpha-22" THEN <<b.flto>> ELSE <<>>,
   native |-> NativeStamps(b), integration |-> IntegrationIdentity(b), restore |-> b.withRestore]

UsesCompileCache(b) ==
  /\ ~b.reuse /\ ~OnHost(b) /\ b.optimize # "dev" /\ b.place = "project" /\ ~b.metadata
  /\ ~b.override /\ b.fromSource = Unset

\* With metadata the directory is named by versionId, which has no compile key.
ArtifactDirectory(b) ==
  CASE b.place = "candidate" -> <<"candidate">>
    [] b.place = "project" /\ b.metadata -> <<b.handler, b.target, b.config>>
    [] b.place = "project" /\ ~b.metadata -> <<CompileKey(b), b.config>>

-----------------------------------------------------------------------------
(* compileSprout.                                                          *)

\* The uWebSockets tree that is put in place if the archive can be used.
EnsuredTree(b) ==
  CASE OnHost(b) -> <<"host">>
    [] ~OnHost(b) /\ Embedded(b) -> <<"musl", "sa", Arch(b.target)>>
    [] ~OnHost(b) /\ ~Embedded(b) -> <<"musl">>

UwsError(b) ==
  b.seed = "unusable" /\ (b.fromSource # "1" \/ b.tools # {"git", "make"})

UwsVariant(b) ==
  IF b.seed = "usable" /\ ~OnHost(b) /\ Embedded(b) THEN Arch(b.target) ELSE Unset

\* An unusable archive leaves it to Porffor to build its own tree.
TreeInPlace(b) ==
  CASE b.seed = "usable" -> EnsuredTree(b)
    [] b.seed = "unusable" -> IF OnHost(b) THEN <<"host">> ELSE <<"musl">>

\* compileEnv's SB_UWS_VARIANT on alpha 19, uwsDir on alpha 22.
LinkedTree(b) ==
  CASE OnHost(b) -> <<"host">>
    [] ~OnHost(b) /\ PorfforChannel(b) = "alpha-22" ->
         <<"musl", "sa", IF UwsVariant(b) = Unset THEN "x86_64" ELSE UwsVariant(b)>>
    [] ~OnHost(b) /\ PorfforChannel(b) = "alpha-19" ->
         IF UwsVariant(b) = Unset THEN <<"musl">> ELSE <<"musl", "sa", UwsVariant(b)>>

\* SB_MUSL_TARGET on alpha 19, the compiler's own argument on alpha 22.
Machine(b) ==
  CASE OnHost(b) -> "host"
    [] ~OnHost(b) /\ PorfforChannel(b) = "alpha-22" -> Arch(b.target)
    [] ~OnHost(b) /\ PorfforChannel(b) = "alpha-19" ->
         IF UwsVariant(b) = Unset THEN "x86_64" ELSE Arch(b.target)

\* Mutant: dev is taken for a host build.
OptimizeLevelOfDev(b) == IF b.optimize = "dev" THEN 0 ELSE 3

OptimizeLevel(b) == IF b.optimize = "dev" /\ OnHost(b) THEN 0 ELSE 3

\* Porffor alpha 19 has LTO on for what is not musl, but not with Zig.
Flto(b) ==
  CASE PorfforChannel(b) = "alpha-19" -> OnHost(b) /\ ~b.usingZig
    [] PorfforChannel(b) = "alpha-22" /\ b.flto # Unset -> b.flto = "1"
    [] PorfforChannel(b) = "alpha-22" /\ b.flto = Unset -> OptimizeLevel(b) = 3

\* sqlite.o, the BearSSL objects (the trust anchors last) and restore's own,
\* each compiled for the target.
ExtraLink(b) ==
  (IF Embedded(b) THEN {"sqlite", "bearssl", "trust anchors"}
   ELSE IF b.handler \in Subtle THEN {"bearssl"} ELSE {})
    \cup (IF b.withRestore THEN {"restore"} ELSE {})

NativeCompile(b) ==
  [source |-> GeneratedSource(b), channel |-> PorfforChannel(b), machine |-> Machine(b),
   level |-> OptimizeLevel(b), flto |-> Flto(b), tree |-> LinkedTree(b),
   objects |-> ExtraLink(b), renamedMain |-> b.withRestore, code |-> b.edits]

\* Objects for one machine do not link into a program for another.
LinkError(b) == ExtraLink(b) # {} /\ ~OnHost(b) /\ Machine(b) # Arch(b.target)

-----------------------------------------------------------------------------
(* buildArtifact.                                                          *)

ManifestTarget(b) == IF b.target = "linux-x86_64" THEN "deployable" ELSE b.target

BuildError(b) == FirstFailure(<<
  <<PrepareError(b) # Fine, PrepareError(b)>>,
  <<ChannelError(b), "restore is not on alpha 22">>,
  <<~b.reuse /\ UwsError(b), "uWebSockets unusable">>,
  <<~b.reuse /\ LinkError(b), "compile failed">> >>)

BuildArtifact(b) ==
  [error |-> BuildError(b), path |-> GeneratedPath(b), key |-> CompileKey(b),
   directory |-> ArtifactDirectory(b),
   compiled |-> NativeCompile(b), tree |-> TreeInPlace(b),
   manifest |-> [target |-> ManifestTarget(b), porffor |-> PorfforChannel(b)]]

-----------------------------------------------------------------------------
(* What is asked of it.                                                    *)

\* Every input; every trouble about uWebSockets; every checkout.
PlanQuestions ==
  BuildRequests({"config", "metadata", "place", "reuse", "override"})
    \cup BuildRequests({"fromSource", "tools", "seed", "usingZig"})
    \cup BuildRequests({"config", "flto", "edits", "usingZig"})

PlanAnswer(b) == [built |-> BuildArtifact(b), emitted |-> EmitGenerated(b)]

\* What the builds that share the compile cache compile, by their keys.
CachedCompiles ==
  {<<CompileKey(b), [NativeCompile(b) EXCEPT !.code = @ \ {"targets.ts"}]>> :
     b \in {b \in PlanQuestions : UsesCompileCache(b) /\ BuildError(b) = Fine}}

\* A binary taken from the cache is the one this build would have compiled.
CachedRight(b, a, cached) ==
  UsesCompileCache(b) /\ a.built.error = Fine =>
    \A c \in cached :
      c[1] = a.built.key => c[2] = [a.built.compiled EXCEPT !.code = @ \ {"targets.ts"}]

\* What is called deployable is a full x86_64 build of the compiler it names;
\* restore never meets alpha 22, nor a broker; what is emitted is what would be
\* compiled, at the same place, and emitting fails where building would.
BuiltRight(b, a) ==
  /\ a.built.error = Fine /\ ~b.reuse =>
       /\ a.built.manifest.target = "deployable" =>
            a.built.compiled.machine = "x86_64" /\ a.built.compiled.level = 3
       /\ a.built.manifest.target = "linux-arm64" => a.built.compiled.machine = "aarch64"
       /\ a.built.manifest.target = "host" <=> a.built.compiled.machine = "host"
       /\ a.built.manifest.porffor = a.built.compiled.channel
       /\ "restore" \in a.built.compiled.objects =>
            a.built.compiled.channel = "alpha-19" /\ "sqlite" \in a.built.compiled.objects
  /\ a.emitted.error = Fine /\ a.built.error = Fine =>
       a.emitted.source = a.built.compiled.source /\ a.emitted.path = a.built.path
  /\ PrepareError(b) # Fine => a.emitted.error # Fine /\ a.built.error # Fine

\* The tree that is linked is the one this build has put in place; but on alpha
\* 22 a Linux build that is given no variant takes the one of standalone
\* binaries, which this build has not put there.
LinksItsTree(b, a) ==
  a.built.error = Fine /\ ~b.reuse =>
    \/ a.built.compiled.tree = a.built.tree
    \/ ~OnHost(b) /\ PorfforChannel(b) = "alpha-22" /\ UwsVariant(b) = Unset

=============================================================================
