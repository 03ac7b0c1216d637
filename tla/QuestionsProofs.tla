---------------------------- MODULE QuestionsProofs ----------------------------
(***************************************************************************)
(* What is so of every answer of Questions.                                *)
(***************************************************************************)
EXTENDS Questions, Integers, Sequences, TLAPS

(***************************************************************************)
(* CompilePlan, for any handlers, any of which may reach crypto.subtle, and*)
(* every combination of inputs, environment and checkout: a build is fine  *)
(* if and only if none of its checks fails, and what that leaves open      *)
(* decides target, machine and objects.                                    *)
(***************************************************************************)
\* Every build there is: PlanQuestions are those that TLC is asked.
Build ==
  Plans!BuildRequests({"config", "metadata", "place", "reuse", "override", "flto", "fromSource",
                 "tools", "seed", "usingZig", "edits"})

\* CachedCompiles is the part of these that TLC sees.
EveryCompile ==
  {<<Plans!CompileKey(b), [Plans!NativeCompile(b) EXCEPT !.code = @ \ {"targets.ts"}]>> :
     b \in {b \in Build : Plans!UsesCompileCache(b) /\ Plans!BuildError(b) = Plans!Fine}}

LEMMA LeastIsIn ==
  ASSUME NEW S \in SUBSET (1..6), S # {}
  PROVE  Plans!Min(S) \in S
<1>1. \E x \in S : \A y \in S : x <= y
  <2>1. CASE 1 \in S
    BY <2>1
  <2>2. CASE 1 \notin S /\ 2 \in S
    BY <2>2
  <2>3. CASE 1 \notin S /\ 2 \notin S /\ 3 \in S
    BY <2>3
  <2>4. CASE 1 \notin S /\ 2 \notin S /\ 3 \notin S /\ 4 \in S
    BY <2>4
  <2>5. CASE 1 \notin S /\ 2 \notin S /\ 3 \notin S /\ 4 \notin S /\ 5 \in S
    BY <2>5
  <2>6. CASE 1 \notin S /\ 2 \notin S /\ 3 \notin S /\ 4 \notin S /\ 5 \notin S
    <3>1. PICK x \in S : TRUE
      OBVIOUS
    <3>2. \A y \in S : y = 6
      BY <2>6
    <3> QED
      BY <3>1, <3>2
  <2> QED
    BY <2>1, <2>2, <2>3, <2>4, <2>5, <2>6
<1> QED
  BY <1>1 DEF Plans!Min

\* It is fine if and only if no check fails.
LEMMA FailureFound ==
  ASSUME NEW n \in 0..6, NEW checks, DOMAIN checks = 1..n,
         \A i \in 1..n : checks[i][1] \in BOOLEAN /\ (checks[i][1] => checks[i][2] # Plans!Fine)
  PROVE  Plans!FirstFailure(checks) = Plans!Fine <=> \A i \in 1..n : ~checks[i][1]
<1> DEFINE failing == {i \in DOMAIN checks : checks[i][1]}
<1>1. CASE failing = {}
  BY <1>1 DEF Plans!FirstFailure
<1>2. CASE failing # {}
  <2>1. Plans!Min(failing) \in failing
    <3>1. failing \in SUBSET (1..6)
      OBVIOUS
    <3> HIDE DEF failing
    <3> QED
      BY <1>2, <3>1, LeastIsIn
  <2>2. checks[Plans!Min(failing)][2] # Plans!Fine
    BY <2>1
  <2> QED
    BY <1>2, <2>1, <2>2 DEF Plans!FirstFailure
<1> QED
  BY <1>1, <1>2

LEMMA PreparedIf ==
  ASSUME NEW b \in Build
  PROVE  Plans!PrepareError(b) = Plans!Fine <=>
           /\ ~(Plans!Embedded(b) /\ b.config = "services")
           /\ ~(b.withRestore /\ b.reuse)
           /\ ~(b.withRestore /\ ~Plans!Embedded(b))
           /\ ~(b.target = "linux-arm64" /\ ~Plans!Embedded(b))
           /\ b.config # "no asset directory"
           /\ ~(Plans!Embedded(b) /\ b.config = "large assets")
<1> DEFINE checks == <<
  <<Plans!Embedded(b) /\ b.config = "services", "unsupported binding">>,
  <<b.withRestore /\ b.reuse, "restore cannot reuse">>,
  <<b.withRestore /\ ~Plans!Embedded(b), "restore is for standalone">>,
  <<b.target = "linux-arm64" /\ ~Plans!Embedded(b), "arm64 is for standalone">>,
  <<b.config = "no asset directory", "asset directory not found">>,
  <<Plans!Embedded(b) /\ b.config = "large assets", "assets too large">> >>
<1>1. b.withRestore \in BOOLEAN /\ b.reuse \in BOOLEAN
  BY DEF Build, Plans!BuildRequests
<1>2. DOMAIN checks = 1..6 /\ \A i \in 1..6 : checks[i][1] \in BOOLEAN /\ checks[i][2] # Plans!Fine
  BY <1>1 DEF Plans!Fine, Plans!Embedded
<1>3. /\ checks[1][1] <=> Plans!Embedded(b) /\ b.config = "services"
      /\ checks[2][1] <=> b.withRestore /\ b.reuse
      /\ checks[3][1] <=> b.withRestore /\ ~Plans!Embedded(b)
      /\ checks[4][1] <=> b.target = "linux-arm64" /\ ~Plans!Embedded(b)
      /\ checks[5][1] <=> b.config = "no asset directory"
      /\ checks[6][1] <=> Plans!Embedded(b) /\ b.config = "large assets"
  BY <1>1
<1>4. Plans!PrepareError(b) = Plans!FirstFailure(checks)
  BY DEF Plans!PrepareError
<1> HIDE DEF checks
<1>5. Plans!FirstFailure(checks) = Plans!Fine <=> \A i \in 1..6 : ~checks[i][1]
  BY <1>2, FailureFound
<1>6. 1..6 = {1, 2, 3, 4, 5, 6}
  OBVIOUS
<1> QED
  BY <1>3, <1>4, <1>5, <1>6

LEMMA BuiltIf ==
  ASSUME NEW b \in Build
  PROVE  Plans!BuildError(b) = Plans!Fine <=>
           /\ Plans!PrepareError(b) = Plans!Fine /\ ~Plans!ChannelError(b)
           /\ ~(~b.reuse /\ Plans!UwsError(b)) /\ ~(~b.reuse /\ Plans!LinkError(b))
<1> DEFINE checks == <<
  <<Plans!PrepareError(b) # Plans!Fine, Plans!PrepareError(b)>>,
  <<Plans!ChannelError(b), "restore is not on alpha 22">>,
  <<~b.reuse /\ Plans!UwsError(b), "uWebSockets unusable">>,
  <<~b.reuse /\ Plans!LinkError(b), "compile failed">> >>
<1>1. Plans!ChannelError(b) \in BOOLEAN /\ Plans!UwsError(b) \in BOOLEAN /\ Plans!LinkError(b) \in BOOLEAN
  BY DEF Build, Plans!BuildRequests, Plans!ChannelError, Plans!UwsError, Plans!LinkError
<1>2. DOMAIN checks = 1..4 /\ Plans!BuildError(b) = Plans!FirstFailure(checks)
  BY DEF Plans!BuildError
<1>3. /\ checks[1][1] = (Plans!PrepareError(b) # Plans!Fine) /\ checks[1][2] = Plans!PrepareError(b)
      /\ checks[2][1] = Plans!ChannelError(b) /\ checks[2][2] # Plans!Fine
      /\ checks[3][1] = (~b.reuse /\ Plans!UwsError(b)) /\ checks[3][2] # Plans!Fine
      /\ checks[4][1] = (~b.reuse /\ Plans!LinkError(b)) /\ checks[4][2] # Plans!Fine
  BY DEF Plans!Fine
<1> HIDE DEF checks
<1>4. 1..4 = {1, 2, 3, 4}
  OBVIOUS
<1>5. \A i \in 1..4 : checks[i][1] \in BOOLEAN /\ (checks[i][1] => checks[i][2] # Plans!Fine)
  BY <1>1, <1>3, <1>4
<1>6. Plans!BuildError(b) = Plans!Fine <=> \A i \in 1..4 : ~checks[i][1]
  BY <1>2, <1>5, FailureFound
<1> QED
  BY <1>3, <1>4, <1>6

LEMMA EmittedIf ==
  ASSUME NEW b \in Build
  PROVE  Plans!EmitError(b) = Plans!Fine <=> Plans!PrepareError(b) = Plans!Fine /\ ~b.withRestore
<1> DEFINE checks == <<
  <<Plans!PrepareError(b) # Plans!Fine, Plans!PrepareError(b)>>,
  <<b.withRestore, "restore needs a native compile">> >>
<1>1. b.withRestore \in BOOLEAN
  BY DEF Build, Plans!BuildRequests
<1>2. DOMAIN checks = 1..2 /\ Plans!EmitError(b) = Plans!FirstFailure(checks)
  BY DEF Plans!EmitError
<1>3. /\ checks[1][1] = (Plans!PrepareError(b) # Plans!Fine) /\ checks[1][2] = Plans!PrepareError(b)
      /\ checks[2][1] = b.withRestore /\ checks[2][2] # Plans!Fine
  BY DEF Plans!Fine
<1> HIDE DEF checks
<1>4. 1..2 = {1, 2}
  OBVIOUS
<1>5. \A i \in 1..2 : checks[i][1] \in BOOLEAN /\ (checks[i][1] => checks[i][2] # Plans!Fine)
  BY <1>1, <1>3, <1>4
<1>6. Plans!EmitError(b) = Plans!Fine <=> \A i \in 1..2 : ~checks[i][1]
  BY <1>2, <1>5, FailureFound
<1> QED
  BY <1>3, <1>4, <1>6

LEMMA TwoChannels ==
  ASSUME NEW b \in Build
  PROVE  Plans!PorfforChannel(b) \in {"alpha-19", "alpha-22"}
  BY DEF Build, Plans!BuildRequests, Plans!PorfforChannel

\* What the key of a cached build that does not fail leaves open.
LEMMA CachedBuilds ==
  ASSUME NEW b \in Build, Plans!UsesCompileCache(b), Plans!BuildError(b) = Plans!Fine
  PROVE  /\ b.target \in Plans!Linux /\ ~Plans!OnHost(b) /\ b.seed = "usable" /\ b.optimize = "release"
         /\ ~b.reuse
  BY BuiltIf DEF Build, Plans!BuildRequests, Plans!UsesCompileCache, Plans!OnHost, Plans!UwsError, Plans!BuildTarget, Plans!Linux,
     Plans!Unset

\* For any handlers: two builds with one key compile the same.
LEMMA OneKeyOneBinary ==
  ASSUME NEW b \in Build, Plans!UsesCompileCache(b), Plans!BuildError(b) = Plans!Fine,
         NEW c \in Build, Plans!UsesCompileCache(c), Plans!BuildError(c) = Plans!Fine,
         Plans!CompileKey(b) = Plans!CompileKey(c)
  PROVE  [Plans!NativeCompile(b) EXCEPT !.code = @ \ {"targets.ts"}]
           = [Plans!NativeCompile(c) EXCEPT !.code = @ \ {"targets.ts"}]
<1>1. /\ Plans!GeneratedSource(b) = Plans!GeneratedSource(c) /\ b.target = c.target
      /\ b.optimize = c.optimize /\ Plans!PorfforChannel(b) = Plans!PorfforChannel(c)
      /\ Plans!IntegrationIdentity(b) = Plans!IntegrationIdentity(c) /\ b.withRestore = c.withRestore
      /\ Plans!PorfforChannel(b) = "alpha-22" => <<b.flto>> = <<c.flto>>
  BY DEF Plans!CompileKey
<1>2. b.handler = c.handler /\ b.transport = c.transport
  BY <1>1 DEF Plans!GeneratedSource
<1>3. b.seed = c.seed /\ ~Plans!OnHost(b) /\ ~Plans!OnHost(c)
  BY CachedBuilds
<1>4. Plans!Machine(b) = Plans!Machine(c) /\ Plans!LinkedTree(b) = Plans!LinkedTree(c)
  BY <1>1, <1>2, <1>3 DEF Plans!Machine, Plans!LinkedTree, Plans!UwsVariant, Plans!OnHost, Plans!Embedded
<1>5. Plans!OptimizeLevel(b) = Plans!OptimizeLevel(c)
  BY <1>1, <1>3 DEF Plans!OptimizeLevel
<1>6. Plans!PorfforChannel(b) = "alpha-22" => b.flto = c.flto
  BY <1>1
<1>7. Plans!Flto(b) = Plans!Flto(c)
  <2>1. CASE Plans!PorfforChannel(b) = "alpha-19"
    BY <1>1, <1>3, <2>1 DEF Plans!Flto
  <2>2. CASE Plans!PorfforChannel(b) = "alpha-22"
    BY <1>1, <1>5, <1>6, <2>2 DEF Plans!Flto
  <2> QED
    BY <2>1, <2>2, TwoChannels
<1>8. Plans!ExtraLink(b) = Plans!ExtraLink(c)
  BY <1>1, <1>2 DEF Plans!ExtraLink, Plans!Embedded
<1>9. b.edits \ {"targets.ts"} = c.edits \ {"targets.ts"}
  BY <1>1 DEF Plans!IntegrationIdentity
<1> QED
  BY <1>1, <1>4, <1>5, <1>7, <1>8, <1>9 DEF Plans!NativeCompile

LEMMA AskedBuilds == Plans!PlanQuestions \subseteq Build
<1>1. ASSUME NEW free, NEW b \in Plans!BuildRequests(free) PROVE b \in Build
  <2>1. /\ Plans!Usual["config"] \in Plans!ConfigKind /\ Plans!Usual["metadata"] \in BOOLEAN
        /\ Plans!Usual["place"] \in {"project", "candidate"} /\ Plans!Usual["reuse"] \in BOOLEAN
        /\ Plans!Usual["override"] \in BOOLEAN /\ Plans!Usual["flto"] \in {Plans!Unset, "0", "1"}
        /\ Plans!Usual["fromSource"] \in {Plans!Unset, "0", "1"}
        /\ Plans!Usual["tools"] \in SUBSET {"git", "make"}
        /\ Plans!Usual["seed"] \in {"usable", "unusable"} /\ Plans!Usual["usingZig"] \in BOOLEAN
        /\ Plans!Usual["edits"] \in SUBSET {"compile.ts", "targets.ts"}
    BY DEF Plans!Usual, Plans!ConfigKind
  <2>2. /\ b.config \in Plans!ConfigKind /\ b.metadata \in BOOLEAN
        /\ b.place \in {"project", "candidate"} /\ b.reuse \in BOOLEAN
        /\ b.override \in BOOLEAN /\ b.flto \in {Plans!Unset, "0", "1"}
    BY <2>1 DEF Plans!BuildRequests
  <2>3. /\ b.fromSource \in {Plans!Unset, "0", "1"} /\ b.tools \in SUBSET {"git", "make"}
        /\ b.seed \in {"usable", "unusable"} /\ b.usingZig \in BOOLEAN
        /\ b.edits \in SUBSET {"compile.ts", "targets.ts"}
    BY <2>1 DEF Plans!BuildRequests
  <2> QED
    BY <2>2, <2>3 DEF Build, Plans!BuildRequests
<1> QED
  BY <1>1 DEF Plans!PlanQuestions

\* For any handlers, whichever of them reach crypto.subtle, and whatever else is
\* asked: a binary that any such build has put into the compile cache is what the
\* build that takes it would have compiled; but for the contents of targets.ts, no
\* input of a compile is missing from the key (build.ts, compileKey).
THEOREM KeyDetermines ==
  /\ \A b \in Build : Plans!CachedRight(b, Plans!PlanAnswer(b), EveryCompile)
  /\ Plans!CachedCompiles \subseteq EveryCompile
<1>1. ASSUME NEW b \in Build PROVE Plans!CachedRight(b, Plans!PlanAnswer(b), EveryCompile)
  <2> SUFFICES ASSUME Plans!UsesCompileCache(b), Plans!BuildError(b) = Plans!Fine,
                      NEW k \in EveryCompile, k[1] = Plans!CompileKey(b)
               PROVE  k[2] = [Plans!NativeCompile(b) EXCEPT !.code = @ \ {"targets.ts"}]
    BY DEF Plans!CachedRight, Plans!PlanAnswer, Plans!BuildArtifact
  <2>1. PICK c \in Build :
          /\ Plans!UsesCompileCache(c) /\ Plans!BuildError(c) = Plans!Fine
          /\ k = <<Plans!CompileKey(c), [Plans!NativeCompile(c) EXCEPT !.code = @ \ {"targets.ts"}]>>
    BY DEF EveryCompile
  <2> QED
    BY <2>1, OneKeyOneBinary
<1>2. Plans!CachedCompiles \subseteq EveryCompile
  BY AskedBuilds DEF Plans!CachedCompiles, EveryCompile
<1> QED
  BY <1>1, <1>2

\* What a build that does not fail has compiled, and for what.
LEMMA MachineFits ==
  ASSUME NEW b \in Build, Plans!BuildError(b) = Plans!Fine, ~b.reuse
  PROVE  /\ b.target = "linux-x86_64" => Plans!Machine(b) = "x86_64"
         /\ b.target = "linux-arm64" => Plans!Machine(b) = "aarch64"
         /\ b.target = "host" <=> Plans!Machine(b) = "host"
<1>1. /\ b.target \in {"linux-x86_64", "linux-arm64", "host"}
      /\ Plans!PorfforChannel(b) \in {"alpha-19", "alpha-22"}
  BY TwoChannels DEF Build, Plans!BuildRequests, Plans!BuildTarget, Plans!Linux
<1>2. ~Plans!LinkError(b) /\ Plans!PrepareError(b) = Plans!Fine
  BY BuiltIf
<1>3. b.target = "linux-arm64" => Plans!ExtraLink(b) # {}
  BY <1>2, PreparedIf DEF Plans!ExtraLink
<1>4. Plans!UwsVariant(b) \in {Plans!Unset, Plans!Arch(b.target)}
  BY DEF Plans!UwsVariant
<1>5. b.target = "linux-arm64" => Plans!Machine(b) = "aarch64"
  BY <1>2, <1>3 DEF Plans!LinkError, Plans!OnHost, Plans!Arch
<1>6. b.target = "linux-x86_64" => Plans!Machine(b) = "x86_64"
  BY <1>1 DEF Plans!Machine, Plans!OnHost, Plans!Arch
<1>7. b.target = "host" => Plans!Machine(b) = "host"
  BY DEF Plans!Machine, Plans!OnHost
<1> QED
  BY <1>1, <1>5, <1>6, <1>7

\* For any handlers: what the manifest says of a binary is what was compiled, what
\* is emitted is what would be compiled, and what is linked was put in place, but
\* for the exception that LinksItsTree names (build.ts, compile.ts).
THEOREM ManifestsAreTrue ==
  \A b \in Build : Plans!BuiltRight(b, Plans!PlanAnswer(b)) /\ Plans!LinksItsTree(b, Plans!PlanAnswer(b))
<1> SUFFICES ASSUME NEW b \in Build
             PROVE  Plans!BuiltRight(b, Plans!PlanAnswer(b)) /\ Plans!LinksItsTree(b, Plans!PlanAnswer(b))
  OBVIOUS
<1> DEFINE a == Plans!PlanAnswer(b)
<1>1. /\ a.built.error = Plans!BuildError(b) /\ a.built.manifest.target = Plans!ManifestTarget(b)
      /\ a.built.manifest.porffor = Plans!PorfforChannel(b) /\ a.built.path = Plans!GeneratedPath(b)
      /\ a.built.tree = Plans!TreeInPlace(b)
      /\ a.emitted.error = Plans!EmitError(b) /\ a.emitted.source = Plans!GeneratedSource(b)
      /\ a.emitted.path = Plans!GeneratedPath(b)
  BY DEF Plans!PlanAnswer, Plans!BuildArtifact, Plans!EmitGenerated
<1>2. /\ a.built.compiled.machine = Plans!Machine(b) /\ a.built.compiled.level = Plans!OptimizeLevel(b)
      /\ a.built.compiled.channel = Plans!PorfforChannel(b) /\ a.built.compiled.objects = Plans!ExtraLink(b)
      /\ a.built.compiled.source = Plans!GeneratedSource(b) /\ a.built.compiled.tree = Plans!LinkedTree(b)
  BY DEF Plans!PlanAnswer, Plans!BuildArtifact, Plans!NativeCompile
<1> HIDE DEF a
<1>3. b.target \in {"linux-x86_64", "linux-arm64", "host"}
  BY DEF Build, Plans!BuildRequests, Plans!BuildTarget, Plans!Linux
<1>4. Plans!PrepareError(b) # Plans!Fine => Plans!EmitError(b) # Plans!Fine /\ Plans!BuildError(b) # Plans!Fine
  BY BuiltIf, EmittedIf
<1>5. ASSUME Plans!BuildError(b) = Plans!Fine, ~b.reuse
      PROVE  /\ Plans!ManifestTarget(b) = "deployable" =>
                  Plans!Machine(b) = "x86_64" /\ Plans!OptimizeLevel(b) = 3
             /\ Plans!ManifestTarget(b) = "linux-arm64" => Plans!Machine(b) = "aarch64"
             /\ Plans!ManifestTarget(b) = "host" <=> Plans!Machine(b) = "host"
  BY <1>3, <1>5, MachineFits DEF Plans!ManifestTarget, Plans!OptimizeLevel, Plans!OnHost
<1>6. ASSUME Plans!BuildError(b) = Plans!Fine, "restore" \in Plans!ExtraLink(b)
      PROVE  Plans!PorfforChannel(b) = "alpha-19" /\ "sqlite" \in Plans!ExtraLink(b)
  <2>1. b.withRestore /\ Plans!Embedded(b)
    BY <1>6, BuiltIf, PreparedIf DEF Plans!ExtraLink
  <2> QED
    BY <2>1 DEF Plans!PorfforChannel, Plans!ExtraLink
<1>7. Plans!BuiltRight(b, a)
  BY <1>1, <1>2, <1>4, <1>5, <1>6 DEF Plans!BuiltRight
<1>8. ASSUME Plans!BuildError(b) = Plans!Fine, ~b.reuse,
             ~(~Plans!OnHost(b) /\ Plans!PorfforChannel(b) = "alpha-22" /\ Plans!UwsVariant(b) = Plans!Unset)
      PROVE  Plans!LinkedTree(b) = Plans!TreeInPlace(b)
  <2>1. Plans!PorfforChannel(b) \in {"alpha-19", "alpha-22"} /\ b.seed \in {"usable", "unusable"}
    BY TwoChannels DEF Build, Plans!BuildRequests
  <2>2. CASE Plans!OnHost(b)
    BY <2>1, <2>2 DEF Plans!LinkedTree, Plans!TreeInPlace, Plans!EnsuredTree
  <2>3. CASE ~Plans!OnHost(b) /\ Plans!UwsVariant(b) = Plans!Unset
    <3>1. Plans!PorfforChannel(b) = "alpha-19" /\ Plans!LinkedTree(b) = <<"musl">>
      BY <1>8, <2>1, <2>3 DEF Plans!LinkedTree
    <3>2. ~(b.seed = "usable" /\ Plans!Embedded(b))
      BY <2>3 DEF Plans!UwsVariant, Plans!Arch, Plans!Unset
    <3> QED
      BY <2>1, <2>3, <3>1, <3>2 DEF Plans!TreeInPlace, Plans!EnsuredTree
  <2>4. CASE ~Plans!OnHost(b) /\ Plans!UwsVariant(b) # Plans!Unset
    <3>1. b.seed = "usable" /\ Plans!Embedded(b) /\ Plans!UwsVariant(b) = Plans!Arch(b.target)
      BY <2>4 DEF Plans!UwsVariant
    <3> QED
      BY <2>1, <2>4, <3>1 DEF Plans!TreeInPlace, Plans!EnsuredTree, Plans!LinkedTree
  <2> QED
    BY <2>2, <2>3, <2>4
<1>9. Plans!LinksItsTree(b, a)
  BY <1>1, <1>2, <1>8 DEF Plans!LinksItsTree
<1> QED
  BY <1>7, <1>9 DEF a

(***************************************************************************)
(* RestoreBuild, for any names that the compiled program defines.          *)
(***************************************************************************)
\* Nothing that was renamed has the name of anything of an application's.
LEMMA ObjectsAreRight ==
  ASSUME NEW q \in Restores!ObjectQuestions
  PROVE  Restores!ObjectRight(q, Restores!ObjectAnswer(q))
<1> DEFINE a == Restores!ObjectAnswer(q)
           defines == Restores!RestoreSymbolDefines(q.object)
           names == Restores!Inventory(q.object) \cap (Restores!Identifiers \ {Restores!Dispatch})
<1> SUFFICES ASSUME a.ok PROVE Restores!ObjectRight(q, a)
  BY DEF Restores!ObjectRight
<1>1. /\ q.failing = {} /\ q.nm /\ defines # <<>>
      /\ \A symbol \in Restores!Compiled(q.object, defines[1]) : Restores!Namespaced(symbol)
      /\ a.external = Restores!Compiled(q.object, defines[1])
      /\ a.imports = {<<IF s \in defines[1] THEN "sb_ltx_trusted" ELSE "", s>> :
                        s \in {t \in Restores!Symbols : q.object[t] = "undefined"}}
  BY DEF Restores!ObjectAnswer, Restores!BuildNativeRestore, Restores!Thrown
<1>2. defines[1] = names
  BY <1>1 DEF Restores!RestoreSymbolDefines
<1>3. q.object[Restores!Dispatch] = "defined" /\ Restores!Dispatch \in Restores!Symbols
  BY DEF Restores!ObjectQuestions, Restores!Objects, Restores!Symbols, Restores!Identifiers
<1>4. \A symbol \in a.external : Restores!Namespaced(symbol)
  BY <1>1
<1>5. a.external \cap (Restores!Startup \cup Restores!Application) = {}
  <2> SUFFICES ASSUME NEW symbol \in a.external,
                      symbol \in Restores!Startup \cup Restores!Application
               PROVE  FALSE
    OBVIOUS
  <2>1. PICK s : symbol = <<"", s>> /\ s # Restores!Dispatch
    <3>1. CASE symbol = <<"", "main">>
      <4>1. "main" # Restores!Dispatch
        BY DEF Restores!Dispatch
      <4> QED
        BY <3>1, <4>1
    <3>2. CASE symbol = <<"", "sb_app_main">>
      <4>1. "sb_app_main" # Restores!Dispatch
        BY DEF Restores!Dispatch
      <4> QED
        BY <3>2, <4>1
    <3>3. CASE symbol \in {<<"", s>> : s \in Restores!Symbols \ {Restores!Dispatch}}
      BY <3>3
    <3> QED
      BY <3>1, <3>2, <3>3 DEF Restores!Startup, Restores!Application
  <2>2. symbol[1] = "" /\ symbol[2] = s
    BY <2>1
  <2>3. Restores!Namespaced(symbol)
    BY <1>4
  <2> QED
    BY <2>1, <2>2, <2>3 DEF Restores!Namespaced
<1> HIDE DEF a, defines
<1>6. <<"", Restores!Dispatch>> \in a.external
  <2>1. Restores!Dispatch \in Restores!Inventory(q.object) /\ Restores!Dispatch \notin defines[1]
    BY <1>2, <1>3 DEF Restores!Inventory
  <2> QED
    BY <1>1, <2>1 DEF Restores!Compiled
<1>7. \A symbol \in a.imports : symbol[1] = ""
  <2>1. \A s \in defines[1] : q.object[s] = "defined"
    BY <1>2 DEF Restores!Inventory
  <2> SUFFICES ASSUME NEW symbol \in a.imports PROVE symbol[1] = ""
    OBVIOUS
  <2>2. PICK s \in Restores!Symbols :
          /\ q.object[s] = "undefined"
          /\ symbol = <<IF s \in defines[1] THEN "sb_ltx_trusted" ELSE "", s>>
    BY <1>1
  <2>3. s \notin defines[1]
    BY <2>1, <2>2
  <2> QED
    BY <2>2, <2>3
<1>8. {s \in Restores!Symbols : q.object[s] = "defined"} = {symbol[2] : symbol \in a.external}
  <2>1. a.external = {<<IF s \in defines[1] THEN "sb_ltx_trusted" ELSE "", s>> :
                        s \in Restores!Inventory(q.object)}
    BY <1>1 DEF Restores!Compiled
  <2>2. ASSUME NEW s, s \in Restores!Inventory(q.object)
        PROVE  \E symbol \in a.external : s = symbol[2]
    <3>1. <<IF s \in defines[1] THEN "sb_ltx_trusted" ELSE "", s>> \in a.external
      BY <2>1, <2>2
    <3>2. s = <<IF s \in defines[1] THEN "sb_ltx_trusted" ELSE "", s>>[2]
      OBVIOUS
    <3> QED
      BY <3>1, <3>2
  <2>3. ASSUME NEW symbol \in a.external PROVE symbol[2] \in Restores!Inventory(q.object)
    <3>1. PICK s \in Restores!Inventory(q.object) :
            symbol = <<IF s \in defines[1] THEN "sb_ltx_trusted" ELSE "", s>>
      BY <2>1
    <3>2. symbol[2] = s
      BY <3>1
    <3> QED
      BY <3>2
  <2> QED
    BY <2>2, <2>3 DEF Restores!Inventory
<1> QED
  BY <1>1, <1>5, <1>6, <1>7, <1>8 DEF Restores!ObjectRight, a

(***************************************************************************)
(* HostTools.                                                              *)
(***************************************************************************)
\* What is known of any machine.
LEMMA MachineTypes ==
  ASSUME NEW env \in Hosts!HostQuestions
  PROVE  /\ env.zig \in Hosts!Variable /\ env.cc \in Hosts!Variable /\ env.ar \in Hosts!Variable
         /\ env.supported \in BOOLEAN /\ env.onPath \subseteq {"cc", "ar"}
         /\ env.zigDir \in Hosts!DirState /\ env.sources \in Hosts!DirState
         /\ env.cache \in {"home", "elsewhere"}
  BY DEF Hosts!HostQuestions, Hosts!Environments

\* The doctor and a build, side by side, in the three cases of SPROUTBOAT_ZIG.
LEMMA ZigOverridden ==
  ASSUME NEW env \in Hosts!HostQuestions, Hosts!Truthy(env.zig)
  PROVE  /\ Hosts!ZigPath(env) = <<"override", env.zig>>
         /\ Hosts!ZigPath(env) # <<Hosts!Missing>>
         /\ Hosts!ZigPresent(env) <=> env.zig = "good"
         /\ ~Hosts!EnsureZig(env).acquired
         /\ env.zig = "good" => Hosts!EnsureZig(env).path = <<"override", env.zig>>
         /\ env.zig # "good" => Hosts!EnsureZig(env).path = <<Hosts!Missing>>
<1>1. env.zig \in {"good", "bad"}
  BY DEF Hosts!Truthy
<1>2. <<"override", env.zig>>[1] # <<Hosts!Missing>>[1]
  BY DEF Hosts!Missing
<1> QED
  BY <1>1, <1>2 DEF Hosts!ZigPath, Hosts!ZigPresent, Hosts!EnsureZig

LEMMA ZigInCache ==
  ASSUME NEW env \in Hosts!HostQuestions, ~Hosts!Truthy(env.zig), env.supported
  PROVE  /\ Hosts!ZigPath(env) = Hosts!ZigDir(env)
         /\ Hosts!ZigPath(env) # <<Hosts!Missing>>
         /\ Hosts!ZigPresent(env) <=> env.zigDir # "absent"
         /\ Hosts!EnsureZig(env).path = Hosts!ZigDir(env)
         /\ Hosts!EnsureZig(env).acquired <=> env.zigDir # "whole"
<1>1. env.zig # "good" /\ env.zig # "bad"
  BY DEF Hosts!Truthy
<1>2. Hosts!ZigDir(env)[1] # <<Hosts!Missing>>[1]
  BY MachineTypes DEF Hosts!ZigDir, Hosts!Missing
<1> QED
  BY <1>1, <1>2 DEF Hosts!ZigPath, Hosts!ZigPresent, Hosts!EnsureZig

LEMMA NoZig ==
  ASSUME NEW env \in Hosts!HostQuestions, ~Hosts!Truthy(env.zig), ~env.supported
  PROVE  /\ Hosts!ZigPath(env) = <<Hosts!Missing>> /\ ~Hosts!ZigPresent(env)
         /\ Hosts!EnsureZig(env).path = <<Hosts!Missing>>
<1>1. env.zig # "good" /\ env.zig # "bad"
  BY DEF Hosts!Truthy
<1> QED
  BY <1>1 DEF Hosts!ZigPath, Hosts!ZigPresent, Hosts!EnsureZig

\* A program that a build may have of the machine, and by what name.
Has(variable, name, env) == Hosts!Truthy(variable) \/ name \in env.onPath
Named(variable, name) == IF Hosts!Truthy(variable) THEN variable ELSE name

\* With a variable that is not set and empty: the doctor shows the program if
\* and only if a build has it and it is there, and by the name a build uses.
LEMMA ShownIfThere ==
  ASSUME NEW env \in Hosts!HostQuestions, NEW x \in Hosts!Variable, x # "",
         NEW name \in {"cc", "ar"}
  PROVE  /\ Hosts!Which(x, name, env) # Hosts!Missing <=> Has(x, name, env) /\ Named(x, name) # "bad"
         /\ Hosts!Which(x, name, env) # Hosts!Missing => Hosts!Which(x, name, env) = Named(x, name)
<1>1. CASE x = "unset"
  BY <1>1 DEF Hosts!Which, Hosts!Truthy, Hosts!Missing, Has, Named
<1>2. CASE x = "good"
  BY <1>2 DEF Hosts!Which, Hosts!Truthy, Hosts!Missing, Has, Named
<1>3. CASE x = "bad"
  BY <1>3 DEF Hosts!Which, Hosts!Truthy, Hosts!Missing, Has, Named
<1> QED
  BY <1>1, <1>2, <1>3 DEF Hosts!Variable

\* The machine's own compiler and archiver are used if it has both.
LEMMA BothOrZig ==
  ASSUME NEW env \in Hosts!HostQuestions
  PROVE  /\ Has(env.cc, "cc", env) /\ Has(env.ar, "ar", env) =>
              /\ ~Hosts!HostCompiler(env).usingZig
              /\ Hosts!HostCompiler(env).cc = Named(env.cc, "cc")
              /\ Hosts!HostCompiler(env).ar = Named(env.ar, "ar")
         /\ ~(Has(env.cc, "cc", env) /\ Has(env.ar, "ar", env)) => Hosts!HostCompiler(env).usingZig
<1>1. CASE Has(env.cc, "cc", env) /\ Has(env.ar, "ar", env)
  <2>1. Hosts!HostCompiler(env) =
          [usingZig |-> FALSE, cc |-> Named(env.cc, "cc"), ar |-> Named(env.ar, "ar")]
    BY <1>1 DEF Hosts!HostCompiler, Has, Named
  <2> QED
    BY <1>1, <2>1
<1>2. CASE ~(Has(env.cc, "cc", env) /\ Has(env.ar, "ar", env))
  <2>1. Hosts!HostCompiler(env) = [usingZig |-> TRUE, cc |-> "zig", ar |-> "zig"]
    BY <1>2 DEF Hosts!HostCompiler, Has, Named
  <2> QED
    BY <1>2, <2>1
<1> QED
  BY <1>1, <1>2

LEMMA DoctorIsRight ==
  ASSUME NEW env \in Hosts!HostQuestions
  PROVE  Hosts!DoctorRight(env, Hosts!HostAnswer(env))
<1> DEFINE a == Hosts!HostAnswer(env)
<1>1. /\ a.doctor.zig = Hosts!ZigPath(env) /\ a.doctor.zigPresent = Hosts!ZigPresent(env)
      /\ a.doctor.sources = Hosts!SourcesDir(env)
      /\ a.doctor.sourcesPresent = (env.sources # "absent")
      /\ a.doctor.cc = Hosts!Which(env.cc, "cc", env)
      /\ a.doctor.ar = Hosts!Which(env.ar, "ar", env)
      /\ a.zig = Hosts!EnsureZig(env) /\ a.sources = Hosts!EnsureSources(env)
      /\ a.host = Hosts!HostCompiler(env)
  BY DEF Hosts!HostAnswer, Hosts!InspectToolchain
<1> HIDE DEF a
<1>2. Hosts!PathsAgree(a)
  <2>1. /\ Hosts!EnsureZig(env).path # <<Hosts!Missing>> =>
             Hosts!ZigPath(env) = Hosts!EnsureZig(env).path
        /\ Hosts!ZigPath(env) = <<Hosts!Missing>> =>
             Hosts!EnsureZig(env).path = <<Hosts!Missing>>
    BY ZigOverridden, ZigInCache, NoZig
  <2>2. a.doctor.sources = a.sources.path
    BY <1>1 DEF Hosts!EnsureSources
  <2> QED
    BY <1>1, <2>1, <2>2 DEF Hosts!PathsAgree
<1>3. Hosts!ReadyIsReady(env, a)
  <2>1. /\ Hosts!ZigPresent(env) /\ ("damaged" # env.zigDir \/ Hosts!Truthy(env.zig)) =>
             Hosts!EnsureZig(env).path # <<Hosts!Missing>> /\ ~Hosts!EnsureZig(env).acquired
        /\ ~Hosts!ZigPresent(env) =>
             \/ Hosts!EnsureZig(env).path = <<Hosts!Missing>>
             \/ Hosts!EnsureZig(env).acquired
    <3>1. env.zigDir \in {"absent", "damaged", "whole"}
      BY MachineTypes DEF Hosts!DirState
    <3> QED
      BY <3>1, ZigOverridden, ZigInCache, NoZig
  <2>2. env.sources = "absent" => a.sources.acquired
    <3>1. Hosts!EnsureSources(env).acquired <=> env.sources # "whole"
      BY DEF Hosts!EnsureSources
    <3> QED
      BY <1>1, <3>1
  <2> QED
    BY <1>1, <2>1, <2>2 DEF Hosts!ReadyIsReady
<1>4. Hosts!CompilerShown(env, a)
  <2> SUFFICES ASSUME env.cc # "", env.ar # ""
               PROVE  a.doctor.cc # Hosts!Missing /\ a.doctor.ar # Hosts!Missing <=>
                        /\ ~a.host.usingZig
                        /\ a.host.cc # "bad" /\ a.host.ar # "bad"
                        /\ a.host.cc = a.doctor.cc /\ a.host.ar = a.doctor.ar
    BY DEF Hosts!CompilerShown
  <2>1. env.cc \in Hosts!Variable /\ env.ar \in Hosts!Variable
    BY MachineTypes
  <2>2. /\ Hosts!Which(env.cc, "cc", env) # Hosts!Missing <=>
             Has(env.cc, "cc", env) /\ Named(env.cc, "cc") # "bad"
        /\ Hosts!Which(env.cc, "cc", env) # Hosts!Missing =>
             Hosts!Which(env.cc, "cc", env) = Named(env.cc, "cc")
    BY <2>1, ShownIfThere
  <2>3. /\ Hosts!Which(env.ar, "ar", env) # Hosts!Missing <=>
             Has(env.ar, "ar", env) /\ Named(env.ar, "ar") # "bad"
        /\ Hosts!Which(env.ar, "ar", env) # Hosts!Missing =>
             Hosts!Which(env.ar, "ar", env) = Named(env.ar, "ar")
    BY <2>1, ShownIfThere
  <2>4. a.doctor.cc = Hosts!Which(env.cc, "cc", env) /\ a.doctor.ar = Hosts!Which(env.ar, "ar", env)
    BY <1>1
  <2>5. CASE Has(env.cc, "cc", env) /\ Has(env.ar, "ar", env)
    <3>1. /\ ~a.host.usingZig
          /\ a.host.cc = Named(env.cc, "cc") /\ a.host.ar = Named(env.ar, "ar")
      BY <1>1, <2>5, BothOrZig
    <3> QED
      BY <2>2, <2>3, <2>4, <2>5, <3>1
  <2>6. CASE ~(Has(env.cc, "cc", env) /\ Has(env.ar, "ar", env))
    <3>1. a.host.usingZig
      BY <1>1, <2>6, BothOrZig
    <3> QED
      BY <2>2, <2>3, <2>4, <2>6, <3>1
  <2> QED
    BY <2>5, <2>6
<1> QED
  BY <1>2, <1>3, <1>4 DEF Hosts!DoctorRight, a

(***************************************************************************)
(* ProjectCommands, for every command wherever the user is logged in and   *)
(* whatever is answered: TLC is asked those that differ from a usual one   *)
(* in one of the three.                                                    *)
(***************************************************************************)
EveryCommand ==
  [command : Projects!Commands, around : Projects!Surroundings, answer : Projects!Answers]

\* The endpoint that is asked, and the token it is given.
LEMMA TokenIsForEndpoint ==
  ASSUME NEW s \in Projects!Surroundings,
         Projects!ResolveApiUrl(s) # "throws", Projects!ApiToken(s) # "throws",
         Projects!ApiToken(s) # Projects!None
  PROVE  /\ Projects!ResolveApiUrl(s) \in Projects!Endpoints
         /\ Projects!ApiToken(s) = IF s.token # Projects!None THEN s.token
                                   ELSE Projects!ResolveApiUrl(s)
         /\ s.token = Projects!None => Projects!ResolveApiUrl(s) \in s.second.tokens
<1>1. /\ s.url \in {Projects!None, "e1", "e1/"}
      /\ s.first \in Projects!Files \cup {Projects!Corrupt}
  BY DEF Projects!Surroundings
<1>2. CASE s.url # Projects!None
  <2>1. Projects!Trimmed(s.url) = "e1"
    BY <1>1, <1>2 DEF Projects!Trimmed
  <2> QED
    BY <1>2, <2>1 DEF Projects!ResolveApiUrl, Projects!Endpoints, Projects!ApiToken, Projects!SavedToken
<1>3. CASE s.url = Projects!None
  <2>1. s.first # Projects!Corrupt
    BY <1>3 DEF Projects!ResolveApiUrl
  <2>2. s.first.active \in Projects!Endpoints \cup {Projects!None}
    BY <1>1, <2>1 DEF Projects!Files
  <2>3. Projects!ResolveApiUrl(s) \in Projects!Endpoints
    <3>1. CASE s.first.active = Projects!None
      BY <1>3, <2>1, <3>1 DEF Projects!ResolveApiUrl, Projects!Endpoints
    <3>2. CASE s.first.active # Projects!None
      BY <1>3, <2>1, <2>2, <3>2 DEF Projects!ResolveApiUrl
    <3> QED
      BY <3>1, <3>2
  <2> QED
    BY <2>3 DEF Projects!ApiToken, Projects!SavedToken
<1> QED
  BY <1>2, <1>3

\* What is said of an answer.
LEMMA SaysWhatIsSo ==
  ASSUME NEW c \in Projects!Commands, NEW answer \in Projects!Answers
  PROVE  /\ Projects!Says(c, answer) = "done" => answer.status = "ok"
         /\ answer.status = "ok"
              /\ c.verb \in {"domains delete", "secrets put", "secrets delete", "delete"} =>
              Projects!Says(c, answer) = "done"
         /\ Projects!Says(c, answer) = "all" => answer.body = "good"
         /\ Projects!Says(c, answer) = "nothing there" =>
              answer.body = "empty list" \/ c.verb = "secrets list"
         /\ answer.status = "ok" /\ answer.body = "good" => Projects!Says(c, answer) # "failed"
<1>1. /\ c.verb \in Projects!Verbs
      /\ answer.body \in {"good", "empty list", "part of it", "other", "text"}
  BY DEF Projects!Commands, Projects!Answers
<1>3. CASE answer.status # "ok"
  BY <1>3 DEF Projects!Says
<1>4. CASE answer.status = "ok" /\ ~Projects!Accepts(c.verb, answer.body)
  <2>1. Projects!Says(c, answer) = "failed"
    BY <1>4 DEF Projects!Says
  <2>2. c.verb \notin {"domains delete", "secrets put", "secrets delete", "delete"}
    BY <1>4 DEF Projects!Accepts
  <2>3. answer.body # "good"
    BY <1>1, <1>4 DEF Projects!Accepts, Projects!Verbs, Projects!Lists, Projects!Logs,
       Projects!Changes, Projects!ParseVersionList, Projects!ParseUrlResponse, Projects!ParseDomain
  <2> QED
    BY <2>1, <2>2, <2>3
<1>5. CASE /\ answer.status = "ok" /\ Projects!Accepts(c.verb, answer.body)
           /\ c.verb \in Projects!Changes
  <2>1. Projects!Says(c, answer) = "done"
    <3>1. c.verb \notin Projects!Lists
      BY <1>5 DEF Projects!Lists, Projects!Changes
    <3> QED
      BY <1>5, <3>1 DEF Projects!Says
  <2> QED
    BY <1>5, <2>1
<1>6. CASE /\ answer.status = "ok" /\ Projects!Accepts(c.verb, answer.body)
           /\ c.verb \in Projects!Lists
  <2>1. c.verb \notin Projects!Changes
    BY <1>6 DEF Projects!Lists, Projects!Changes
  <2>2. Projects!Says(c, answer) = Projects!ListSays(c.verb, answer.body)
    BY <1>6, <2>1 DEF Projects!Says
  <2>3. c.verb = "domains list" => answer.body \in {"good", "empty list", "part of it"}
    BY <1>6 DEF Projects!Accepts
  <2>4. c.verb \in {"versions list", "domains list", "secrets list"}
    BY <1>6 DEF Projects!Lists
  <2>5. /\ Projects!ListSays(c.verb, answer.body) \in {"all", "some", "blank", "nothing there"}
        /\ Projects!ListSays(c.verb, answer.body) = "all" => answer.body = "good"
        /\ Projects!ListSays(c.verb, answer.body) = "nothing there" =>
             c.verb # "versions list" /\ answer.body \in {"empty list", "other", "text"}
    BY <1>1 DEF Projects!ListSays
  <2> QED
    BY <1>6, <2>2, <2>3, <2>4, <2>5
<1>7. CASE /\ answer.status = "ok" /\ Projects!Accepts(c.verb, answer.body)
           /\ c.verb \notin Projects!Changes \cup Projects!Lists
  <2>1. Projects!Says(c, answer) = "shown"
    BY <1>7 DEF Projects!Says
  <2>2. c.verb \notin {"domains delete", "secrets put", "secrets delete", "delete"}
    BY <1>7 DEF Projects!Changes
  <2> QED
    BY <1>7, <2>1, <2>2
<1> QED
  BY <1>3, <1>4, <1>5, <1>6, <1>7

\* The one request of a command that is not stopped.
LEMMA RequestIsRight ==
  ASSUME NEW c \in Projects!Commands, NEW s \in Projects!Surroundings, ~Projects!Stopped(c, s),
         NEW request,
         request = [to |-> Projects!ResolveApiUrl(s), token |-> Projects!ApiToken(s),
                    changes |-> c.verb \in Projects!Changes]
  PROVE  Projects!TokenRight(s, request) /\ Projects!ChangeRight(c, request)
<1>1. Projects!TokenRight(s, request)
  <2>1. /\ request.to = Projects!ResolveApiUrl(s) /\ request.token = Projects!ApiToken(s)
    OBVIOUS
  <2>2. /\ Projects!ResolveApiUrl(s) # "throws" /\ Projects!ApiToken(s) # "throws"
        /\ Projects!ApiToken(s) # Projects!None
    BY DEF Projects!Stopped
  <2> QED
    BY <2>1, <2>2, TokenIsForEndpoint DEF Projects!TokenRight
<1>2. ASSUME c.verb \in Projects!Changes PROVE Projects!ChangeRight(c, request)
  <2>1. /\ c.verb # "whoami"
        /\ c.project \in BOOLEAN /\ c.explicit \in BOOLEAN /\ c.confirmed \in BOOLEAN
        /\ c.name \in {"GOOD", "bad"}
    BY <1>2 DEF Projects!Commands, Projects!Changes
  <2> QED
    BY <2>1 DEF Projects!Stopped, Projects!ChangeRight, Projects!NeedsProject
<1>3. request.changes <=> c.verb \in Projects!Changes
  OBVIOUS
<1> QED
  BY <1>1, <1>2, <1>3 DEF Projects!ChangeRight

\* A management command, alone.
CommandRight(q, a) ==
  /\ Len(a.requests) <= 1
  /\ Projects!SaidRight(q.command, q.answer, a)
  /\ \A i \in DOMAIN a.requests :
       /\ Projects!TokenRight(q.around, a.requests[i])
       /\ Projects!ChangeRight(q.command, a.requests[i])

\* For every command, wherever its user is logged in and whatever the server
\* answers: it asks once at most, with the token of the endpoint it asks, changes
\* what it was asked to, and says what has happened (main.ts).
THEOREM EveryCommandIsRight ==
  ASSUME NEW q \in EveryCommand
  PROVE  CommandRight(q, Projects!RunCommand(q.command, q.around, q.answer))
<1> DEFINE c == q.command
           s == q.around
           a == Projects!RunCommand(c, s, q.answer)
<1>1. /\ c \in Projects!Commands /\ s \in Projects!Surroundings
      /\ q.answer \in Projects!Answers
  BY DEF EveryCommand
<1> HIDE DEF c, s
<1>2. CASE Projects!Stopped(c, s)
  <2>1. a.requests = <<>> /\ a.said \in {"account not known", "failed"}
    BY <1>2 DEF Projects!RunCommand
  <2> HIDE DEF a
  <2>2. Len(a.requests) = 0 /\ DOMAIN a.requests = {}
    <3>1. Len(<<>>) = 0 /\ DOMAIN <<>> = {}
      OBVIOUS
    <3> QED
      BY <2>1, <3>1
  <2>3. Projects!SaidRight(c, q.answer, a)
    BY <2>1 DEF Projects!SaidRight
  <2> QED
    BY <2>2, <2>3 DEF CommandRight, a, c, s
<1>3. CASE ~Projects!Stopped(c, s)
  <2> DEFINE request == [to |-> Projects!ResolveApiUrl(s), token |-> Projects!ApiToken(s),
                         changes |-> c.verb \in Projects!Changes]
  <2>1. a.requests = <<request>> /\ a.said = Projects!Says(c, q.answer)
    BY <1>3 DEF Projects!RunCommand
  <2>2. Projects!TokenRight(s, request) /\ Projects!ChangeRight(c, request)
    BY <1>1, <1>3, RequestIsRight
  <2> HIDE DEF request, a
  <2>3. Len(a.requests) = 1 /\ DOMAIN a.requests = {1} /\ a.requests[1] = request
    BY <2>1
  <2>4. Projects!SaidRight(c, q.answer, a)
    <3>1. a.requests # <<>>
      BY <2>1
    <3> DEFINE answer == q.answer
    <3>2. answer \in Projects!Answers
      BY <1>1
    <3> HIDE DEF answer
    <3>3. /\ a.said = "done" => answer.status = "ok"
          /\ answer.status = "ok"
               /\ c.verb \in {"domains delete", "secrets put", "secrets delete", "delete"} =>
               a.said = "done"
          /\ a.said = "all" => answer.body = "good"
          /\ a.said = "nothing there" => answer.body = "empty list" \/ c.verb = "secrets list"
          /\ answer.status = "ok" /\ answer.body = "good" => a.said # "failed"
      <4>1. a.said = Projects!Says(c, answer)
        BY <2>1 DEF answer
      <4> QED
        BY <1>1, <3>2, <4>1, SaysWhatIsSo
    <3>4. Projects!SaidRight(c, answer, a)
      BY <3>1, <3>3 DEF Projects!SaidRight
    <3> QED
      BY <3>4 DEF answer
  <2> QED
    BY <2>2, <2>3, <2>4 DEF CommandRight, a, c, s
<1> QED
  BY <1>2, <1>3

\* Three parts are compared as the number they make, if each is a digit or no
\* number at all.
Numbered(version) == \A i \in DOMAIN version : version[i] \in 0..Projects!NotANumber

LEMMA PartIsDigit ==
  ASSUME NEW version, Numbered(version), NEW i
  PROVE  Projects!Part(version, i) \in 0..9
  BY DEF Numbered, Projects!Part, Projects!NotANumber

LEMMA NewerWeighsMore ==
  ASSUME NEW v, NEW w, Numbered(v), Numbered(w)
  PROVE  Projects!IsNewer(v, w) <=> Projects!Weight(v) > Projects!Weight(w)
<1> DEFINE v1 == Projects!Part(v, 1)
           v2 == Projects!Part(v, 2)
           v3 == Projects!Part(v, 3)
           w1 == Projects!Part(w, 1)
           w2 == Projects!Part(w, 2)
           w3 == Projects!Part(w, 3)
<1>1. /\ v1 \in 0..9 /\ v2 \in 0..9 /\ v3 \in 0..9
      /\ w1 \in 0..9 /\ w2 \in 0..9 /\ w3 \in 0..9
  BY PartIsDigit
<1>2. /\ Projects!Weight(v) = 100 * v1 + 10 * v2 + v3
      /\ Projects!Weight(w) = 100 * w1 + 10 * w2 + w3
  BY DEF Projects!Weight
<1>3. Projects!IsNewer(v, w) <=>
        \E i \in 1..3 : /\ Projects!Part(v, i) > Projects!Part(w, i)
                       /\ \A j \in 1..(i - 1) : Projects!Part(v, j) = Projects!Part(w, j)
  BY DEF Projects!IsNewer
<1>4. /\ 1..3 = {1, 2, 3} /\ 1..(1 - 1) = {} /\ 1..(2 - 1) = {1} /\ 1..(3 - 1) = {1, 2}
  OBVIOUS
<1>5. Projects!IsNewer(v, w) <=>
        \/ v1 > w1
        \/ v2 > w2 /\ v1 = w1
        \/ v3 > w3 /\ v1 = w1 /\ v2 = w2
  BY <1>3, <1>4
<1> HIDE DEF v1, v2, v3, w1, w2, w3
<1>6. ASSUME NEW a \in 0..9, NEW b \in 0..9, NEW c \in 0..9,
             NEW d \in 0..9, NEW e \in 0..9, NEW f \in 0..9
      PROVE  100 * a + 10 * b + c > 100 * d + 10 * e + f <=>
               a > d \/ (b > e /\ a = d) \/ (c > f /\ a = d /\ b = e)
  BY <1>6
<1>7. 100 * v1 + 10 * v2 + v3 > 100 * w1 + 10 * w2 + w3 <=>
        \/ v1 > w1
        \/ v2 > w2 /\ v1 = w1
        \/ v3 > w3 /\ v1 = w1 /\ v2 = w2
  BY <1>1, <1>6
<1> QED
  BY <1>2, <1>5, <1>7

\* The versions of the questions are such.
LEMMA VersionsAreNumbered ==
  /\ \A v \in Projects!Versions : Numbered(v)
  /\ \A v \in Projects!Sample : Numbered(v)
<1>1. ASSUME NEW n \in 2..3, NEW v \in [1..n -> Projects!Parts] PROVE Numbered(v)
  <2>1. \A x \in Projects!Parts : x \in 0..Projects!NotANumber
    BY DEF Projects!Parts, Projects!NotANumber
  <2>2. DOMAIN v = 1..n /\ \A i \in 1..n : v[i] \in Projects!Parts
    OBVIOUS
  <2> QED
    BY <2>1, <2>2 DEF Numbered
<1>2. Numbered(<<>>)
  BY DEF Numbered
<1>3. Numbered(<<1, 1, 1, 1>>)
  BY DEF Numbered, Projects!NotANumber
<1>4. /\ Numbered(<<0, 9, 9>>) /\ Numbered(<<1, 0, 0>>) /\ Numbered(<<1, Projects!NotANumber, 1>>)
      /\ Numbered(<<1, 1>>)
  BY DEF Numbered, Projects!NotANumber
<1>5. ASSUME NEW v \in Projects!Versions PROVE Numbered(v)
  <2>1. CASE v \in UNION {[1..n -> Projects!Parts] : n \in 2..3}
    <3>1. PICK n \in 2..3 : v \in [1..n -> Projects!Parts]
      BY <2>1
    <3> QED
      BY <1>1, <3>1
  <2>2. \/ v \in UNION {[1..n -> Projects!Parts] : n \in 2..3}
        \/ v = <<>> \/ v = <<1, 1, 1, 1>>
    BY <1>5 DEF Projects!Versions
  <2> QED
    BY <1>2, <1>3, <2>1, <2>2
<1> QED
  BY <1>4, <1>5 DEF Projects!Sample

LEMMA WarningIsRight ==
  ASSUME NEW q \in Projects!WarningQuestions
  PROVE  Projects!ControlVersionWarning(q.min, q.cli) =
           (q.min # <<>> /\ Projects!Weight(q.min[1]) > Projects!Weight(q.cli))
<1>1. q.cli \in Projects!Versions /\ q.min \in Projects!Maybe(Projects!Versions)
  BY DEF Projects!WarningQuestions
<1>2. CASE q.min = <<>>
  BY <1>2 DEF Projects!ControlVersionWarning
<1>3. CASE q.min # <<>>
  <2>1. PICK v \in Projects!Versions : q.min = <<v>>
    BY <1>1, <1>3 DEF Projects!Maybe
  <2>2. q.min[1] = v
    BY <2>1
  <2>3. Projects!IsNewer(v, q.cli) <=> Projects!Weight(v) > Projects!Weight(q.cli)
    BY <1>1, VersionsAreNumbered, NewerWeighsMore
  <2> QED
    BY <1>3, <2>2, <2>3 DEF Projects!ControlVersionWarning
<1> QED
  BY <1>2, <1>3

\* What npm or a file of today has told, if it is newer, and not again tomorrow.
LEMMA NoticeIsRight ==
  ASSUME NEW q \in Projects!NoticeQuestions
  PROVE  Projects!NoticeRight(q, Projects!Notify(q))
<1> DEFINE a == Projects!Notify(q)
           known == Projects!LatestVersion(q.cache, q.npm)
<1>1. /\ q.npm \in Projects!Maybe(Projects!Sample) /\ q.current \in Projects!Sample
      /\ q.cache \in Projects!Maybe([age : {"fresh", "old"}, latest : Projects!Sample])
      /\ q.silent \in BOOLEAN
  BY DEF Projects!NoticeQuestions
<1>2. CASE q.silent
  <2>1. a.told = <<>> /\ ~a.asked
    BY <1>2 DEF Projects!Notify, Projects!NotifyIfOutdated
  <2> HIDE DEF a
  <2>2. DOMAIN a.told = {}
    BY <2>1
  <2> QED
    BY <2>1, <2>2 DEF Projects!NoticeRight, a
<1>3. CASE ~q.silent
  <2>1. /\ a.asked = known.asked /\ a.cache = known.cache
        /\ a.told = IF known.latest # <<>> /\ Projects!IsNewer(known.latest[1], q.current)
                    THEN known.latest ELSE <<>>
    BY <1>3 DEF Projects!Notify, Projects!NotifyIfOutdated
  <2> HIDE DEF a
  <2>2. /\ known.latest \in Projects!Maybe(Projects!Sample)
        /\ \/ known.latest = q.npm
           \/ /\ q.cache # <<>> /\ q.cache[1].age = "fresh"
              /\ known.latest = <<q.cache[1].latest>>
    <3>1. CASE q.cache # <<>> /\ q.cache[1].age = "fresh"
      <4>1. PICK e \in [age : {"fresh", "old"}, latest : Projects!Sample] : q.cache = <<e>>
        BY <1>1, <3>1 DEF Projects!Maybe
      <4>2. known.latest = <<q.cache[1].latest>> /\ q.cache[1] = e
        BY <3>1, <4>1 DEF Projects!LatestVersion
      <4> QED
        BY <3>1, <4>2 DEF Projects!Maybe
    <3>2. CASE ~(q.cache # <<>> /\ q.cache[1].age = "fresh")
      BY <1>1, <3>2 DEF Projects!LatestVersion
    <3> QED
      BY <3>1, <3>2
  <2>3. ASSUME NEW i \in DOMAIN a.told
        PROVE  /\ Projects!Weight(a.told[i]) > Projects!Weight(q.current)
               /\ \/ a.told = q.npm
                  \/ q.cache = << [age |-> "fresh", latest |-> a.told[i]] >>
    <3>1. a.told # <<>>
      BY <2>3
    <3>2. a.told = known.latest /\ Projects!IsNewer(known.latest[1], q.current)
      BY <2>1, <3>1
    <3>3. PICK v \in Projects!Sample : known.latest = <<v>>
      BY <2>1, <2>2, <3>1 DEF Projects!Maybe
    <3>4. i = 1 /\ a.told[i] = v /\ known.latest[1] = v
      BY <2>3, <3>2, <3>3
    <3>5. Projects!Weight(v) > Projects!Weight(q.current)
      BY <1>1, <3>2, <3>4, VersionsAreNumbered, NewerWeighsMore
    <3>6. CASE q.cache # <<>> /\ q.cache[1].age = "fresh" /\ known.latest = <<q.cache[1].latest>>
      <4>1. PICK e \in [age : {"fresh", "old"}, latest : Projects!Sample] : q.cache = <<e>>
        BY <1>1, <3>6 DEF Projects!Maybe
      <4>2. e.age = "fresh" /\ e.latest = v
        BY <3>3, <3>6, <4>1
      <4>3. e = [age |-> "fresh", latest |-> v]
        BY <4>2
      <4> QED
        BY <3>4, <3>5, <4>1, <4>3
    <3> QED
      BY <2>2, <3>2, <3>4, <3>5, <3>6
  <2>4. ASSUME a.asked, q.npm # <<>>
        PROVE  ~Projects!NotifyIfOutdated(q.silent, a.cache, q.npm, q.current).asked
    <3>1. ~(q.cache # <<>> /\ q.cache[1].age = "fresh")
      BY <2>1, <2>4 DEF Projects!LatestVersion
    <3>2. a.cache = << [age |-> "fresh", latest |-> q.npm[1]] >>
      BY <2>1, <2>4, <3>1 DEF Projects!LatestVersion
    <3>3. a.cache # <<>> /\ a.cache[1].age = "fresh"
      BY <3>2
    <3>4. ~Projects!LatestVersion(a.cache, q.npm).asked
      BY <3>3 DEF Projects!LatestVersion
    <3> QED
      BY <1>3, <3>4 DEF Projects!NotifyIfOutdated
  <2> QED
    BY <2>3, <2>4 DEF Projects!NoticeRight, a
<1> QED
  BY <1>1, <1>2, <1>3

LEMMA ProjectIsRight ==
  ASSUME NEW q \in Projects!ProjectQuestions
  PROVE  Projects!ProjectRight(q, Projects!ProjectAnswer(q))
<1>1. CASE q \in Projects!CommandQuestions
  <2>1. q \in EveryCommand
    <3>1. /\ \A verb \in Projects!Verbs : Projects!Plain(verb) \in Projects!Commands
          /\ Projects!LoggedIn \in Projects!Surroundings
          /\ Projects!Accepted \in Projects!Answers
      <4>1. /\ \A verb \in Projects!Verbs : Projects!Plain(verb) \in Projects!Commands
            /\ Projects!Accepted \in Projects!Answers
        BY DEF Projects!Plain, Projects!Commands, Projects!Accepted, Projects!Answers
      <4>2. [active |-> "e1", tokens |-> {"e1"}] \in Projects!Files
        BY DEF Projects!Files, Projects!Endpoints, Projects!None
      <4>3. Projects!LoggedIn \in Projects!Surroundings
        BY <4>2 DEF Projects!LoggedIn, Projects!Surroundings
      <4> QED
        BY <4>1, <4>3
    <3>2. CASE q \in [command : {Projects!Plain(verb) : verb \in Projects!Verbs},
                      around : Projects!Surroundings, answer : {Projects!Accepted}]
      BY <3>1, <3>2 DEF EveryCommand
    <3>3. CASE q \in [command : Projects!Commands, around : {Projects!LoggedIn},
                      answer : Projects!Answers]
      BY <3>1, <3>3 DEF EveryCommand
    <3> QED
      BY <1>1, <3>2, <3>3 DEF Projects!CommandQuestions
  <2>2. "command" \in DOMAIN q /\ "min" \notin DOMAIN q /\ "npm" \notin DOMAIN q
    BY <2>1 DEF EveryCommand
  <2>3. CommandRight(q, Projects!RunCommand(q.command, q.around, q.answer))
    BY <2>1, EveryCommandIsRight
  <2> QED
    BY <2>2, <2>3 DEF CommandRight, Projects!ProjectRight, Projects!ProjectAnswer
<1>2. CASE q \in Projects!WarningQuestions
  <2>1. "command" \notin DOMAIN q /\ "min" \in DOMAIN q /\ "npm" \notin DOMAIN q
    BY <1>2 DEF Projects!WarningQuestions
  <2> QED
    BY <1>2, <2>1, WarningIsRight DEF Projects!ProjectRight, Projects!ProjectAnswer
<1>3. CASE q \in Projects!NoticeQuestions
  <2>1. "command" \notin DOMAIN q /\ "min" \notin DOMAIN q /\ "npm" \in DOMAIN q
    BY <1>3 DEF Projects!NoticeQuestions
  <2> QED
    BY <1>3, <2>1, NoticeIsRight DEF Projects!ProjectRight, Projects!ProjectAnswer
<1> QED
  BY <1>1, <1>2, <1>3 DEF Projects!ProjectQuestions

(***************************************************************************)
(* HandlerImports, for any set of imports and any mentions of the names:   *)
(* ImportQuestions and FileQuestions have two imports, and one mention or  *)
(* three alike.                                                            *)
(***************************************************************************)
EveryImport == [specifiers : SUBSET Handlers!Specifiers, date : Handlers!Dates, outputs : 0..1]

EveryFile ==
  [path : Handlers!Paths, date : Handlers!Dates, shape : Handlers!Shapes,
   mentions : [Handlers!Globals -> Handlers!Mentions]]

\* An import is of one of seven kinds, of which two depend on the date, and on
\* nothing of it but whether it has sockets.
LEMMA ResolutionIs ==
  ASSUME NEW s \in Handlers!Specifiers, NEW date
  PROVE  \/ /\ s.name \in {"cloudflare:sockets", "cloudflare:workers"}
            /\ Handlers!Resolution(s, date) = "left to the compiler"
         \/ s.name \in Handlers!NodeShimNames /\ s.prefix
            /\ Handlers!Resolution(s, date) = "shim"
         \/ /\ s.name \in Handlers!SocketShimNames
            /\ Handlers!Resolution(s, date) =
                 IF Handlers!Sockets(date) THEN "socket shim" ELSE "polyfill"
         \/ /\ s.name = "events" \/ (s.name \in Handlers!NodeShimNames /\ ~s.prefix)
            /\ Handlers!Resolution(s, date) = "polyfill"
         \/ /\ s.name = "driver"
            /\ Handlers!Resolution(s, date) =
                 IF Handlers!Sockets(date) THEN "file for Workers" ELSE "file"
         \/ s.name = "./file" /\ Handlers!Resolution(s, date) = "file"
         \/ s.name = "./missing" /\ Handlers!Resolution(s, date) = "unresolved"
<1> USE DEF Handlers!Specifiers, Handlers!Builtins, Handlers!External, Handlers!NODE_SHIMS,
            Handlers!SOCKET_NODE_SHIMS, Handlers!NodeShimNames, Handlers!SocketShimNames
<1>1. CASE s.name \in {"cloudflare:sockets", "cloudflare:workers"}
  BY <1>1 DEF Handlers!Resolution
<1>2. CASE s.name \in Handlers!NodeShimNames /\ s.prefix
  BY <1>2 DEF Handlers!Resolution
<1>3. CASE s.name \in Handlers!SocketShimNames
  BY <1>3 DEF Handlers!Resolution
<1>4. CASE s.name = "events" \/ (s.name \in Handlers!NodeShimNames /\ ~s.prefix)
  BY <1>4 DEF Handlers!Resolution
<1>5. CASE s.name = "driver"
  BY <1>5 DEF Handlers!Resolution
<1>6. CASE s.name \in {"./file", "./missing"}
  BY <1>6 DEF Handlers!Resolution
<1> QED
  BY <1>1, <1>2, <1>3, <1>4, <1>5, <1>6

\* One thing with sockets and another without.
Turns(s, on, off) ==
  \A date : Handlers!Resolution(s, date) = IF Handlers!Sockets(date) THEN on ELSE off

\* What depends on the date differs between two of them if one has sockets.
LEMMA DateDecides ==
  ASSUME NEW s, NEW date, NEW today, NEW on, NEW off, Turns(s, on, off),
         Handlers!Resolution(s, date) # Handlers!Resolution(s, today)
  PROVE  /\ {Handlers!Resolution(s, date), Handlers!Resolution(s, today)} = {on, off}
         /\ Handlers!Sockets(date) # Handlers!Sockets(today)
<1>1. CASE Handlers!Sockets(date) /\ ~Handlers!Sockets(today)
  BY <1>1 DEF Turns
<1>2. CASE ~Handlers!Sockets(date) /\ Handlers!Sockets(today)
  <2>1. Handlers!Resolution(s, date) = off /\ Handlers!Resolution(s, today) = on
    BY <1>2 DEF Turns
  <2> QED
    BY <1>2, <2>1
<1> QED
  BY <1>1, <1>2 DEF Turns, Handlers!Sockets

LEMMA ImportsAreRight ==
  ASSUME NEW q \in EveryImport
  PROVE  Handlers!ImportRight(q, Handlers!BundleHandler(q.specifiers, q.date, q.outputs))
<1> DEFINE a == Handlers!BundleHandler(q.specifiers, q.date, q.outputs)
<1>0. q.specifiers \subseteq Handlers!Specifiers
  BY DEF EveryImport
<1>1. /\ a.ok <=> ~(\E s \in q.specifiers : Handlers!Resolution(s, q.date) = "unresolved")
                  /\ q.outputs # 0
  BY DEF Handlers!BundleHandler
<1>2. \A s \in q.specifiers : Handlers!Resolution(s, q.date) = "unresolved" <=> s.name = "./missing"
  BY <1>0, ResolutionIs DEF Handlers!NodeShimNames, Handlers!SocketShimNames
<1>3. ASSUME NEW s \in q.specifiers, NEW date \in Handlers!Dates,
             Handlers!Resolution(s, date) # Handlers!Resolution(s, q.date)
      PROVE  /\ {Handlers!Resolution(s, date), Handlers!Resolution(s, q.date)}
                  \in {{"socket shim", "polyfill"}, {"file for Workers", "file"}}
             /\ Handlers!Sockets(date) # Handlers!Sockets(q.date)
  <2>1. s.name \in Handlers!SocketShimNames \/ s.name = "driver"
    BY <1>0, <1>3, ResolutionIs DEF Handlers!NodeShimNames
  <2>2. CASE s.name \in Handlers!SocketShimNames
    <3> DEFINE on == "socket shim"
               off == "polyfill"
    <3>1. Turns(s, on, off)
      BY <1>0, <2>2, ResolutionIs DEF Turns, Handlers!NodeShimNames, Handlers!SocketShimNames
    <3> HIDE DEF on, off
    <3>2. /\ {Handlers!Resolution(s, date), Handlers!Resolution(s, q.date)} = {on, off}
          /\ Handlers!Sockets(date) # Handlers!Sockets(q.date)
      BY <1>3, <3>1, DateDecides
    <3> QED
      BY <3>2 DEF on, off
  <2>3. CASE s.name = "driver"
    <3> DEFINE on == "file for Workers"
               off == "file"
    <3>1. Turns(s, on, off)
      BY <1>0, <2>3, ResolutionIs DEF Turns, Handlers!NodeShimNames, Handlers!SocketShimNames
    <3> HIDE DEF on, off
    <3>2. /\ {Handlers!Resolution(s, date), Handlers!Resolution(s, q.date)} = {on, off}
          /\ Handlers!Sockets(date) # Handlers!Sockets(q.date)
      BY <1>3, <3>1, DateDecides
    <3> QED
      BY <3>2 DEF on, off
  <2> QED
    BY <2>1, <2>2, <2>3
<1>4. ASSUME NEW s \in q.specifiers, NEW prefix \in BOOLEAN,
             Handlers!Resolution(s, q.date) = "socket shim"
      PROVE  Handlers!Resolution([s EXCEPT !.prefix = prefix], q.date) = "socket shim"
  <2>1. s.name \in Handlers!SocketShimNames /\ Handlers!Sockets(q.date)
    BY <1>0, <1>4, ResolutionIs
  <2>2. PICK t \in Handlers!Specifiers : t = [s EXCEPT !.prefix = prefix] /\ t.name = s.name
    <3>1. s \in [name : Handlers!Builtins, prefix : BOOLEAN]
      BY <1>0, <2>1 DEF Handlers!Specifiers, Handlers!SocketShimNames
    <3>2. s = [name |-> s.name, prefix |-> s.prefix] /\ s.name \in Handlers!Builtins
      BY <3>1
    <3>3. [name |-> s.name, prefix |-> prefix] \in Handlers!Specifiers
      BY <3>2 DEF Handlers!Specifiers
    <3>4. [s EXCEPT !.prefix = prefix] = [name |-> s.name, prefix |-> prefix]
      BY <3>2
    <3> QED
      BY <3>3, <3>4
  <2>3. Handlers!Resolution(t, q.date) = "socket shim"
    BY <2>1, <2>2, ResolutionIs DEF Handlers!NodeShimNames, Handlers!SocketShimNames
  <2> QED
    BY <2>2, <2>3
<1> HIDE DEF a
<1> QED
  BY <1>1, <1>2, <1>3, <1>4 DEF Handlers!ImportRight, a

\* What comes before a file's text binds the names that it needs, and no other.
LEMMA FilesAreRight ==
  ASSUME NEW q \in EveryFile
  PROVE  Handlers!FileRight(q, Handlers!NodeGlobals(q.path, q.date, q.shape, q.mentions))
<1> DEFINE a == Handlers!NodeGlobals(q.path, q.date, q.shape, q.mentions)
<1>1. q.path \in Handlers!Paths /\ q.mentions \in [Handlers!Globals -> Handlers!Mentions]
  BY DEF EveryFile
<1>2. DOMAIN a = IF Handlers!Sockets(q.date) /\ Handlers!Loaded(q.path)
                 THEN Handlers!Needed(q.mentions) ELSE {}
  BY DEF Handlers!NodeGlobals, Handlers!Prefix
<1>3. \A g \in DOMAIN a : a[g] = "import" => q.shape.line
  BY DEF Handlers!NodeGlobals, Handlers!Prefix
<1>4. ASSUME NEW g \in Handlers!Globals, NEW given,
             g \in given <=> g \in Handlers!Needed(q.mentions)
      PROVE  Handlers!BoundOnce(g, q.mentions[g], given)
  <2>1. q.mentions[g] \in Handlers!Mentions
    BY <1>1
  <2>2. q.mentions[g].bound \in Handlers!Bindings
    BY <2>1 DEF Handlers!Mentions
  <2> QED
    BY <1>4, <2>2 DEF Handlers!BoundOnce, Handlers!Needed, Handlers!Globals, Handlers!Bindings,
       Handlers!UsesBuffer, Handlers!UsesProcess, Handlers!UsesGlobal
<1>5. \A g \in Handlers!Needed(q.mentions) : q.mentions[g].use \in {"member", "call"}
  BY DEF Handlers!Needed, Handlers!UsesBuffer, Handlers!UsesProcess, Handlers!UsesGlobal
<1>6. q.path.dependency /\ q.path.extension # "ts" <=> Handlers!Loaded(q.path)
  BY <1>1 DEF Handlers!Paths, Handlers!Loaded
<1> HIDE DEF a
<1> QED
  BY <1>2, <1>3, <1>4, <1>5, <1>6 DEF Handlers!FileRight, Handlers!Sockets, Handlers!Loaded, a

\* No function of a dependency keeps the name of a built-in one, unless it is a
\* declaration or another function's.
LEMMA FunctionsAreRight ==
  ASSUME NEW q \in Handlers!FunctionQuestions
  PROVE  Handlers!FunctionRight(q, Handlers!RenamedFunction(q.path, q.date, q.function))
<1>1. q.function.name \in {"escape", "other"}
  BY DEF Handlers!FunctionQuestions, Handlers!Functions
<1> QED
  BY <1>1 DEF Handlers!FunctionRight, Handlers!RenamedFunction, Handlers!Sockets

\* For any set of imports, any mentions of the names in a file, any date and any
\* function: the date changes the meaning of no import but those it is for, a
\* dependency gets the names it uses, each bound once, and a handler's own files
\* are left alone (bundle.ts, node-shims.ts).
THEOREM EveryHandlerIsRight ==
  \A q \in EveryImport \cup EveryFile \cup Handlers!FunctionQuestions :
    Handlers!HandlerRight(q, Handlers!HandlerAnswer(q))
<1> SUFFICES ASSUME NEW q \in EveryImport \cup EveryFile \cup Handlers!FunctionQuestions
             PROVE  Handlers!HandlerRight(q, Handlers!HandlerAnswer(q))
  OBVIOUS
<1>1. CASE q \in EveryImport
  <2>1. "specifiers" \in DOMAIN q /\ "shape" \notin DOMAIN q /\ "function" \notin DOMAIN q
    BY <1>1 DEF EveryImport
  <2> QED
    BY <1>1, <2>1, ImportsAreRight DEF Handlers!HandlerRight, Handlers!HandlerAnswer
<1>2. CASE q \in EveryFile
  <2>1. "specifiers" \notin DOMAIN q /\ "shape" \in DOMAIN q /\ "function" \notin DOMAIN q
    BY <1>2 DEF EveryFile
  <2> QED
    BY <1>2, <2>1, FilesAreRight DEF Handlers!HandlerRight, Handlers!HandlerAnswer
<1>3. CASE q \in Handlers!FunctionQuestions
  <2>1. "specifiers" \notin DOMAIN q /\ "shape" \notin DOMAIN q /\ "function" \in DOMAIN q
    BY <1>3 DEF Handlers!FunctionQuestions
  <2> QED
    BY <1>3, <2>1, FunctionsAreRight DEF Handlers!HandlerRight, Handlers!HandlerAnswer
<1> QED
  BY <1>1, <1>2, <1>3

\* Those that TLC is asked are among them.
LEMMA AskedHandlers ==
  Handlers!HandlerQuestions \subseteq EveryImport \cup EveryFile \cup Handlers!FunctionQuestions
<1>1. Handlers!ImportQuestions \subseteq EveryImport
  BY DEF Handlers!ImportQuestions, EveryImport
<1>2. Handlers!FileQuestions \subseteq EveryFile
  <2>1. Handlers!Unmentioned \in Handlers!Mentions
    BY DEF Handlers!Unmentioned, Handlers!Mentions, Handlers!Uses, Handlers!Bindings, Handlers!None
  <2> QED
    BY <2>1 DEF Handlers!FileQuestions, EveryFile
<1> QED
  BY <1>1, <1>2 DEF Handlers!HandlerQuestions

(***************************************************************************)
(* Bindings, for any names.                                                *)
(***************************************************************************)
\* The rows of kinds that are listed once each have each binding of theirs once.
LEMMA OneRowEach ==
  ASSUME NEW c \in Binds!Configurations, NEW kinds, NEW rows, DOMAIN rows = DOMAIN kinds,
         \A i, j \in DOMAIN kinds : kinds[i] = kinds[j] => i = j,
         \A i \in DOMAIN kinds : \A row \in rows[i] : row.type = kinds[i] /\ row.name \in Binds!Named(c, kinds[i]),
         \A i \in DOMAIN kinds : \A n \in Binds!Named(c, kinds[i]) : \E row \in rows[i] : row.name = n,
         NEW names, names = {n \in BindingName : \E i \in DOMAIN kinds : c.kind[n] = kinds[i]}
  PROVE  Binds!ListsEach(rows, c, names)
<1>1. ASSUME NEW n \in names 
      PROVE  \E i \in DOMAIN rows : \A j \in DOMAIN rows : (\E row \in rows[j] : row.name = n) <=> j = i
  <2>1. PICK i \in DOMAIN kinds : c.kind[n] = kinds[i]
    OBVIOUS
  <2>2. n \in Binds!Named(c, kinds[i]) /\ n \in BindingName
    BY <2>1 DEF Binds!Named
  <2>3. \A j \in DOMAIN rows : (\E row \in rows[j] : row.name = n) <=> j = i
    BY <2>1, <2>2 DEF Binds!Named
  <2> QED
    BY <2>3
<1>2. \A i \in DOMAIN rows : \A row \in rows[i] : row.name \in names /\ row.type = c.kind[row.name]
  BY DEF Binds!Named
<1> QED
  BY <1>1, <1>2 DEF Binds!ListsEach

TypeKinds == <<"vars", "secrets", "kv", "d1", "r2", "queues", "analytics", "do", "services",
               "ratelimiters", "assets", "version_metadata">>

LEMMA TypesListed ==
  ASSUME NEW c \in Binds!Configurations
  PROVE  Binds!ListsEach(Binds!Entries(c), c, Binds!Bound(c))
<1> DEFINE rows == Binds!Entries(c)
<1>1. /\ DOMAIN rows = DOMAIN TypeKinds
      /\ \A i \in DOMAIN TypeKinds :
           rows[i] = {[name |-> n, type |-> TypeKinds[i], async |-> Binds!AsyncAt(c, TypeKinds[i])] :
                        n \in Binds!Named(c, TypeKinds[i])}
  BY DEF Binds!Entries, Binds!Entry, Binds!RowsOf, TypeKinds
<1>2. DOMAIN TypeKinds = 1..12
  BY DEF TypeKinds
<1>3. \A i, j \in DOMAIN TypeKinds : TypeKinds[i] = TypeKinds[j] => i = j
  BY <1>2 DEF TypeKinds
<1>4. \A k : k \in Binds!Kinds <=> \E i \in DOMAIN TypeKinds : k = TypeKinds[i]
  BY <1>2 DEF TypeKinds, Binds!Kinds, Binds!Lists, Binds!Stores
<1>5. Binds!None \notin Binds!Kinds
  BY DEF Binds!Kinds, Binds!Lists, Binds!Stores, Binds!None
<1>6. Binds!Bound(c) = {n \in BindingName : \E i \in DOMAIN TypeKinds : c.kind[n] = TypeKinds[i]}
  <2>1. \A n \in BindingName : c.kind[n] \in Binds!Kinds \cup {Binds!None}
    BY DEF Binds!Configurations
  <2> QED
    BY <1>4, <1>5, <2>1 DEF Binds!Bound
<1> HIDE DEF rows
<1>7. ASSUME NEW i \in DOMAIN TypeKinds
      PROVE  /\ \A row \in rows[i] : row.type = TypeKinds[i] /\ row.name \in Binds!Named(c, TypeKinds[i])
             /\ \A n \in Binds!Named(c, TypeKinds[i]) : \E row \in rows[i] : row.name = n
  <2> DEFINE Row(n) == [name |-> n, type |-> TypeKinds[i], async |-> Binds!AsyncAt(c, TypeKinds[i])]
  <2>1. rows[i] = {Row(n) : n \in Binds!Named(c, TypeKinds[i])}
    BY <1>1
  <2>2. \A n : Row(n).name = n /\ Row(n).type = TypeKinds[i]
    OBVIOUS
  <2> HIDE DEF Row
  <2> QED
    BY <2>1, <2>2
<1>8. DOMAIN rows = DOMAIN TypeKinds
  BY <1>1
<1>9. Binds!ListsEach(rows, c, Binds!Bound(c))
  BY <1>3, <1>6, <1>7, <1>8, OneRowEach
<1> QED
  BY <1>9 DEF rows

LEMMA AsyncStays ==
  ASSUME NEW c \in Binds!Configurations
  PROVE  Binds!AsyncLater(c, Binds!Entries(c))
<1> SUFFICES ASSUME NEW i \in DOMAIN Binds!Entries(c), NEW row \in Binds!Entries(c)[i],
                    NEW day \in Binds!Day, day >= c.day, row.async
             PROVE  \E j \in DOMAIN Binds!Entries([c EXCEPT !.day = day]) :
                      \E same \in Binds!Entries([c EXCEPT !.day = day])[j] :
                        same.name = row.name /\ same.async
  BY DEF Binds!AsyncLater
<1> DEFINE d == [c EXCEPT !.day = day]
<1>1. ASSUME NEW e \in {c, d}
      PROVE  /\ DOMAIN Binds!Entries(e) = DOMAIN TypeKinds
             /\ \A k \in DOMAIN TypeKinds :
                  Binds!Entries(e)[k] =
                    {[name |-> n, type |-> TypeKinds[k], async |-> Binds!AsyncAt(e, TypeKinds[k])] :
                       n \in Binds!Named(e, TypeKinds[k])}
  BY DEF Binds!Entries, Binds!Entry, Binds!RowsOf, TypeKinds
<1>2. d.day = day /\ d.kind = c.kind /\ c.day \in Nat /\ day \in Nat
  BY DEF Binds!Configurations, Binds!Day
<1> HIDE DEF d
<1>3. i \in DOMAIN TypeKinds /\ Binds!AsyncAt(c, TypeKinds[i])
      /\ row.name \in Binds!Named(c, TypeKinds[i])
  BY <1>1
<1>4. Binds!Named(d, TypeKinds[i]) = Binds!Named(c, TypeKinds[i])
  BY <1>2 DEF Binds!Named
<1>5. Binds!AsyncAt(d, TypeKinds[i])
  <2>1. TypeKinds[i] \in {"d1", "kv", "r2"} /\ c.day >= Binds!AsyncDay[TypeKinds[i]]
    BY <1>3 DEF Binds!AsyncAt, Binds!AsyncDay
  <2>2. Binds!AsyncDay[TypeKinds[i]] \in Nat
    BY <2>1 DEF Binds!AsyncDay
  <2>3. TypeKinds[i] \in DOMAIN Binds!AsyncDay
    BY <2>1 DEF Binds!AsyncDay
  <2> QED
    BY <1>2, <2>1, <2>2, <2>3 DEF Binds!AsyncAt
<1> DEFINE same == [name |-> row.name, type |-> TypeKinds[i], async |-> Binds!AsyncAt(d, TypeKinds[i])]
<1>6. same \in Binds!Entries(d)[i] /\ i \in DOMAIN Binds!Entries(d)
  BY <1>1, <1>3, <1>4
<1>7. same.name = row.name /\ same.async
  BY <1>5
<1> QED
  BY <1>6, <1>7 DEF d

ReportKinds == <<"vars", "kv", "secrets", "d1", "r2", "queues", "analytics", "do", "ratelimiters",
                 "cron", "assets">>

\* The report's rows, without those of crons.
Reports(c) == Binds!WithoutCrons(Binds!BindingRows(c))

LEMMA ReportRows ==
  ASSUME NEW c \in Binds!Configurations
  PROVE  /\ DOMAIN Reports(c) = 1..11 /\ DOMAIN ReportKinds = 1..11
         /\ \A i \in 1..11 :
              Reports(c)[i] = {[name |-> n, type |-> ReportKinds[i], stored |-> n \in c.ids] :
                                 n \in Binds!Named(c, ReportKinds[i])}
<1>1. DOMAIN ReportKinds = 1..11
  BY DEF ReportKinds
<1> DEFINE rows == Binds!BindingRows(c)
<1>2. /\ DOMAIN rows = 1..11
      /\ \A i \in 1..11 \ {10} :
           rows[i] = {[name |-> n, type |-> ReportKinds[i], stored |-> n \in c.ids] :
                        n \in Binds!Named(c, ReportKinds[i])}
      /\ \A row \in rows[10] : row.type = "cron"
  BY DEF Binds!BindingRows, Binds!RowsOf, ReportKinds
<1>3. Binds!Named(c, "cron") = {} /\ ReportKinds[10] = "cron"
  BY DEF Binds!Named, Binds!Configurations, Binds!Kinds, Binds!Lists, Binds!Stores, Binds!None, ReportKinds
<1>4. \A i \in 1..11 \ {10} : ReportKinds[i] # "cron"
  BY <1>1 DEF ReportKinds
<1> HIDE DEF rows
<1>5. DOMAIN Reports(c) = 1..11 /\ \A i \in 1..11 : Reports(c)[i] = {row \in rows[i] : row.type # "cron"}
  BY <1>2 DEF Reports, Binds!WithoutCrons, rows
<1>6. ASSUME NEW i \in 1..11
      PROVE  Reports(c)[i] = {[name |-> n, type |-> ReportKinds[i], stored |-> n \in c.ids] :
                                n \in Binds!Named(c, ReportKinds[i])}
  <2>1. CASE i = 10
    BY <1>2, <1>3, <1>5, <2>1
  <2>2. CASE i # 10
    BY <1>2, <1>4, <1>5, <2>2
  <2> QED
    BY <2>1, <2>2
<1> QED
  BY <1>1, <1>5, <1>6

LEMMA ReportRow ==
  ASSUME NEW c \in Binds!Configurations, NEW i \in 1..11
  PROVE  /\ \A row \in Reports(c)[i] : /\ row.type = ReportKinds[i] /\ row.name \in Binds!Named(c, ReportKinds[i])
                                       /\ row.stored <=> row.name \in c.ids
         /\ \A n \in Binds!Named(c, ReportKinds[i]) : \E row \in Reports(c)[i] : row.name = n
<1> DEFINE Row(n) == [name |-> n, type |-> ReportKinds[i], stored |-> n \in c.ids]
<1>1. Reports(c)[i] = {Row(n) : n \in Binds!Named(c, ReportKinds[i])}
  BY ReportRows
<1>2. \A n : Row(n).name = n /\ Row(n).type = ReportKinds[i] /\ (Row(n).stored <=> n \in c.ids)
  OBVIOUS
<1> HIDE DEF Row
<1> QED
  BY <1>1, <1>2

LEMMA ReportListed ==
  ASSUME NEW c \in Binds!Configurations
  PROVE  Binds!ListsEach(Reports(c), c, Binds!Reported(c))
<1>1. \A i, j \in DOMAIN ReportKinds : ReportKinds[i] = ReportKinds[j] => i = j
  BY ReportRows DEF ReportKinds
<1>2. \A k : k \in Binds!Kinds \ {"services", "version_metadata"}
               <=> k # "cron" /\ \E i \in DOMAIN ReportKinds : k = ReportKinds[i]
  BY ReportRows DEF ReportKinds, Binds!Kinds, Binds!Lists, Binds!Stores
<1>3. Binds!None \notin Binds!Kinds /\ Binds!None # "cron" /\ "cron" \notin Binds!Kinds
  BY DEF Binds!Kinds, Binds!Lists, Binds!Stores, Binds!None
<1>4. Binds!Reported(c) = {n \in BindingName : \E i \in DOMAIN ReportKinds : c.kind[n] = ReportKinds[i]}
  <2>1. \A n \in BindingName : c.kind[n] \in Binds!Kinds \cup {Binds!None}
    BY DEF Binds!Configurations
  <2>2. Binds!None \notin {ReportKinds[i] : i \in DOMAIN ReportKinds}
    BY ReportRows DEF ReportKinds, Binds!None
  <2> QED
    BY <1>2, <1>3, <2>1, <2>2 DEF Binds!Reported, Binds!Bound
<1>5. DOMAIN Reports(c) = DOMAIN ReportKinds
  BY ReportRows
<1>6. \A i \in DOMAIN ReportKinds :
        /\ \A row \in Reports(c)[i] : row.type = ReportKinds[i] /\ row.name \in Binds!Named(c, ReportKinds[i])
        /\ \A n \in Binds!Named(c, ReportKinds[i]) : \E row \in Reports(c)[i] : row.name = n
  BY ReportRows, ReportRow
<1> QED
  BY <1>1, <1>4, <1>5, <1>6, OneRowEach

LEMMA ListsAreRight ==
  ASSUME NEW q \in Binds!ListQuestions
  PROVE  Binds!BindingRight(q, Binds!BindingAnswer(q))
<1> DEFINE c == q.config
           a == Binds!BindingAnswer(q)
           All == Binds!AllRows(Reports(c))
<1>1. c \in Binds!Configurations /\ "file" \notin DOMAIN q
  BY DEF Binds!ListQuestions
<1>2. /\ a.types = Binds!Entries(c) /\ a.report = Binds!BindingRows(c)
      /\ a.manifest = Binds!ManifestBindings(c) /\ a.resources = Binds!Resources(c)
  BY <1>1 DEF Binds!BindingAnswer
<1>3. \A row \in All : /\ row.name \in BindingName /\ row.type = c.kind[row.name]
                       /\ row.stored <=> row.name \in c.ids
  <2> SUFFICES ASSUME NEW i \in 1..11, NEW row \in Reports(c)[i]
               PROVE  /\ row.name \in BindingName /\ row.type = c.kind[row.name]
                      /\ row.stored <=> row.name \in c.ids
    BY <1>1, ReportRows DEF Binds!AllRows
  <2> HIDE DEF c, All
  <2>1. /\ row.type = ReportKinds[i] /\ row.name \in Binds!Named(c, ReportKinds[i])
        /\ row.stored <=> row.name \in c.ids
    BY <1>1, ReportRow
  <2> QED
    BY <2>1 DEF Binds!Named
<1>4. \A n \in Binds!Reported(c) : \E row \in All : row.name = n
  BY <1>1, ReportListed DEF Binds!ListsEach, Binds!AllRows
<1> HIDE DEF a
<1>5. \A n \in Binds!Reported(c) : \A kind \in DOMAIN a.manifest :
        n \in a.manifest[kind] <=> \E row \in All : row.name = n /\ row.type = kind
  <2> SUFFICES ASSUME NEW n \in Binds!Reported(c), NEW kind \in Binds!Kinds \ {"version_metadata"}
               PROVE  n \in Binds!Named(c, kind) <=> \E row \in All : row.name = n /\ row.type = kind
    BY <1>2 DEF Binds!ManifestBindings
  <2>1. n \in BindingName
    BY DEF Binds!Reported, Binds!Bound
  <2> HIDE DEF All
  <2> QED
    BY <1>3, <1>4, <2>1 DEF Binds!Named
<1>6. \A n : n \in DOMAIN a.resources <=> n \in c.ids
  BY <1>1, <1>2 DEF Binds!Resources, Binds!Configurations
<1>7. \A row \in All : row.stored <=> row.name \in DOMAIN a.resources
  BY <1>3, <1>6
<1>8. \A n \in DOMAIN a.resources : n \in a.manifest[a.resources[n]]
  <2> SUFFICES ASSUME NEW n \in c.ids PROVE n \in a.manifest[a.resources[n]]
    BY <1>6
  <2>1. n \in BindingName /\ c.kind[n] \in Binds!Stores
    BY <1>1 DEF Binds!Configurations
  <2>2. a.resources[n] = c.kind[n]
    BY <1>2, <2>1 DEF Binds!Resources
  <2>3. c.kind[n] \in Binds!Kinds \ {"version_metadata"}
    BY <2>1 DEF Binds!Kinds, Binds!Lists, Binds!Stores
  <2> QED
    BY <1>2, <2>1, <2>2, <2>3 DEF Binds!ManifestBindings, Binds!Named
<1>9. Binds!ListsRight(c, a)
  <2>1. Reports(c) = Binds!WithoutCrons(a.report)
    BY <1>2 DEF Reports
  <2>2. /\ Binds!ListsEach(a.types, c, Binds!Bound(c)) /\ Binds!AsyncLater(c, a.types)
        /\ Binds!ListsEach(Reports(c), c, Binds!Reported(c))
    BY <1>1, <1>2, TypesListed, AsyncStays, ReportListed
  <2>3. Binds!ReportAgrees(c, All, a)
    BY <1>5, <1>7, <1>8 DEF Binds!ReportAgrees
  <2> QED
    BY <2>1, <2>2, <2>3 DEF Binds!ListsRight
<1> QED
  BY <1>1, <1>9 DEF Binds!BindingRight, a

\* Every configuration, where FileQuestions has those of one day without ids.
EveryTypesFile ==
  [config : Binds!Configurations, command : {"types", "dev"}, tsconfig : BOOLEAN,
   file : {"none", "older", "same"}]

LEMMA TypesFilesAreRight ==
  ASSUME NEW q \in EveryTypesFile
  PROVE  Binds!BindingRight(q, Binds!BindingAnswer(q))
<1> DEFINE wanted == << Binds!GenerateTypes(q.config) >>
           file == Binds!TypesFile(q)
           a == Binds!BindingAnswer(q)
<1>1. /\ "file" \in DOMAIN q /\ q.file \in {"none", "older", "same"}
      /\ q.command \in {"types", "dev"} /\ q.tsconfig \in BOOLEAN
  BY DEF EveryTypesFile
<1>2. a = Binds!RefreshTypes(q.command, file, q.tsconfig, q.config)
  BY <1>1 DEF Binds!BindingAnswer
<1>3. wanted # <<>> /\ (q.file = "none" <=> file = <<>>)
  BY <1>1 DEF Binds!TypesFile
<1> HIDE DEF wanted, file, a
<1>4. \/ a = [file |-> wanted, written |-> TRUE] /\ (q.command = "types" \/ file # wanted)
      \/ a = [file |-> file, written |-> FALSE] /\ (file = wanted \/ file = <<>>)
  BY <1>1, <1>2 DEF Binds!RefreshTypes, wanted
<1>5. /\ a.file \in {<<>>, wanted}
      /\ q.file # "none" => a.file # <<>>
      /\ a.written /\ q.command = "dev" => file # a.file
  BY <1>3, <1>4
<1> QED
  BY <1>1, <1>5 DEF Binds!BindingRight, Binds!FileRight, a, wanted, file

\* For any names, kinds, ids and days: every binding is in the types once, in
\* the report, if it belongs there, once, and under its kind in the manifest; what
\* has an id is in the resources; the file of types ends up to date (types-gen.ts,
\* report.ts, build.ts, refreshTypes).
THEOREM EveryBindingIsListed ==
  ASSUME NEW q \in Binds!ListQuestions \cup EveryTypesFile
  PROVE  Binds!BindingRight(q, Binds!BindingAnswer(q))
BY ListsAreRight, TypesFilesAreRight

LEMMA AskedBindings == Binds!BindingQuestions \subseteq Binds!ListQuestions \cup EveryTypesFile
<1>1. Binds!FileQuestions \subseteq EveryTypesFile
  BY DEF Binds!FileQuestions, EveryTypesFile
<1> QED
  BY <1>1 DEF Binds!BindingQuestions

(***************************************************************************)
(* What is asked and answered.                                             *)
(***************************************************************************)
\* A reply is the answer to the question.
Replied(module, asked, Answer(_)) ==
  \E q \in asked : question = <<module, q>> /\ reply \in {<<>>, <<Answer(q)>>}

AnswerInv ==
  \/ Replied("plan", Plans!PlanQuestions, Plans!PlanAnswer)
  \/ Replied("host", Hosts!HostQuestions, Hosts!HostAnswer)
  \/ Replied("project", Projects!ProjectQuestions, Projects!ProjectAnswer)
  \/ Replied("object", Restores!ObjectQuestions, Restores!ObjectAnswer)
  \/ Replied("handler", Handlers!HandlerQuestions, Handlers!HandlerAnswer)
  \/ Replied("bindings", Binds!BindingQuestions, Binds!BindingAnswer)

LEMMA AnswerInvHolds == AskSpec => []AnswerInv
<1>1. AskInit => AnswerInv
  BY DEF AskInit, AnswerInv, Replied
<1>2. AnswerInv /\ [GiveReply]_functionVars => AnswerInv'
  <2> SUFFICES ASSUME AnswerInv, [GiveReply]_functionVars PROVE AnswerInv'
    OBVIOUS
  <2>1. CASE GiveReply
    BY <2>1 DEF AnswerInv, Replied, GiveReply
  <2>2. CASE UNCHANGED functionVars
    BY <2>2 DEF AnswerInv, Replied, functionVars
  <2> QED
    BY <2>1, <2>2
<1> QED
  BY <1>1, <1>2, PTL DEF AskSpec

LEMMA AnsweredIs ==
  ASSUME AnswerInv
  PROVE  /\ Answered("plan") =>
              \E q \in Plans!PlanQuestions : question[2] = q /\ reply[1] = Plans!PlanAnswer(q)
         /\ Answered("host") =>
              \E q \in Hosts!HostQuestions : question[2] = q /\ reply[1] = Hosts!HostAnswer(q)
         /\ Answered("project") =>
              \E q \in Projects!ProjectQuestions :
                question[2] = q /\ reply[1] = Projects!ProjectAnswer(q)
         /\ Answered("object") =>
              \E q \in Restores!ObjectQuestions :
                question[2] = q /\ reply[1] = Restores!ObjectAnswer(q)
         /\ Answered("handler") =>
              \E q \in Handlers!HandlerQuestions :
                question[2] = q /\ reply[1] = Handlers!HandlerAnswer(q)
         /\ Answered("bindings") =>
              \E q \in Binds!BindingQuestions : question[2] = q /\ reply[1] = Binds!BindingAnswer(q)
  BY DEF AnswerInv, Replied, Answered

\* For any handlers, whichever of them reach crypto.subtle: no input of a compile
\* is missing from the key (build.ts, compileKey); KeyDetermines says so of every
\* build there is.
THEOREM KeysDetermine == AskSpec => []KeyDeterminesBinary
<1>1. AnswerInv => KeyDeterminesBinary
  <2> SUFFICES ASSUME AnswerInv, Answered("plan")
               PROVE  Plans!CachedRight(question[2], reply[1], Cached)
    BY DEF KeyDeterminesBinary
  <2>1. PICK q \in Plans!PlanQuestions : question[2] = q /\ reply[1] = Plans!PlanAnswer(q)
    BY AnsweredIs
  <2>2. Plans!CachedRight(q, Plans!PlanAnswer(q), EveryCompile)
    BY AskedBuilds, KeyDetermines
  <2>3. Cached \subseteq EveryCompile
    BY KeyDetermines DEF Cached
  <2> QED
    BY <2>1, <2>2, <2>3 DEF Plans!CachedRight
<1> QED
  BY <1>1, AnswerInvHolds, PTL

\* For any handlers, and any names in the compiled program of the restore: what a
\* manifest says of a binary is so, what is linked was put in place, and the
\* restore's object shares no name with the application (build.ts, compile.ts,
\* native-restore.ts).
THEOREM BuildsAreHonest == AskSpec => []BuildHonest
<1>1. AnswerInv => BuildHonest
  <2> SUFFICES ASSUME AnswerInv PROVE BuildHonest
    OBVIOUS
  <2>1. ASSUME Answered("plan")
        PROVE  /\ Plans!BuiltRight(question[2], reply[1])
               /\ Plans!LinksItsTree(question[2], reply[1])
    <3>1. PICK q \in Plans!PlanQuestions : question[2] = q /\ reply[1] = Plans!PlanAnswer(q)
      BY <2>1, AnsweredIs
    <3> QED
      BY <3>1, AskedBuilds, ManifestsAreTrue
  <2>2. ASSUME Answered("object") PROVE Restores!ObjectRight(question[2], reply[1])
    BY <2>2, AnsweredIs, ObjectsAreRight
  <2> QED
    BY <2>1, <2>2 DEF BuildHonest
<1> QED
  BY <1>1, AnswerInvHolds, PTL

\* On every machine, with every setting of the variables and every state of the
\* cache, the doctor shows what a build then uses (toolchain.ts, sqlite.ts,
\* bearssl.ts).
THEOREM DoctorIsTrue == AskSpec => []DoctorTrue
<1>1. AnswerInv => DoctorTrue
  BY AnsweredIs, DoctorIsRight DEF DoctorTrue
<1> QED
  BY <1>1, AnswerInvHolds, PTL

\* Every management command, wherever its user is logged in, asks the endpoint
\* that its token is for and says what has happened; a notice is of a newer
\* version (main.ts, api-version.ts, update-check.ts).
THEOREM CommandsAreHonest == AskSpec => []CommandsHonest
<1>1. AnswerInv => CommandsHonest
  BY AnsweredIs, ProjectIsRight DEF CommandsHonest
<1> QED
  BY <1>1, AnswerInvHolds, PTL

\* What TLC checks of handlers, with two imports or a mention, is so of them.
THEOREM HandlersBundle == AskSpec => []HandlersAgree
<1>1. AnswerInv => HandlersAgree
  BY AnsweredIs, AskedHandlers, EveryHandlerIsRight DEF HandlersAgree
<1> QED
  BY <1>1, AnswerInvHolds, PTL

\* For any names: what the run checks of the lists of bindings, and of the file of
\* types, is so of every question that is asked (types-gen.ts, report.ts, build.ts).
THEOREM BindingsAreListed == AskSpec => []BindingsListed
<1>1. AnswerInv => BindingsListed
  BY AnsweredIs, AskedBindings, EveryBindingIsListed DEF BindingsListed
<1> QED
  BY <1>1, AnswerInvHolds, PTL

==============================================================================
