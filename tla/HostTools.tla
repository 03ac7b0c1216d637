------------------------------ MODULE HostTools ------------------------------
(***************************************************************************)
(* What `sproutboat toolchain doctor` says a build will use, and what a    *)
(* build then uses: toolchain.ts, sqlite.ts and bearssl.ts decide it       *)
(* separately, from the same environment and the same directories.         *)
(***************************************************************************)
EXTENDS FiniteSets

Missing == "missing"

\* An environment variable that names a program: "" is a value, and what is
\* named may not be there.
Variable == {"unset", "", "good", "bad"}

\* `x ? ... : ...` and `x ?? ...`
Truthy(variable) == variable \in {"good", "bad"}

\* Directories of the toolchain cache: a damaged one lacks something that is
\* verified before it is used.
DirState == {"absent", "damaged", "whole"}

Environments ==
  [zig : Variable, cc : Variable, ar : Variable,
   supported : BOOLEAN,             \* the host has a pinned Zig
   onPath : SUBSET {"cc", "ar"},    \* programs found without a variable
   cache : {"home", "elsewhere"},   \* SPROUTBOAT_TOOLCHAIN_CACHE
   zigDir : DirState, sources : DirState]

PlatformKey(env) == IF env.supported THEN "arch-os" ELSE Missing

\* The directory of a tool, and the one of SQLite's or BearSSL's sources.
ZigDir(env) == <<env.cache, "zig", PlatformKey(env)>>
SourcesDir(env) == <<env.cache, "sources">>

-----------------------------------------------------------------------------
(* The doctor.                                                             *)

\* Mutant: the doctor looks in the cache, whatever SPROUTBOAT_ZIG says.
ZigPathInCache(env) ==
  CASE env.supported -> ZigDir(env)
    [] ~env.supported -> <<Missing>>

ZigPath(env) ==
  CASE Truthy(env.zig) -> <<"override", env.zig>>
    [] ~Truthy(env.zig) /\ env.supported -> ZigDir(env)
    [] ~Truthy(env.zig) /\ ~env.supported -> <<Missing>>

ZigPresent(env) ==
  IF Truthy(env.zig) THEN env.zig = "good" ELSE env.supported /\ env.zigDir # "absent"

\* Bun.which(variable ?? name): an empty name is nowhere.
Which(variable, name, env) ==
  CASE variable = "unset" -> IF name \in env.onPath THEN name ELSE Missing
    [] variable = "good" -> "good"
    [] variable \in {"", "bad"} -> Missing

InspectToolchain(env) ==
  [zig |-> ZigPath(env), zigPresent |-> ZigPresent(env),
   sources |-> SourcesDir(env), sourcesPresent |-> env.sources # "absent",
   cc |-> Which(env.cc, "cc", env), ar |-> Which(env.ar, "ar", env)]

-----------------------------------------------------------------------------
(* A build.                                                                *)

\* The override is taken if it exists; a tree is taken if it is whole, and
\* else there has to be a new one.
EnsureZig(env) ==
  CASE env.zig = "good" -> [path |-> <<"override", env.zig>>, acquired |-> FALSE]
    [] env.zig = "bad" -> [path |-> <<Missing>>, acquired |-> FALSE]
    [] ~Truthy(env.zig) /\ ~env.supported -> [path |-> <<Missing>>, acquired |-> FALSE]
    [] ~Truthy(env.zig) /\ env.supported -> [path |-> ZigDir(env), acquired |-> env.zigDir # "whole"]

EnsureSources(env) == [path |-> SourcesDir(env), acquired |-> env.sources # "whole"]

\* The machine's own compiler and archiver if it has both, and else Zig's.
HostCompiler(env) ==
  LET have(variable, name) == Truthy(variable) \/ name \in env.onPath
      named(variable, name) == IF Truthy(variable) THEN variable ELSE name
  IN IF have(env.cc, "cc") /\ have(env.ar, "ar")
     THEN [usingZig |-> FALSE, cc |-> named(env.cc, "cc"), ar |-> named(env.ar, "ar")]
     ELSE [usingZig |-> TRUE, cc |-> "zig", ar |-> "zig"]

-----------------------------------------------------------------------------
HostQuestions == Environments

HostAnswer(env) ==
  [doctor |-> InspectToolchain(env), zig |-> EnsureZig(env), sources |-> EnsureSources(env),
   host |-> HostCompiler(env)]

\* The path that is shown is the one a build takes.
PathsAgree(a) ==
  /\ a.zig.path # <<Missing>> => a.doctor.zig = a.zig.path
  /\ a.doctor.zig = <<Missing>> => a.zig.path = <<Missing>>
  /\ a.doctor.sources = a.sources.path

\* What is ready is not acquired again, unless it is damaged, and what is not
\* ready is acquired or the build fails.
ReadyIsReady(env, a) ==
  /\ a.doctor.zigPresent /\ ("damaged" # env.zigDir \/ Truthy(env.zig)) =>
       a.zig.path # <<Missing>> /\ ~a.zig.acquired
  /\ ~a.doctor.zigPresent => a.zig.path = <<Missing>> \/ a.zig.acquired
  /\ ~a.doctor.sourcesPresent => a.sources.acquired

\* A compiler and an archiver are shown if and only if a host build uses the
\* system's and finds them.  (Variables that are set but empty are excepted: they
\* are unset for a build, and missing for the doctor.)
CompilerShown(env, a) ==
  env.cc # "" /\ env.ar # "" =>
    (a.doctor.cc # Missing /\ a.doctor.ar # Missing <=>
       /\ ~a.host.usingZig
       /\ a.host.cc # "bad" /\ a.host.ar # "bad"
       /\ a.host.cc = a.doctor.cc /\ a.host.ar = a.doctor.ar)

DoctorRight(env, a) == PathsAgree(a) /\ ReadyIsReady(env, a) /\ CompilerShown(env, a)

=============================================================================
