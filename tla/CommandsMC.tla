------------------------------ MODULE CommandsMC ------------------------------
(***************************************************************************)
(* Parts of the program that share no state, one of which moves in each    *)
(* behaviour while the others rest: the storage commands,                  *)
(* with-local-packages.ts, the downloads, the dispatcher of a restore, the *)
(* pruning of builds, the deployments of a standalone binary, the frames   *)
(* of a tail, and the functions, which are asked one question.             *)
(***************************************************************************)
EXTENDS KvContents, LocalPackages, Retries, RestoreCommand, PorfforBuilds, StandaloneDeploy,
        TailFrames, Questions, TLC

CONSTANTS PathChars, PathLength, PairLength, QueryKeys, QueryValues,
          MaxArguments

Shims == INSTANCE NodeShims
Args == INSTANCE CommandLine

-----------------------------------------------------------------------------
(* Values for the constants.                                               *)

\* One command reads and the other does everything else.
Duties == [c \in {"c1", "c2"} |->
  IF c = "c1" THEN {"export", "bulkGet", "keyGet"}
  ELSE {"create", "rename", "delete", "list", "info", "keyPut", "keyDelete", "keyList",
        "bulkPut", "bulkDelete"}]

BulkInputs == {<< <<1, "w">> >>, << <<3, "w">>, <<1, "w">> >>, << <<2, "v">>, <<2, "w">> >>}

Packages == <<"p", "q">>
Wanted == {<<"p">>, <<"p", "q">>, <<"p", "p">>}

Keyed == {<<>>, <<"k">>, <<"&", "=">>}
Valued == {<<>>, <<"+">>, <<"=", "v">>}

\* Digits, a character before "0" and one after "9".
Digits == UNION {[1..n -> {0, 1, 2, 5, 6, 9, 10}] : n \in 0..3}

Arg(n) == [name |-> n, text |-> <<10>>]
Text(t) == [name |-> "value", text |-> t]

RestoreLines ==
  {<<>>, <<Text(<<1>>)>>, <<Arg("ltx-restore"), Arg("--help")>>,
   <<Arg("ltx-restore"), Arg("--help"), Arg("--help")>>}
  \cup {<<Arg("ltx-restore")>> \o s :
          s \in UNION {[1..n -> {Arg("--generation"), Arg("--output"), Arg("long value"),
                                 Text(<<>>), Text(<<6>>)}] : n \in 0..4}}
  \cup {<<Arg("ltx-restore"), Arg("--txid"), Text(t), Arg("--output"), Text(<<1>>),
          Arg("--generation"), Text(<<1>>)>> : t \in Digits}

\* Up to four lines, and a line that has not ended; and one event.
LineKinds == {<<>>, <<"data", ":", "a">>, <<"data", ":", " ", "e1", "e2">>, <<"data", ":">>,
              <<":", "a">>}
EventBody == <<"data", ":", "a", Newline, "data", ":", "e1", "e2", Newline, Newline>>
Bodies ==
  {EventBody}
  \cup {FlattenSeq([i \in DOMAIN lines |-> Append(lines[i], Newline)]) \o rest :
          lines \in UNION {[1..n -> LineKinds] : n \in 0..4}, rest \in {<<>>, <<"data", ":", "e1">>}}

\* Events of which up to two fields are not as they should be.
WholeEvent == [outcome |-> "string", time |-> "number", response |-> "object", status |-> "number",
               name |-> "string", cpu |-> "number"]
OddEvents == {v \in Events : Cardinality({field \in DOMAIN v : v[field] # WholeEvent[field]}) <= 2}

-----------------------------------------------------------------------------
VARIABLE part   \* the part that moves

\* The functions of Questions, and those that read texts.
FunctionInit ==
  \/ AskInit
  \/ /\ reply = <<>>
     /\ \/ \E q \in Shims!ShimQuestions : question = <<"shims", q>>
        \/ \E q \in Args!CommandQuestions : question = <<"line", q>>

Reply ==
  \/ GiveReply
  \/ /\ reply = <<>>
     /\ \/ question[1] = "shims" /\ reply' = <<Shims!ShimAnswer(question[2])>>
        \/ question[1] = "line" /\ reply' = <<Args!CommandAnswer(question[2])>>
     /\ UNCHANGED question

\* No step tells one name or one namespace from another, so which is there at the
\* start makes no difference.
KvStarts == KvInit /\ nsName = CHOOSE names \in [Namespace -> NsName \cup {NoValue}] :
              Cardinality({ns \in Namespace : names[ns] # NoValue}) = 1

\* One initial state of each part.
KvRests == KvStarts /\ dest = NoValue
RetryRests == RetryInit /\ call = "healthy" /\ upAt = 0
RestoreRests == RestoreInit /\ argv = <<>>
PruneRests == PruneInit /\ \A d \in BuildDir : used[d] = 0
StandaloneRests == StandaloneInit /\ recipe = Docker
FramesRest == body = <<>> /\ carried = WholeEvent /\ FramesInit
FunctionRests == question = <<>> /\ reply = <<>>

MCInit ==
  \/ part = "kv" /\ KvStarts /\ PackagesInit /\ RetryRests /\ RestoreRests /\ PruneRests /\ StandaloneRests /\ FramesRest /\ FunctionRests
  \/ part = "packages" /\ KvRests /\ PackagesInit /\ RetryRests /\ RestoreRests /\ PruneRests /\ StandaloneRests /\ FramesRest /\ FunctionRests
  \/ part = "retry" /\ KvRests /\ PackagesInit /\ RetryInit /\ RestoreRests /\ PruneRests /\ StandaloneRests /\ FramesRest /\ FunctionRests
  \/ part = "restore" /\ KvRests /\ PackagesInit /\ RetryRests /\ RestoreInit /\ PruneRests /\ StandaloneRests /\ FramesRest /\ FunctionRests
  \/ part = "prune" /\ KvRests /\ PackagesInit /\ RetryRests /\ RestoreRests /\ PruneInit /\ StandaloneRests /\ FramesRest /\ FunctionRests
  \/ part = "standalone" /\ KvRests /\ PackagesInit /\ RetryRests /\ RestoreRests /\ PruneRests /\ StandaloneInit /\ FramesRest /\ FunctionRests
  \/ part = "frames" /\ KvRests /\ PackagesInit /\ RetryRests /\ RestoreRests /\ PruneRests /\ StandaloneRests
       /\ (carried = WholeEvent \/ (body = EventBody /\ carried \in OddEvents)) /\ FramesInit /\ FunctionRests
  \/ part = "function" /\ KvRests /\ PackagesInit /\ RetryRests /\ RestoreRests /\ PruneRests /\ StandaloneRests /\ FramesRest /\ FunctionInit

MCNext ==
  /\ UNCHANGED part
  /\ \/ part = "kv" /\ KvNext /\ UNCHANGED <<packageVars, retryVars, restoreVars, pruneVars, standaloneVars, frameVars, functionVars>>
     \/ part = "packages" /\ PackagesNext /\ UNCHANGED <<kvVars, retryVars, restoreVars, pruneVars, standaloneVars, frameVars, functionVars>>
     \/ part = "retry" /\ RetryNext /\ UNCHANGED <<kvVars, packageVars, restoreVars, pruneVars, standaloneVars, frameVars, functionVars>>
     \/ part = "restore" /\ RestoreNext /\ UNCHANGED <<kvVars, packageVars, retryVars, pruneVars, standaloneVars, frameVars, functionVars>>
     \/ part = "prune" /\ PruneNext /\ UNCHANGED <<kvVars, packageVars, retryVars, restoreVars, standaloneVars, frameVars, functionVars>>
     \/ part = "standalone" /\ StandaloneNext /\ UNCHANGED <<kvVars, packageVars, retryVars, restoreVars, pruneVars, frameVars, functionVars>>
     \/ part = "frames" /\ FramesNext /\ UNCHANGED <<kvVars, packageVars, retryVars, restoreVars, pruneVars, standaloneVars, functionVars>>
     \/ part = "function" /\ Reply /\ UNCHANGED <<kvVars, packageVars, retryVars, restoreVars, pruneVars, standaloneVars, frameVars>>

MCSpec ==
  MCInit /\ [][MCNext]_<<part, kvVars, packageVars, retryVars, restoreVars, pruneVars, standaloneVars, frameVars, functionVars>>

-----------------------------------------------------------------------------
\* What a compiled handler gets of node:path, node:querystring and node:url is
\* what the definitions over segments, pairs and components say, and a dependency
\* gets what it imports and the free names it uses, each bound once:
\* node-shims.ts, bundle.ts.
ShimsAgree ==
  /\ Answered("shims") => Shims!ShimRight(question[2], reply[1])
  /\ HandlersAgree

\* Every line the grammar has is read as it is meant, in whatever order its
\* options, flags and operands come: main.ts, tail.ts, with-local-packages.ts.
\* A deploy is excepted, see DeployArgumentsAgree.
ArgumentsAgree ==
  Answered("line") /\ question[2].form.words # <<"deploy">> => Args!CommandRight(question[2], reply[1])

\* `sproutboat deploy [project-dir] [--artifact <dir>] ...`, as surface.ts has
\* it: the directory is the argument that is neither flag nor --artifact's.
DeployArgumentsAgree ==
  Answered("line") /\ question[2].form.words = <<"deploy">> => Args!CommandRight(question[2], reply[1])

=============================================================================
