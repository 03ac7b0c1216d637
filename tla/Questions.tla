------------------------------- MODULE Questions -------------------------------
(***************************************************************************)
(* The functions of the program that decide by themselves what a build is, *)
(* what the doctor says, what a management command asks, what the          *)
(* restore's object defines, what a handler's files are given and where a  *)
(* binding is listed: each is asked one question and answers it.           *)
(* What is so of the answers, for any handlers, is in QuestionsProofs; the *)
(* functions that read texts are beside these in CommandsMC.               *)
(***************************************************************************)
CONSTANTS
  Handler, Subtle,   \* see CompilePlan
  OwnName, OddName,  \* see RestoreBuild
  BindingName        \* see Bindings

Plans == INSTANCE CompilePlan
Hosts == INSTANCE HostTools
Projects == INSTANCE ProjectCommands
Restores == INSTANCE RestoreBuild
Handlers == INSTANCE HandlerImports
Binds == INSTANCE Bindings

VARIABLES
  question,  \* <<the module, what is asked>>
  reply      \* <<the answer>>, <<>> before it

functionVars == <<question, reply>>

AskInit ==
  /\ reply = <<>>
  /\ \/ \E q \in Plans!PlanQuestions : question = <<"plan", q>>
     \/ \E q \in Hosts!HostQuestions : question = <<"host", q>>
     \/ \E q \in Projects!ProjectQuestions : question = <<"project", q>>
     \/ \E q \in Restores!ObjectQuestions : question = <<"object", q>>
     \/ \E q \in Handlers!HandlerQuestions : question = <<"handler", q>>
     \/ \E q \in Binds!BindingQuestions : question = <<"bindings", q>>

GiveReply ==
  /\ reply = <<>>
  /\ \/ question[1] = "plan" /\ reply' = <<Plans!PlanAnswer(question[2])>>
     \/ question[1] = "host" /\ reply' = <<Hosts!HostAnswer(question[2])>>
     \/ question[1] = "project" /\ reply' = <<Projects!ProjectAnswer(question[2])>>
     \/ question[1] = "object" /\ reply' = <<Restores!ObjectAnswer(question[2])>>
     \/ question[1] = "handler" /\ reply' = <<Handlers!HandlerAnswer(question[2])>>
     \/ question[1] = "bindings" /\ reply' = <<Binds!BindingAnswer(question[2])>>
  /\ UNCHANGED question

AskSpec == AskInit /\ [][GiveReply]_functionVars

-----------------------------------------------------------------------------
Answered(module) == reply # <<>> /\ question[1] = module

\* No input of a compile is missing from the key of the compile cache: builds
\* with one key would compile the same.  build.ts, compileKey.
Cached == Plans!CachedCompiles
KeyDeterminesBinary == Answered("plan") => Plans!CachedRight(question[2], reply[1], Cached)

\* A manifest says of a binary what it is, whatever the channel, the target and
\* the environment; what is emitted is what would be compiled; what is linked is
\* what was put in place, and the restore's object shares no name with it.
\* build.ts, compile.ts, standalone-build.ts, native-restore.ts.
BuildHonest ==
  /\ Answered("plan") =>
       Plans!BuiltRight(question[2], reply[1]) /\ Plans!LinksItsTree(question[2], reply[1])
  /\ Answered("object") => Restores!ObjectRight(question[2], reply[1])

\* The doctor shows the tools a build uses, and says that what is there is ready
\* and what is not has to be acquired: toolchain.ts, sqlite.ts, bearssl.ts.
DoctorTrue == Answered("host") => Hosts!DoctorRight(question[2], reply[1])

\* A management command asks the endpoint that its token is for, changes what it
\* was asked to, and says what has happened; every command tells of newer versions
\* only: main.ts, api-version.ts, update-check.ts.
CommandsHonest == Answered("project") => Projects!ProjectRight(question[2], reply[1])

\* A handler's imports mean the same whatever the date, but for what the day of
\* sockets adds, and a dependency gets the free names it uses, each bound once:
\* bundle.ts, node-shims.ts.
HandlersAgree == Answered("handler") => Handlers!HandlerRight(question[2], reply[1])

\* A binding is in the types, the report and the manifest, once in each, and what
\* has an id is in the resources: types-gen.ts, report.ts, build.ts.
BindingsListed == Answered("bindings") => Binds!BindingRight(question[2], reply[1])

=============================================================================
