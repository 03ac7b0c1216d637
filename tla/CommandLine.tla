------------------------------ MODULE CommandLine ------------------------------
(***************************************************************************)
(* How main.ts, tail.ts and scripts/with-local-packages.ts read their      *)
(* arguments.  Each command has its own way: most look flags up wherever   *)
(* they stand, some walk the arguments, some take them from the front.     *)
(* They are checked against one reading of the grammar that surface.ts     *)
(* and the usage lines document.                                           *)
(***************************************************************************)
EXTENDS Naturals, Sequences, SequencesExt, FiniteSets, FiniteSetsExt, TLC

CONSTANT MaxArguments  \* of a command, after the words that name it

Nobody == "none"

\* What arguments are read as: the operation, its operands in order, the
\* values given to options, and the flags.
Plain(verb) == [verb |-> verb, operands |-> <<>>, values |-> {}, flags |-> {}]

\* usageError, fail or an error of parseTailArgs: nothing is done.
Misuse == Plain(<<"usage">>)

Dashed(t) == t \in {"--target", "--standalone", "--with-restore", "--deploy-files", "--emit-only",
  "--port", "--no-watch", "--artifact", "--dry-run", "--no-wait", "--no-provision", "--api-url",
  "--token", "--status", "--search", "--search=x", "--recent", "--sprout", "--value", "--name",
  "--yes", "-y", "--prefix", "--cursor", "--text", "--output", "--force", "--path", "--json",
  "--only", "--", "-h", "--help"}

\* indexOf, from 1: 0 where the code has -1.
Index(args, t) == IF t \in ToSet(args) THEN Min({i \in DOMAIN args : args[i] = t}) ELSE 0
Nth(args, i) == IF i \in DOMAIN args THEN args[i] ELSE Nobody
From(args, i) == SubSeq(args, i, Len(args))

\* find: the first argument that passes, as operands.
Found(args, Passes(_, _)) ==
  LET at == {i \in DOMAIN args : Passes(i, args[i])}
  IN IF at = {} THEN <<>> ELSE <<args[Min(at)]>>

Option(args, name) == IF Index(args, name) = 0 THEN Nobody ELSE Nth(args, Index(args, name) + 1)

Given(args, names) == {<<n, Option(args, n)>> : n \in {n \in names : Option(args, n) # Nobody}}

FlagsOf(args, names) == names \cap ToSet(args)

Optional(args, i) == IF Nth(args, i) = Nobody THEN <<>> ELSE <<args[i]>>

-----------------------------------------------------------------------------
(* Commands that look their flags up.                                      *)

\* What parseTarget knows; "x", which is a directory elsewhere, stands for every
\* spelling of linux-x86_64.
Targets == {"x", "host", "linux-arm64"}

\* Mutant: what follows a --target that is not there is left out too.
BuildArgumentsSkipFirst(args) ==
  LET at == Index(args, "--target")
      flags == FlagsOf(args, {"--standalone", "--with-restore", "--deploy-files", "--emit-only"})
  IN [verb |-> <<"build">>,
      operands |-> Found(args, LAMBDA i, t : ~Dashed(t) /\ i # at + 1),
      values |-> Given(args, {"--target"}), flags |-> flags]

BuildArguments(args) ==
  LET at == Index(args, "--target")
      flags == FlagsOf(args, {"--standalone", "--with-restore", "--deploy-files", "--emit-only"})
      target == IF at = 0 THEN "x" ELSE Nth(args, at + 1)
  IN IF \/ "--with-restore" \in flags /\ ("--standalone" \notin flags \/ "--emit-only" \in flags)
        \/ target \notin Targets
        \/ ("--deploy-files" \in flags \/ target = "linux-arm64") /\ "--standalone" \notin flags
        \/ "--deploy-files" \in flags /\ target = "host"
     THEN Misuse
     ELSE [verb |-> <<"build">>,
           operands |-> Found(args, LAMBDA i, t : ~Dashed(t) /\ (at = 0 \/ i # at + 1)),
           values |-> Given(args, {"--target"}), flags |-> flags]

Numbers == {"80"}

\* A number is never the directory, whatever it follows.
DevArguments(args) ==
  IF Option(args, "--port") \notin Numbers \cup {Nobody} THEN Misuse
  ELSE [verb |-> <<"dev">>,
        operands |-> Found(args, LAMBDA i, t : ~Dashed(t) /\ t \notin Numbers),
        values |-> Given(args, {"--port"}), flags |-> FlagsOf(args, {"--no-watch"})]

\* Without --artifact its place is 0, and the argument after it the first.
DeployArguments(args) ==
  LET at == Index(args, "--artifact")
  IN IF at # 0 /\ Nth(args, at + 1) = Nobody THEN Misuse
     ELSE [verb |-> <<"deploy">>,
           operands |-> Found(args, LAMBDA i, t : ~Dashed(t) /\ i # at + 1),
           values |-> Given(args, {"--artifact"}),
           flags |-> FlagsOf(args, {"--dry-run", "--no-wait", "--no-provision"})]

ToolchainArguments(args) ==
  IF Nth(args, 1) # "doctor" \/ \E i \in 2..Len(args) : args[i] # "--json" THEN Misuse
  ELSE [Plain(<<"toolchain", "doctor">>) EXCEPT !.flags = FlagsOf(args, {"--json"})]

-----------------------------------------------------------------------------
(* Commands that walk their arguments.                                     *)

Plus(read, operands, values, flags) ==
  IF read = Misuse THEN Misuse
  ELSE [read EXCEPT !.operands = operands \o @, !.values = values \cup @, !.flags = flags \cup @]

\* Wrong(t) refuses an argument that is neither option nor flag.
Walk(verb, args, options, flags, Wrong(_)) ==
  LET read[i \in 1..(Len(args) + 2)] ==
        CASE i > Len(args) -> Plain(verb)
          [] i <= Len(args) /\ args[i] \in flags -> Plus(read[i + 1], <<>>, {}, {args[i]})
          [] i <= Len(args) /\ args[i] \in options ->
               Plus(read[i + 2], <<>>, IF i = Len(args) THEN {} ELSE {<<args[i], args[i + 1]>>}, {})
          [] OTHER -> IF Wrong(args[i]) THEN Misuse ELSE Plus(read[i + 1], <<args[i]>>, {}, {})
  IN read[1]

\* In pairs: an option without a value is refused like any other word.
LoginArguments(args) ==
  IF Len(args) % 2 = 1 THEN Misuse
  ELSE Walk(<<"login">>, args, {"--api-url", "--token"}, {}, LAMBDA t : TRUE)

DeleteArguments(args) ==
  LET read == Walk(<<"delete">>, args, {"--name"}, {"--yes", "-y"}, Dashed)
  IN IF read.flags = {} THEN Misuse ELSE read

\* Any other argument is a name or the directory.
SecretsArguments(args) ==
  LET named == Nth(args, 1) \in {"list", "put", "delete"}
      verb == IF named THEN args[1] ELSE "list"
      read == Walk(<<"secrets", verb>>, IF named THEN From(args, 2) ELSE args, {"--value"}, {},
                   LAMBDA t : FALSE)
  IN IF verb # "list" /\ read.operands = <<>> THEN Misuse ELSE read

\* "--search=x" is the flag and its value in one argument.
Unpacked(args) ==
  FlattenSeq([i \in DOMAIN args |-> IF args[i] = "--search=x" THEN <<"--search", "x">> ELSE <<args[i]>>])

TailArguments(args) ==
  LET read == Walk(<<"tail">>, Unpacked(args), {"--status", "--search"}, {"--recent", "--sprout"}, Dashed)
  IN IF \/ Len(read.operands) > 1 \/ \E v \in read.values : Dashed(v[2])
        \/ Nth(args, Len(args)) \in {"--status", "--search"}
        \/ {"--recent", "--sprout"} \subseteq read.flags
        \/ read.flags # {} /\ read.values # {}
     THEN Misuse ELSE read

\* with-local-packages.ts: ours before the first "--", the command after it.
LocalPackagesArguments(args) ==
  LET at == Index(args, "--")
      read == Walk(<<"local">>, SubSeq(args, 1, at - 1), {"--only"}, {}, Dashed)
  IN IF at = 0 \/ at = Len(args) \/ Len(read.operands) # 1 THEN Misuse
     ELSE [read EXCEPT !.operands = @ \o From(args, at + 1)]

-----------------------------------------------------------------------------
(* Commands that take their arguments from the front.                      *)

VersionsArguments(args) ==
  CASE Nth(args, 1) = "list" -> [Plain(<<"versions", "list">>) EXCEPT !.operands = Optional(args, 2)]
    [] Nth(args, 1) = "view" /\ Nth(args, 2) # Nobody ->
         [Plain(<<"versions", "view">>) EXCEPT !.operands = <<args[2]>> \o Optional(args, 3)]
    [] OTHER -> Misuse

RollbackArguments(args) ==
  IF args = <<>> THEN Misuse
  ELSE [Plain(<<"rollback">>) EXCEPT !.operands = <<args[1]>> \o Optional(args, 2)]

DomainsArguments(args) ==
  LET verb == IF Nth(args, 1) \in {"list", "add", "verify", "delete"} THEN args[1] ELSE "list"
      rest == IF Nth(args, 1) = verb THEN From(args, 2) ELSE args
  IN CASE verb = "list" -> [Plain(<<"domains", verb>>) EXCEPT !.operands = Optional(rest, 1)]
       [] verb # "list" /\ rest = <<>> -> Misuse
       [] OTHER -> [Plain(<<"domains", verb>>) EXCEPT !.operands = <<rest[1]>> \o Optional(rest, 2)]

StorageArguments(product, args) ==
  LET verb == IF Nth(args, 1) \in {"list", "create", "info", "rename", "delete"} THEN args[1] ELSE "list"
      read == Plain(<<product, verb>>)
  IN CASE verb = "list" -> read
       [] verb = "rename" -> IF Len(args) < 3 THEN Misuse ELSE [read EXCEPT !.operands = SubSeq(args, 2, 3)]
       [] OTHER -> IF Len(args) < 2 THEN Misuse ELSE [read EXCEPT !.operands = <<args[2]>>]

\* kv key <verb> <namespace> <key>: rest are the flags, and the value of a put.
KvKeyArguments(verb, args) ==
  LET key == Nth(args, 2)
      rest == From(args, IF verb = "list" THEN 2 ELSE 3)
      read == [Plain(<<"kv", "key", verb>>) EXCEPT
                 !.operands = <<args[1]>> \o IF verb = "list" THEN <<>> ELSE <<key>>]
      value == Found(rest, LAMBDA i, t : ~Dashed(t) /\ Nth(rest, i - 1) # "--path")
      path == Given(rest, {"--path"})
  IN CASE verb = "list" -> [read EXCEPT !.values = Given(rest, {"--prefix", "--cursor"})]
       [] verb # "list" /\ key = Nobody -> Misuse
       [] verb = "get" /\ key # Nobody -> [read EXCEPT !.values = Given(rest, {"--output"}),
                                                        !.flags = FlagsOf(rest, {"--text", "--force"})]
       [] verb = "put" /\ key # Nobody -> IF value # <<>> /\ path # {} THEN Misuse
                                          ELSE [read EXCEPT !.operands = @ \o value, !.values = path]
       [] verb = "delete" /\ key # Nobody -> IF "--yes" \in ToSet(rest)
                                             THEN [read EXCEPT !.flags = {"--yes"}] ELSE Misuse

KvBulkArguments(verb, args) ==
  LET rest == From(args, 3)
  IN IF Len(args) < 2 \/ (verb = "delete" /\ "--yes" \notin ToSet(rest)) THEN Misuse
     ELSE [verb |-> <<"kv", "bulk", verb>>, operands |-> SubSeq(args, 1, 2),
           values |-> Given(rest, {"--output"}), flags |-> FlagsOf(rest, {"--force", "--yes"})]

KvArguments(args) ==
  CASE args[1] = "export" ->
         LET rest == From(args, 3) IN
         IF Nth(args, 2) = Nobody \/ Option(rest, "--output") = Nobody THEN Misuse
         ELSE [verb |-> <<"kv", "export">>, operands |-> <<args[2]>>,
               values |-> Given(rest, {"--output", "--prefix"}), flags |-> FlagsOf(rest, {"--force"})]
    [] args[1] # "export" /\ Nth(args, 3) = Nobody -> Misuse
    [] args[1] = "key" /\ Nth(args, 3) # Nobody ->
         IF args[2] \notin {"list", "get", "put", "delete"} THEN Misuse
         ELSE KvKeyArguments(args[2], From(args, 3))
    [] args[1] = "bulk" /\ Nth(args, 3) # Nobody ->
         IF args[2] \notin {"get", "put", "delete"} THEN Misuse
         ELSE KvBulkArguments(args[2], From(args, 3))

-----------------------------------------------------------------------------
\* The switch over the command; help is asked for anywhere.
Dispatch(argv) ==
  LET command == Nth(argv, 1)
      args == From(argv, 2)
      Single(verb) == [Plain(verb) EXCEPT !.operands = Optional(args, 1)]
  IN CASE command \in {Nobody, "help", "-h", "--help"} -> Plain(<<"help">>)
       [] command \notin {Nobody, "help", "-h", "--help"} /\ ToSet(args) \cap {"-h", "--help"} # {} ->
            Plain(<<"help", command>>)
       [] OTHER ->
            CASE command \in {"init", "check", "types", "complete"} -> Single(<<command>>)
              [] command = "dev" -> DevArguments(args)
              [] command = "build" -> BuildArguments(args)
              [] command = "toolchain" -> ToolchainArguments(args)
              [] command = "login" -> LoginArguments(args)
              [] command = "logout" -> [LoginArguments(args) EXCEPT !.verb = IF @ = <<"usage">> THEN @ ELSE <<command>>]
              [] command = "whoami" -> Plain(<<command>>)
              [] command = "deploy" -> DeployArguments(args)
              [] command = "versions" -> VersionsArguments(args)
              [] command = "rollback" -> RollbackArguments(args)
              [] command = "domains" -> DomainsArguments(args)
              [] command = "secrets" -> SecretsArguments(args)
              [] command = "kv" /\ Nth(args, 1) \in {"key", "bulk", "export"} -> KvArguments(args)
              [] command \in {"d1", "r2", "queues"} \/
                   (command = "kv" /\ Nth(args, 1) \notin {"key", "bulk", "export"}) ->
                   StorageArguments(command, args)
              [] command = "tail" -> TailArguments(args)
              [] command = "delete" -> DeleteArguments(args)
              [] command = "local" -> LocalPackagesArguments(args)
              [] OTHER -> Misuse

-----------------------------------------------------------------------------
(* The grammar.  A form of a command: the words that name it, how many     *)
(* operands come first, how many there are at least and at most, its       *)
(* options and flags, and which of these it needs.                         *)

Form(words, first, least, most, options, flags, needs) ==
  [words |-> words, first |-> first, least |-> least, most |-> most,
   options |-> options, flags |-> flags, needs |-> needs]

Bare(words, least, most) == Form(words, least, least, most, {}, {}, {})

Products == {"kv", "d1", "r2", "queues"}

Forms ==
  {Bare(<<c>>, 0, 1) : c \in {"init", "check", "types", "complete", "domains", "secrets"}}
  \cup {Bare(<<c, "list">>, 0, 1) : c \in {"versions", "domains", "secrets"}}
  \cup {Bare(<<"domains", verb>>, 1, 2) : verb \in {"add", "verify", "delete"}}
  \cup {Bare(<<"whoami">>, 0, 0), Bare(<<"rollback">>, 1, 2), Bare(<<"versions", "view">>, 1, 2),
        Bare(<<"secrets", "delete">>, 1, 2)}
  \cup {Bare(<<p, "list">>, 0, 0) : p \in Products}
  \cup {Bare(<<p, verb>>, 1, 1) : p \in Products, verb \in {"create", "info", "delete"}}
  \cup {Bare(<<p, "rename">>, 2, 2) : p \in Products}
  \cup {Form(<<"dev">>, 0, 0, 1, {"--port"}, {"--no-watch"}, {}),
        Form(<<"build">>, 0, 0, 1, {"--target"}, {"--standalone", "--emit-only"}, {}),
        Form(<<"build">>, 0, 0, 1, {"--target"},
             {"--standalone", "--with-restore", "--deploy-files"}, {"--standalone"}),
        Form(<<"deploy">>, 0, 0, 1, {"--artifact"}, {"--dry-run", "--no-wait", "--no-provision"}, {}),
        Form(<<"toolchain", "doctor">>, 0, 0, 0, {}, {"--json"}, {}),
        Form(<<"login">>, 0, 0, 0, {"--api-url", "--token"}, {}, {}),
        Form(<<"logout">>, 0, 0, 0, {"--api-url"}, {}, {}),
        Form(<<"tail">>, 0, 0, 1, {"--status", "--search"}, {}, {}),
        Form(<<"tail">>, 0, 0, 1, {}, {"--recent"}, {"--recent"}),
        Form(<<"tail">>, 0, 0, 1, {}, {"--sprout"}, {"--sprout"}),
        Form(<<"delete">>, 0, 0, 1, {"--name"}, {"--yes"}, {"--yes"}),
        Form(<<"secrets", "put">>, 0, 1, 2, {"--value"}, {}, {}),
        Form(<<"local">>, 0, 1, 1, {"--only"}, {}, {}),
        Form(<<"kv", "key", "list">>, 1, 1, 1, {"--prefix", "--cursor"}, {}, {}),
        Form(<<"kv", "key", "get">>, 2, 2, 2, {"--output"}, {"--text", "--force"}, {}),
        Form(<<"kv", "key", "put">>, 2, 2, 3, {}, {}, {}),
        Form(<<"kv", "key", "put">>, 2, 2, 2, {"--path"}, {}, {"--path"}),
        Form(<<"kv", "key", "delete">>, 2, 2, 2, {}, {"--yes"}, {"--yes"}),
        Form(<<"kv", "bulk", "get">>, 2, 2, 2, {"--output"}, {"--force"}, {}),
        Form(<<"kv", "bulk", "put">>, 2, 2, 2, {"--output"}, {"--force"}, {}),
        Form(<<"kv", "bulk", "delete">>, 2, 2, 2, {}, {"--yes"}, {"--yes"}),
        Form(<<"kv", "export">>, 1, 1, 1, {"--output", "--prefix"}, {"--force"}, {"--output"})}

\* No verb means to list.
VerbOf(form) == IF form.words \in {<<"domains">>, <<"secrets">>} THEN Append(form.words, "list") ELSE form.words

\* What may follow an option.
ValuesOf(option) ==
  CASE option = "--port" -> Numbers [] option = "--target" -> Targets [] OTHER -> {"x", "y"}

Words(form) == {"x", "y"} \cup UNION {ValuesOf(option) : option \in form.options}

\* The constraints between a target and the flags.
TargetFits(form, args) ==
  \A i \in DOMAIN args : args[i] = "--target" =>
    /\ args[i + 1] = "linux-arm64" => "--standalone" \in ToSet(args)
    /\ args[i + 1] = "host" => "--deploy-files" \notin ToSet(args)

\* An argument is the value of the option before it, if that is no value.
IsValue(form, args) ==
  LET value[i \in 0..Len(args)] ==
        i > 1 /\ args[i - 1] \in form.options /\ ~value[i - 1]
  IN value

Operands(form, args) ==
  LET value == IsValue(form, args)
      places == SelectSeq([i \in DOMAIN args |-> i],
                          LAMBDA i : ~value[i] /\ args[i] \notin form.options \cup form.flags)
  IN [i \in DOMAIN places |-> args[places[i]]]

\* What the arguments of a form mean.
Meaning(form, args) ==
  LET value == IsValue(form, args)
  IN [verb |-> VerbOf(form),
      operands |-> Operands(form, args),
      values |-> {<<args[i - 1], args[i]>> : i \in {i \in DOMAIN args : value[i]}},
      flags |-> {args[i] : i \in {i \in DOMAIN args : ~value[i] /\ args[i] \in form.flags}}]

WellFormed(form, args) ==
  LET value == IsValue(form, args) IN
  /\ Len(Operands(form, args)) \in form.least..form.most
  /\ \A i \in 1..form.first : i \in DOMAIN args /\ args[i] \in Words(form) \ Numbers
  /\ \A i \in DOMAIN args :
       /\ args[i] \in form.options /\ ~value[i] =>
            i < Len(args) /\ args[i + 1] \in ValuesOf(args[i])
       /\ args[i] \in Numbers => value[i]
       /\ args[i] \notin Words(form) => ~value[i] /\ \A j \in DOMAIN args : args[j] = args[i] => j = i
  /\ form.needs \subseteq ToSet(args)
  /\ TargetFits(form, args)

\* The value of --search in the same argument.
Packed(form, args) ==
  LET value == IsValue(form, args)
      InOne(i) == i \in 2..Len(args) /\ value[i] /\ args[i - 1] = "--search" /\ args[i] = "x"
      kept == SelectSeq([i \in DOMAIN args |-> i], LAMBDA i : ~InOne(i))
  IN [j \in DOMAIN kept |-> IF InOne(kept[j] + 1) THEN "--search=x" ELSE args[kept[j]]]

\* Every line that the grammar has, spelled either way, and with help asked for.
CommandQuestions ==
  UNION {[form : {form},
          args : {args \in UNION {[1..n -> Words(form) \cup form.options \cup form.flags] :
                                    n \in 0..MaxArguments} : WellFormed(form, args)},
          spelling : IF form.words = <<"tail">> THEN {"apart", "in one"} ELSE {"apart"},
          help : BOOLEAN] : form \in Forms}

\* What follows a line of with-local-packages.ts, and is the command to run.
Trailer(form) == IF form.words = <<"local">> THEN <<"cmd", "--only">> ELSE <<>>

CommandAnswer(q) ==
  Dispatch(q.form.words \o (IF q.help THEN <<"-h">> ELSE <<>>)
             \o (IF q.spelling = "in one" THEN Packed(q.form, q.args) ELSE q.args)
             \o (IF Trailer(q.form) # <<>> THEN <<"--">> \o Trailer(q.form) ELSE <<>>))

CommandRight(q, a) ==
  a = IF q.help THEN Plain(<<"help", q.form.words[1]>>)
      ELSE [Meaning(q.form, q.args) EXCEPT !.operands = @ \o Trailer(q.form)]

=============================================================================
