------------------------------ MODULE Bindings ------------------------------
(***************************************************************************)
(* The bindings of a project's configuration, which are listed by hand in  *)
(* four places: the types of `env` (types-gen.ts), the report of a build   *)
(* (report.ts), and the manifest's bindings and resources (build.ts).  And *)
(* refreshTypes, which keeps the file of types beside the configuration.   *)
(***************************************************************************)
EXTENDS Naturals, Sequences, FiniteSets

CONSTANT BindingName

None == "none"

Stores == {"kv", "d1", "r2", "queues"}
Lists == {"secrets", "analytics"} \cup Stores
Kinds == Lists \cup {"vars", "do", "services", "ratelimiters", "assets", "version_metadata"}

\* There is one binding for assets and one for the version.
Single == {"assets", "version_metadata"}

\* Days from which a binding's calls are asynchronous, and the first of all.
Day == 0..5
HandlerEnvDay == 1
AsyncDay == [kind \in {"d1", "kv", "r2"} |-> CASE kind = "d1" -> 2 [] kind = "kv" -> 3 [] kind = "r2" -> 4]

\* What parseConfig lets through, as far as it names bindings: a name is used
\* once, and an entry for a store may have the id of an account's resource.
Configurations ==
  {c \in [kind : [BindingName -> Kinds \cup {None}], ids : SUBSET BindingName, crons : BOOLEAN,
          day : Day] :
     /\ \A kind \in Single : Cardinality({n \in BindingName : c.kind[n] = kind}) <= 1
     /\ \A n \in c.ids : c.kind[n] \in Stores}

Named(c, kind) == {n \in BindingName : c.kind[n] = kind}

\* A row for each name of a kind, kind by kind; within a kind in the order of
\* the configuration, which is left out.
RowsOf(c, kinds, Row(_, _)) ==
  [i \in DOMAIN kinds |-> {Row(name, kinds[i]) : name \in Named(c, kinds[i])}]

-----------------------------------------------------------------------------
(* types-gen.ts.                                                           *)

AsyncAt(c, kind) == kind \in DOMAIN AsyncDay /\ c.day >= AsyncDay[kind]

Entry(c, kinds) ==
  RowsOf(c, kinds, LAMBDA name, kind : [name |-> name, type |-> kind, async |-> AsyncAt(c, kind)])

\* Mutant: service bindings have no entry.
EntriesNoServices(c) ==
  Entry(c, <<"vars", "secrets", "kv", "d1", "r2", "queues", "analytics", "do", "ratelimiters",
             "assets", "version_metadata">>)

Entries(c) ==
  Entry(c, <<"vars", "secrets", "kv", "d1", "r2", "queues", "analytics", "do", "services",
             "ratelimiters", "assets", "version_metadata">>)

GenerateTypes(c) == [rows |-> Entries(c), handlerEnv |-> c.day >= HandlerEnvDay]

\* The file as it is, before a command that may write it: none, one that was
\* generated from a configuration, or one that was edited.
RefreshTypes(command, file, tsconfig, c) ==
  LET wanted == << GenerateTypes(c) >>
      fresh == [file |-> wanted, written |-> TRUE]
      left == [file |-> file, written |-> FALSE]
  IN CASE command = "types" -> fresh
       [] command # "types" /\ file = wanted -> left
       [] command # "types" /\ file # wanted -> IF file = <<>> /\ ~tsconfig THEN left ELSE fresh

-----------------------------------------------------------------------------
(* report.ts and build.ts.                                                 *)

\* (A cron is no binding, and has a row.)
BindingRows(c) ==
  LET bound == RowsOf(c, <<"vars", "kv", "secrets", "d1", "r2", "queues", "analytics", "do",
                           "ratelimiters", "cron", "assets">>,
                      LAMBDA name, kind : [name |-> name, type |-> kind, stored |-> name \in c.ids])
  IN [bound EXCEPT ![10] = IF c.crons THEN {[name |-> "scheduled()", type |-> "cron", stored |-> FALSE]}
                           ELSE {}]

\* bindings.json: the names of a kind under a field of its own.
ManifestBindings(c) ==
  [kind \in Kinds \ {"version_metadata"} |-> Named(c, kind)]

Resources(c) ==
  [n \in {n \in c.ids : c.kind[n] \in Stores} |-> c.kind[n]]

-----------------------------------------------------------------------------
\* The file may have been generated when some binding was not yet there.
Before(c) == [c EXCEPT !.kind = [n \in BindingName |-> None], !.ids = {}]

ListQuestions == [config : Configurations]
FileQuestions ==
  [config : {c \in Configurations : c.ids = {} /\ c.day = HandlerEnvDay /\ ~c.crons},
   command : {"types", "dev"}, tsconfig : BOOLEAN, file : {"none", "older", "same"}]

BindingQuestions == ListQuestions \cup FileQuestions

TypesFile(q) ==
  CASE q.file = "none" -> <<>>
    [] q.file = "older" -> << GenerateTypes(Before(q.config)) >>
    [] q.file = "same" -> << GenerateTypes(q.config) >>

BindingAnswer(q) ==
  IF "file" \in DOMAIN q THEN RefreshTypes(q.command, TypesFile(q), q.tsconfig, q.config)
  ELSE [types |-> Entries(q.config), report |-> BindingRows(q.config),
        manifest |-> ManifestBindings(q.config), resources |-> Resources(q.config)]

\* Each of the names is in the rows once, under its kind, and nothing else is.
ListsEach(rows, c, names) ==
  /\ \A n \in names : \E i \in DOMAIN rows :
       \A j \in DOMAIN rows : (\E row \in rows[j] : row.name = n) <=> j = i
  /\ \A i \in DOMAIN rows : \A row \in rows[i] : row.name \in names /\ row.type = c.kind[row.name]

Bound(c) == {n \in BindingName : c.kind[n] # None}

\* Services and the version's metadata are missing from the report.
Reported(c) == {n \in Bound(c) : c.kind[n] \notin {"services", "version_metadata"}}

\* A later day takes no promise back.
AsyncLater(c, rows) ==
  \A i \in DOMAIN rows : \A row \in rows[i] : \A day \in {day \in Day : day >= c.day} :
    LET later == Entries([c EXCEPT !.day = day])
    IN row.async => \E j \in DOMAIN later : \E same \in later[j] : same.name = row.name /\ same.async

WithoutCrons(rows) == [i \in DOMAIN rows |-> {row \in rows[i] : row.type # "cron"}]

AllRows(rows) == UNION {rows[i] : i \in DOMAIN rows}

\* The report agrees with the manifest and the resources of the same build.
ReportAgrees(c, rows, a) ==
  /\ \A n \in Reported(c) : \A kind \in DOMAIN a.manifest :
       n \in a.manifest[kind] <=> \E row \in rows : row.name = n /\ row.type = kind
  /\ \A row \in rows : row.stored <=> row.name \in DOMAIN a.resources
  /\ \A n \in DOMAIN a.resources : n \in a.manifest[a.resources[n]]

ListsRight(c, a) ==
  /\ ListsEach(a.types, c, Bound(c)) /\ AsyncLater(c, a.types)
  /\ ListsEach(WithoutCrons(a.report), c, Reported(c))
  /\ ReportAgrees(c, AllRows(WithoutCrons(a.report)), a)

\* The file of types is up to date if there is one, is not removed, and is not
\* touched by dev if it was.
FileRight(q, a) ==
  /\ a.file \in {<<>>, << GenerateTypes(q.config) >>}
  /\ q.file # "none" => a.file # <<>>
  /\ a.written /\ q.command = "dev" => TypesFile(q) # a.file

BindingRight(q, a) == IF "file" \in DOMAIN q THEN FileRight(q, a) ELSE ListsRight(q.config, a)

=============================================================================
