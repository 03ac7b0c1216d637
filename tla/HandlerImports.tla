---------------------------- MODULE HandlerImports ----------------------------
(***************************************************************************)
(* How a handler and its dependencies are bundled: bundle.ts with the      *)
(* plugins it gives Bun's bundler, and the tables of node-shims.ts.  A     *)
(* file is what the plugins' patterns see of it.                           *)
(***************************************************************************)
EXTENDS Naturals

None == "none"

\* Whether compatibility_date is missing or before, or at or after, the day of
\* sockets.
Dates == {None, "before", "sockets"}
Sockets(date) == date = "sockets"

-----------------------------------------------------------------------------
(* What is imported.                                                       *)

\* A built-in of Node's, with or without "node:", or something else; a driver is
\* a package that exports something of its own to Workers.
Builtins == {"async_hooks", "path", "querystring", "url", "crypto", "net", "tls", "dns", "fs",
             "util/types", "events"}
Specifiers ==
  [name : Builtins, prefix : BOOLEAN]
    \cup [name : {"cloudflare:sockets", "cloudflare:workers", "./file", "driver", "./missing"},
         prefix : {FALSE}]

NodeShimNames == {"async_hooks", "path", "querystring", "url"}
SocketShimNames == {"crypto", "net", "tls", "dns", "fs", "util/types"}

\* The table for every date has only names with the prefix, the other has both.
NODE_SHIMS == [name : NodeShimNames, prefix : {TRUE}]
SOCKET_NODE_SHIMS == [name : SocketShimNames, prefix : BOOLEAN]

External == [name : {"cloudflare:sockets", "cloudflare:workers"}, prefix : {FALSE}]

\* Where there is no shim, the bundler has a polyfill for a built-in.
Resolution(specifier, date) ==
  CASE specifier \in External -> "left to the compiler"
    [] specifier \in NODE_SHIMS -> "shim"
    [] specifier \in SOCKET_NODE_SHIMS /\ Sockets(date) -> "socket shim"
    [] specifier \in SOCKET_NODE_SHIMS /\ ~Sockets(date) -> "polyfill"
    [] specifier.name \in Builtins /\ specifier \notin NODE_SHIMS \cup SOCKET_NODE_SHIMS -> "polyfill"
    [] specifier.name = "driver" /\ Sockets(date) -> "file for Workers"
    [] specifier.name = "driver" /\ ~Sockets(date) -> "file"
    [] specifier.name = "./file" -> "file"
    [] specifier.name = "./missing" -> "unresolved"

\* The bundler throws, reports a failure, or has no output.
BundleHandler(specifiers, date, outputs) ==
  LET found == {Resolution(s, date) : s \in specifiers}
  IN IF "unresolved" \in found \/ outputs = 0 THEN [ok |-> FALSE, found |-> {}]
     ELSE [ok |-> TRUE, found |-> found]

-----------------------------------------------------------------------------
(* The free names that Node has.                                           *)

Globals == {"Buffer", "process", "global"}

\* How a name is used: X.y, X(...), or as a value; as o.X.y it is not a use.
Uses == {None, "member", "call", "value", "property"}

\* How the file binds it: on the line of an import or a require, by a variable,
\* by a function; or by a variable that is local to a function which is not the
\* one that uses it.
Bindings == {None, "import", "variable", "function", "elsewhere"}

Mentions == [use : Uses, bound : Bindings]

\* A file: the handler's own or a dependency's; its format and whether a line of
\* it begins with import or export and a space; its mentions.
Shapes == {[esm |-> TRUE, line |-> TRUE], [esm |-> TRUE, line |-> FALSE],
           [esm |-> FALSE, line |-> FALSE], [esm |-> FALSE, line |-> TRUE]}
Paths == [dependency : BOOLEAN, extension : {"js", "cjs", "mjs", "ts"}]

Loaded(path) == path.dependency /\ path.extension \in {"js", "cjs", "mjs"}

UsesBuffer(m) == m.use \in {"member", "call"} /\ m.bound \notin {"import", "variable", "elsewhere"}

UsesProcess(m) == m.use = "member" /\ m.bound \notin {"import", "variable", "function", "elsewhere"}

UsesGlobal(m) == m.use = "member" /\ m.bound \notin {"variable", "function", "elsewhere"}

Needed(mentions) ==
  {g \in Globals : \/ g = "Buffer" /\ UsesBuffer(mentions[g])
                   \/ g = "process" /\ UsesProcess(mentions[g])
                   \/ g = "global" /\ UsesGlobal(mentions[g])}

\* What comes before the text: a binding for each of the names.
Prefix(shape, needed) ==
  [g \in needed |-> IF g # "global" /\ shape.line THEN "import" ELSE "variable"]

NodeGlobals(path, date, shape, mentions) ==
  IF Sockets(date) /\ Loaded(path) THEN Prefix(shape, Needed(mentions))
  ELSE [g \in {} |-> None]

-----------------------------------------------------------------------------
(* Functions that are named like the global built-in ones.                 *)

\* A declaration, an expression, or an expression that an arrow returns.
Functions == [name : {"escape", "other"}, position : {"declaration", "expression", "arrow"}]

RenamedFunction(path, date, f) ==
  IF Sockets(date) /\ Loaded(path) /\ f.position = "expression" /\ f.name = "escape"
  THEN "escape_sb" ELSE f.name

-----------------------------------------------------------------------------
Unmentioned == [use |-> None, bound |-> None]

ImportQuestions ==
  [specifiers : {{s, t} : s, t \in Specifiers}, date : Dates, outputs : 0..1]

FileQuestions ==
  [path : Paths, date : Dates, shape : Shapes,
   mentions : {[g \in Globals |-> IF g \in S THEN m ELSE Unmentioned] :
                 S \in {{g} : g \in Globals} \cup {Globals}, m \in Mentions}]

FunctionQuestions == [path : Paths, date : Dates, function : Functions]

HandlerQuestions == ImportQuestions \cup FileQuestions \cup FunctionQuestions

HandlerAnswer(q) ==
  CASE "specifiers" \in DOMAIN q -> BundleHandler(q.specifiers, q.date, q.outputs)
    [] "shape" \in DOMAIN q -> NodeGlobals(q.path, q.date, q.shape, q.mentions)
    [] "function" \in DOMAIN q -> RenamedFunction(q.path, q.date, q.function)

\* What a handler imports does not change its meaning with the date, except that
\* drivers are taken as they are for Workers and shims come in for the built-ins
\* that they name, which then mean the same with and without their prefix; and a
\* handler that cannot be resolved has no bundle.
ImportRight(q, a) ==
  /\ a.ok => \A s \in q.specifiers :
       /\ s.name # "./missing"
       /\ \A date \in Dates :
            Resolution(s, date) # Resolution(s, q.date) =>
              /\ {Resolution(s, date), Resolution(s, q.date)}
                   \in {{"socket shim", "polyfill"}, {"file for Workers", "file"}}
              /\ Sockets(date) # Sockets(q.date)
       /\ Resolution(s, q.date) = "socket shim" =>
            \A prefix \in BOOLEAN : Resolution([s EXCEPT !.prefix = prefix], q.date) = "socket shim"
  /\ ~a.ok => q.outputs = 0 \/ \E s \in q.specifiers : s.name = "./missing"

\* A name that is used as a member of nothing, and not bound by the file, is
\* bound once when the file runs, and what a file binds is not bound again.
\* Excepted: a name that only another function binds; a function named Buffer;
\* global, if it is imported.
BoundOnce(g, mention, given) ==
  LET own == mention.bound \in {"import", "variable", "function"}
  IN mention.use = "member" /\ mention.bound # "elsewhere"
       /\ <<g, mention.bound>> \notin {<<"Buffer", "function">>, <<"global", "import">>}
     => own # (g \in given)

\* The handler's own files are left alone, and nothing is bound that is not used;
\* a file that is no module gets no import, unless a line of it looks like one.
FileRight(q, a) ==
  /\ q.date = "sockets" /\ q.path.dependency /\ q.path.extension # "ts" =>
       \A g \in Globals : BoundOnce(g, q.mentions[g], DOMAIN a)
  /\ ~q.path.dependency \/ q.date # "sockets" => DOMAIN a = {}
  /\ \A g \in DOMAIN a : /\ q.mentions[g].use \in {"member", "call"}
                         /\ a[g] = "import" => q.shape.esm \/ q.shape.line

\* The built-in function is still listed unless a declaration has its name, and
\* no other function is renamed.
FunctionRight(q, a) ==
  /\ q.date = "sockets" /\ Loaded(q.path) /\ a = "escape" => q.function.position # "expression"
  /\ q.function.name = "other" => a = "other"

HandlerRight(q, a) ==
  CASE "specifiers" \in DOMAIN q -> ImportRight(q, a)
    [] "shape" \in DOMAIN q -> FileRight(q, a)
    [] "function" \in DOMAIN q -> FunctionRight(q, a)

=============================================================================
