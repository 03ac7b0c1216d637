----------------------------- MODULE RestoreBuild -----------------------------
(***************************************************************************)
(* native-restore.ts: the object that holds the restore command is         *)
(* compiled twice, so that all it defines can be renamed before it is      *)
(* linked with an application.                                             *)
(***************************************************************************)

CONSTANTS
  OwnName,   \* further names in the compiled program, its own or a library's
  OddName    \* those with a character that no identifier has

Dispatch == "sb_cli_restore_dispatch"

\* Symbols of the compiled program: there are two that must be defined.
Required == {"porf_mem", "porf_native_fetch_runtime_init"}
Identifiers == Required \cup OwnName \cup {Dispatch}
Symbols == Identifiers \cup OddName

\* What nm would tell of an object.
Objects ==
  {o \in [Symbols -> {"defined", "undefined", "local", "absent"}] : o[Dispatch] = "defined"}

\* nm -g -U.
Inventory(object) == {s \in Symbols : object[s] = "defined"}

\* The programs that are run, in this order, each of which may fail or take so
\* long that it is killed; and nm, which may be missing.
Programs == {"bundler", "porffor", "probe", "compiler", "startup"}

\* The names to be renamed, or nothing if the inventory is not as it should be.
RestoreSymbolDefines(object) ==
  LET names == Inventory(object) \cap (Identifiers \ {Dispatch})
  IN IF Required \subseteq names THEN <<names>> ELSE <<>>

\* The text is compiled again with a #define before it for each of the names.
Compiled(object, defines) ==
  {<<IF s \in defines THEN "sb_ltx_trusted" ELSE "", s>> : s \in Inventory(object)}

Namespaced(symbol) == symbol[1] = "sb_ltx_trusted" \/ symbol[2] = Dispatch

Thrown == [ok |-> FALSE, external |-> {}, imports |-> {}]

BuildNativeRestore(object, failing, nm) ==
  LET defines == RestoreSymbolDefines(object)
  IN IF failing # {} \/ ~nm \/ defines = <<>> THEN Thrown
     ELSE LET external == Compiled(object, defines[1])
          IN IF \E symbol \in external : ~Namespaced(symbol) THEN Thrown
             ELSE [ok |-> TRUE, external |-> external,
                   imports |-> {<<IF s \in defines[1] THEN "sb_ltx_trusted" ELSE "", s>> :
                                  s \in {t \in Symbols : object[t] = "undefined"}}]

-----------------------------------------------------------------------------
ObjectQuestions ==
  [object : Objects, failing : {{}} \cup {{p} : p \in Programs}, nm : BOOLEAN]

ObjectAnswer(q) == BuildNativeRestore(q.object, q.failing, q.nm)

\* What startup.cpp and an application define, whose main is renamed; the
\* application may have any symbol that the restore's program has.
Startup == {<<"", "main">>}
Application == {<<"", "sb_app_main">>} \cup {<<"", s>> : s \in Symbols \ {Dispatch}}

\* Object, startup and application have no definition in common, and the
\* dispatcher that startup calls is there; what the object takes from libraries
\* has kept its name, and no program that failed has a part in it.
ObjectRight(q, a) ==
  a.ok =>
    /\ a.external \cap (Startup \cup Application) = {}
    /\ <<"", Dispatch>> \in a.external
    /\ \A symbol \in a.imports : symbol[1] = ""
    /\ {s \in Symbols : q.object[s] = "defined"} = {symbol[2] : symbol \in a.external}
    /\ q.failing = {} /\ q.nm

=============================================================================
