------------------------------ MODULE KvContents ------------------------------
(***************************************************************************)
(* The storage commands of main.ts (kv, d1, r2, queues; contents for kv)   *)
(* against a control plane that other commands change meanwhile.  A        *)
(* namespace is addressed by name: each command looks its id up first and  *)
(* then works by id.  An export walks pages of keys, reads the values of   *)
(* each page and streams them into a temporary file that is renamed over   *)
(* the destination at the end.  Of an answer in which something is missing *)
(* or is not of the kind expected, these steps use what they understand,   *)
(* and go on as if it were all.                                            *)
(***************************************************************************)
EXTENDS Naturals, Sequences, SequencesExt, FiniteSets

CONSTANTS
  KvClient,    \* the commands
  Duty,        \* the verbs each of them may be given
  Namespace,   \* the ids the control plane gives
  NsName,      \* the names namespaces have
  NKeys,       \* keys are 1..NKeys, in the order of the listing
  KvValue,
  PageLimit,   \* keys in a page of the listing (100)
  BatchLimit,  \* entries in a bulk request (100)
  Inputs,      \* the arrays in the files given to bulk commands, never empty
  NoValue

ASSUME KvAssumption ==
  /\ Duty \in [KvClient -> SUBSET {"create", "rename", "delete", "list", "info", "keyGet",
       "keyPut", "keyDelete", "keyList", "bulkGet", "bulkPut", "bulkDelete", "export"}]
  /\ NKeys \in Nat /\ PageLimit \in Nat \ {0} /\ BatchLimit \in Nat \ {0}
  /\ Inputs \subseteq Seq((1..NKeys) \X KvValue)
  /\ NoValue \notin KvValue \cup NsName \cup Namespace

KvKey == 1..NKeys

VARIABLES
  nsName,    \* the name of each namespace, NoValue when there is none
  contents,  \* the value of each key of each namespace
  dest,      \* the output file: the sets of pairs written, or NoValue for none
  staged,    \* the temporary file of each command
  kv,        \* what each command knows
  seen       \* history: the pairs the namespace of a command ever and always had

kvVars == <<nsName, contents, dest, staged, kv, seen>>

\* What takes --output; the summary of a bulk write or deletion holds no pairs.
ToFile == {"keyGet", "bulkGet", "bulkPut", "bulkDelete", "export"}

\* input is what the command was given (the JSON file of a bulk command), got
\* the answers it has received and not yet written, page the keys that are to be
\* read and cursor where the listing goes on, 0 at its start and its end; missed
\* is history: an export has passed over a part of an answer.
Unstarted == [pc |-> "idle", verb |-> "list", name |-> NoValue, id |-> NoValue,
              force |-> FALSE, file |-> FALSE, input |-> <<>>, at |-> 0,
              page |-> {}, cursor |-> 0, got |-> <<>>, missed |-> FALSE]

KvInit ==
  /\ \E n \in NsName, ns \in Namespace :
       nsName = [m \in Namespace |-> IF m = ns THEN n ELSE NoValue]
  /\ contents = [ns \in Namespace |->
                   [k \in KvKey |-> IF nsName[ns] = NoValue THEN NoValue
                                    ELSE CHOOSE v \in KvValue : TRUE]]
  /\ dest \in {NoValue, << >>}
  /\ staged = [c \in KvClient |-> NoValue]
  /\ kv = [c \in KvClient |-> Unstarted]
  /\ seen = [c \in KvClient |-> [ever |-> {}, always |-> {}]]

Becomes(c, command) == kv' = [kv EXCEPT ![c] = command]

At(c, pc) == kv[c].pc = pc

\* The pairs of `keys` that a bulk read finds: a missing key comes back with
\* null and is left out of an export.
Present(ns, keys) == {<<k, contents[ns][k]>> : k \in {k \in keys : contents[ns][k] # NoValue}}

\* What a command that has looked its namespace up could see of it by now.
Witness == seen' = [c \in KvClient |->
  LET now == Present(kv[c].id, KvKey)' IN
  IF kv'[c].id = NoValue THEN [ever |-> {}, always |-> {}]
  ELSE IF kv[c].id = NoValue THEN [ever |-> now, always |-> now]
  ELSE [ever |-> seen[c].ever \cup now, always |-> seen[c].always \cap now]]

\* The command ends; the handler of `exit` and the catch of writeAtomic remove
\* the temporary file.
Finish(c, pc) ==
  /\ Becomes(c, [Unstarted EXCEPT !.pc = pc])
  /\ staged' = [staged EXCEPT ![c] = NoValue]

\* storage, kvContents: `args` give the verb and the name of a namespace.
Begin(c, verb, n, file, force, input) ==
  /\ At(c, "idle")
  /\ file => verb \in ToFile
  /\ verb = "export" => file
  /\ force => file
  /\ Becomes(c, [Unstarted EXCEPT !.pc = "lookUp", !.verb = verb, !.name = n, !.file = file,
                                  !.force = force, !.input = input])
  /\ UNCHANGED <<nsName, contents, dest, staged>>

\* A request fails, a file cannot be read or written, --yes is missing, or an
\* answer is refused as a whole (rows, the value of a key, the values of an
\* export): fail() ends the process.
Fails(c) ==
  /\ kv[c].pc \notin {"idle", "done", "failed", "killed"}
  /\ Finish(c, "failed")
  /\ UNCHANGED <<nsName, contents, dest>>

\* POST needs no id: the control plane makes one.
Create(c) ==
  /\ At(c, "lookUp") /\ kv[c].verb = "create"
  /\ \A ns \in Namespace : nsName[ns] # kv[c].name
  /\ \E ns \in Namespace :
       /\ nsName[ns] = NoValue
       /\ contents[ns] = [k \in KvKey |-> NoValue]
       /\ nsName' = [nsName EXCEPT ![ns] = kv[c].name]
  /\ Finish(c, "done")
  /\ UNCHANGED <<contents, dest>>

\* storageRows and idForName: the row with the name, whose id all else uses.
LookUp(c) ==
  /\ At(c, "lookUp") /\ kv[c].verb # "create"
  /\ \E ns \in Namespace :
       /\ nsName[ns] = kv[c].name
       /\ Becomes(c, [kv[c] EXCEPT !.id = ns,
                    !.pc = IF kv[c].verb = "export" THEN "check" ELSE "act"])
  /\ UNCHANGED <<nsName, contents, dest, staged>>

NoSuchName(c) ==
  /\ At(c, "lookUp") /\ kv[c].verb # "create"
  /\ \A ns \in Namespace : nsName[ns] # kv[c].name
  /\ Finish(c, "failed")
  /\ UNCHANGED <<nsName, contents, dest>>

\* The id is of a namespace that is still there: else the server says 404.
Acts(c, verb) == At(c, "act") /\ kv[c].verb = verb /\ nsName[kv[c].id] # NoValue

Rename(c, n) ==
  /\ Acts(c, "rename")
  /\ \A ns \in Namespace : nsName[ns] # n
  /\ nsName' = [nsName EXCEPT ![kv[c].id] = n]
  /\ Finish(c, "done")
  /\ UNCHANGED <<contents, dest>>

Delete(c) ==
  /\ Acts(c, "delete")
  /\ nsName' = [nsName EXCEPT ![kv[c].id] = NoValue]
  /\ contents' = [contents EXCEPT ![kv[c].id] = [k \in KvKey |-> NoValue]]
  /\ Finish(c, "done")
  /\ UNCHANGED dest

\* list, info and a page of keys are printed.
Show(c) ==
  /\ Acts(c, "list") \/ Acts(c, "info") \/ Acts(c, "keyList")
  /\ Finish(c, "done")
  /\ UNCHANGED <<nsName, contents, dest>>

KeyGet(c, k) ==
  /\ Acts(c, "keyGet")
  /\ contents[kv[c].id][k] # NoValue
  /\ IF kv[c].file
     THEN /\ Becomes(c, [kv[c] EXCEPT !.pc = "check", !.got = <<Present(kv[c].id, {k})>>])
          /\ UNCHANGED staged
     ELSE Finish(c, "done")
  /\ UNCHANGED <<nsName, contents, dest>>

KeyPut(c, k, v) ==
  /\ Acts(c, "keyPut")
  /\ contents' = [contents EXCEPT ![kv[c].id][k] = v]
  /\ Finish(c, "done")
  /\ UNCHANGED <<nsName, dest>>

KeyDelete(c, k) ==
  /\ Acts(c, "keyDelete")
  /\ contents' = [contents EXCEPT ![kv[c].id][k] = NoValue]
  /\ Finish(c, "done")
  /\ UNCHANGED <<nsName, dest>>

Least(a, b) == IF a < b THEN a ELSE b

\* The entries of the next request of a bulk command.
Slice(r) == SubSeq(r.input, r.at + 1, Least(r.at + BatchLimit, Len(r.input)))

\* The server applies the entries of one request in their order: the last wins.
Applied(ns, verb, entries) == [k \in KvKey |->
  LET mine == {i \in DOMAIN entries : entries[i][1] = k} IN
  IF mine = {} THEN contents[ns][k]
  ELSE IF verb = "bulkPut" THEN entries[Max(mine)][2] ELSE NoValue]

\* An answer to a get that is not an array adds nothing, and is not an error.
Bulk(c) ==
  /\ Acts(c, "bulkGet") \/ Acts(c, "bulkPut") \/ Acts(c, "bulkDelete")
  /\ kv[c].at < Len(kv[c].input)
  /\ LET r == kv[c]  entries == Slice(r) IN
       /\ \E answer \in {{}, Present(r.id, {entries[i][1] : i \in DOMAIN entries})} :
            Becomes(c, [r EXCEPT !.at = r.at + Len(entries), !.got =
                          IF r.verb = "bulkGet" THEN Append(r.got, answer) ELSE <<>>])
       /\ contents' = IF r.verb = "bulkGet" THEN contents
                      ELSE [contents EXCEPT ![r.id] = Applied(r.id, r.verb, entries)]
  /\ UNCHANGED <<nsName, dest, staged>>

BulkEnds(c) ==
  /\ At(c, "act") /\ kv[c].verb \in {"bulkGet", "bulkPut", "bulkDelete"}
  /\ kv[c].input # <<>> /\ kv[c].at = Len(kv[c].input)
  /\ IF kv[c].file THEN Becomes(c, [kv[c] EXCEPT !.pc = "check"]) /\ UNCHANGED staged
     ELSE Finish(c, "done")
  /\ UNCHANGED <<nsName, contents, dest>>

\* writeAtomic: "already exists; pass --force to replace it".
Refuses(c) ==
  /\ At(c, "check") /\ dest # NoValue /\ ~kv[c].force
  /\ Finish(c, "failed")
  /\ UNCHANGED <<nsName, contents, dest>>

Opens(c) ==
  /\ At(c, "check") /\ (dest = NoValue \/ kv[c].force)
  /\ Becomes(c, [kv[c] EXCEPT !.pc = IF kv[c].verb = "export" THEN "list" ELSE "write"])
  /\ staged' = [staged EXCEPT ![c] = <<>>]
  /\ UNCHANGED <<nsName, contents, dest>>

Listed(c) == {k \in KvKey : k > kv[c].cursor /\ contents[kv[c].id][k] # NoValue}

FirstOf(keys) == {k \in keys : Cardinality({j \in keys : j < k}) < PageLimit}

ListEnds(c) ==
  /\ At(c, "list") /\ nsName[kv[c].id] # NoValue
  /\ Listed(c) = {}
  /\ Becomes(c, [kv[c] EXCEPT !.pc = "publish", !.cursor = 0])
  /\ UNCHANGED <<nsName, contents, dest, staged>>

\* Mutant: the cursor of the page is lost, so the listing ends with it.
ListPageLast(c) ==
  /\ At(c, "list") /\ nsName[kv[c].id] # NoValue
  /\ Listed(c) # {}
  /\ Becomes(c, [kv[c] EXCEPT !.pc = "read", !.page = FirstOf(Listed(c)), !.cursor = 0])
  /\ UNCHANGED <<nsName, contents, dest, staged>>

\* The first PageLimit keys after the cursor, and the last of them as the next
\* cursor if there are more.
ListPage(c) ==
  /\ At(c, "list") /\ nsName[kv[c].id] # NoValue
  /\ \E last \in FirstOf(Listed(c)) :
       /\ \A k \in FirstOf(Listed(c)) : k <= last
       /\ Becomes(c, [kv[c] EXCEPT !.pc = "read", !.page = FirstOf(Listed(c)), !.cursor =
                          IF FirstOf(Listed(c)) = Listed(c) THEN 0 ELSE last])
  /\ UNCHANGED <<nsName, contents, dest, staged>>

\* A listing whose keys are no array of strings counts for what it has of them,
\* down to an empty page; one without a cursor for the last.
ListShort(c) ==
  /\ At(c, "list") /\ nsName[kv[c].id] # NoValue
  /\ \E last \in FirstOf(Listed(c)), keys \in SUBSET FirstOf(Listed(c)) :
       /\ \A k \in FirstOf(Listed(c)) : k <= last
       /\ \E next \in IF FirstOf(Listed(c)) = Listed(c) THEN {0} ELSE {0, last} :
            /\ keys = FirstOf(Listed(c)) => next = 0 /\ keys # Listed(c)
            /\ Becomes(c, [kv[c] EXCEPT !.page = keys, !.cursor = next, !.missed = TRUE,
                 !.pc = IF keys # {} THEN "read" ELSE IF next # 0 THEN "list" ELSE "publish"])
  /\ UNCHANGED <<nsName, contents, dest, staged>>

\* An entry of the answer without a string for key or value is skipped.
ReadPage(c) ==
  /\ At(c, "read") /\ nsName[kv[c].id] # NoValue
  /\ \E values \in SUBSET Present(kv[c].id, kv[c].page) :
       /\ staged' = [staged EXCEPT ![c] = Append(@, values)]
       /\ Becomes(c, [kv[c] EXCEPT !.page = {},
            !.missed = @ \/ values # Present(kv[c].id, kv[c].page),
            !.pc = IF kv[c].cursor = 0 THEN "publish" ELSE "list"])
  /\ UNCHANGED <<nsName, contents, dest>>

\* A value or a bulk answer is one chunk.
Write(c) ==
  /\ At(c, "write")
  /\ staged' = [staged EXCEPT ![c] = kv[c].got]
  /\ Becomes(c, [kv[c] EXCEPT !.pc = "publish"])
  /\ UNCHANGED <<nsName, contents, dest>>

Publish(c) ==
  /\ At(c, "publish")
  /\ dest' = staged[c]
  /\ Finish(c, "done")
  /\ UNCHANGED <<nsName, contents>>

\* SIGKILL, or a signal without a handler: no exit handler runs.
KvKill(c) ==
  /\ kv[c].pc \notin {"idle", "done", "failed", "killed"}
  /\ Becomes(c, [Unstarted EXCEPT !.pc = "killed"])
  /\ UNCHANGED <<nsName, contents, dest, staged>>

Bulks == {"bulkGet", "bulkPut", "bulkDelete"}

Starts(c) == \E verb \in Duty[c], n \in NsName, file, force \in BOOLEAN :
  \E input \in IF verb \in Bulks THEN Inputs ELSE {<<>>} :
     Begin(c, verb, n, file, force, input)

KvStep(c) ==
  \/ Starts(c) \/ Fails(c) \/ Create(c) \/ LookUp(c) \/ NoSuchName(c)
  \/ \E n \in NsName : Rename(c, n)
  \/ Delete(c) \/ Show(c)
  \/ \E k \in KvKey : KeyGet(c, k) \/ KeyDelete(c, k) \/ \E v \in KvValue : KeyPut(c, k, v)
  \/ Bulk(c) \/ BulkEnds(c) \/ Refuses(c) \/ Opens(c)
  \/ ListEnds(c) \/ ListPage(c) \/ ListShort(c) \/ ReadPage(c)
  \/ Write(c) \/ Publish(c) \/ KvKill(c)

KvNext == (\E c \in KvClient : KvStep(c)) /\ Witness

KvSpec == KvInit /\ [][KvNext]_kvVars

-----------------------------------------------------------------------------
Pairs(file) == UNION {file[i] : i \in DOMAIN file}

\* A dump of a namespace that others change while it is walked: no key twice,
\* nothing that was never there, and everything that was there all the time
\* unless the server's answers lacked a part of it.
Faithful(c, file) ==
  /\ \A i, j \in DOMAIN file : \A x \in file[i], y \in file[j] : x[1] = y[1] => i = j /\ x = y
  /\ Pairs(file) \subseteq seen[c].ever
  /\ kv[c].missed \/ seen[c].always \subseteq Pairs(file)

\* The output file is replaced as a whole and only by a command that succeeds.
\* An export is a faithful dump whatever other commands do to the namespace,
\* delete it or rename it included, and a short one only after an answer in which
\* a part was missing; a get is what the keys once held. And a command that ends
\* otherwise than by a kill leaves no temporary file.
\* writeAtomic and kvContents, main.ts.
OutputFaithful ==
  [][ /\ dest' # dest =>
           \E c \in KvClient :
             /\ kv[c].pc = "publish" /\ kv'[c].pc = "done"
             /\ IF kv[c].verb = "export" THEN Faithful(c, dest')
                ELSE Pairs(dest') \subseteq seen[c].ever
      /\ \A c \in KvClient :
           kv'[c].pc \in {"done", "failed"} => staged'[c] = NoValue ]_kvVars

=============================================================================
