--------------------------- MODULE ProjectCommands ---------------------------
(***************************************************************************)
(* The commands of main.ts that manage a deployed project with one request *)
(* each: whom they ask, with which token, and what they say of the answer. *)
(* Beside them what every command may add: api-version.ts's warning and    *)
(* update-check.ts's notice.                                               *)
(***************************************************************************)
EXTENDS Naturals, Sequences, FiniteSets

None == "none"

Default == "default"
Endpoints == {"e1", Default}

\* credentials.json when it is read; a login or logout may come between two
\* reads.  See Credentials for what is written.
Files == {f \in [active : Endpoints \cup {None}, tokens : SUBSET Endpoints] :
            f.active # None => f.active \in f.tokens}
Corrupt == [active |-> "corrupt", tokens |-> {}]

\* SPROUTBOAT_API_URL, which may end in a slash, and SPROUTBOAT_TOKEN.
Surroundings == [url : {None, "e1", "e1/"}, token : {None, "given"},
                 first : Files \cup {Corrupt}, second : Files \cup {Corrupt}]

Trimmed(url) == IF url = "e1/" THEN "e1" ELSE url

\* "throws" where the file cannot be read.
ResolveApiUrl(s) ==
  CASE s.url # None -> Trimmed(s.url)
    [] s.url = None /\ s.first = Corrupt -> "throws"
    [] s.url = None /\ s.first # Corrupt /\ s.first.active # None -> s.first.active
    [] s.url = None /\ s.first # Corrupt /\ s.first.active = None -> Default

\* A token is written as the endpoint it is for.
SavedToken(file, apiUrl) ==
  IF file = Corrupt THEN "throws" ELSE IF apiUrl \in file.tokens THEN apiUrl ELSE None

\* Mutant: the token is the active endpoint's, wherever the command goes.
ApiTokenOfActive(s) == IF s.token # None THEN s.token ELSE SavedToken(s.second, s.second.active)

ApiToken(s) ==
  IF s.token # None THEN s.token ELSE SavedToken(s.second, ResolveApiUrl(s))

-----------------------------------------------------------------------------
Lists == {"versions list", "domains list", "secrets list"}
Logs == {"tail recent"}
Changes == {"rollback", "domains add", "domains verify", "domains delete",
            "secrets put", "secrets delete", "delete"}
Verbs == Lists \cup Logs \cup Changes \cup {"versions view", "whoami"}

\* What comes with a command: a project that can be read, a well-formed secret
\* name, a value, --yes, --name.
Commands ==
  [verb : Verbs, project : BOOLEAN, name : {"GOOD", "bad"}, value : {"v", ""},
   confirmed : BOOLEAN, explicit : BOOLEAN]

NeedsProject(c) == c.verb # "whoami" /\ ~(c.verb = "delete" /\ c.explicit)

\* What stops a command before it asks anything.
Stopped(c, s) ==
  \/ c.verb \in {"secrets put", "secrets delete"} /\ c.name = "bad"
  \/ NeedsProject(c) /\ ~c.project
  \/ ResolveApiUrl(s) = "throws"
  \/ ApiToken(s) = "throws"
  \/ ApiToken(s) = None
  \/ c.verb = "delete" /\ ~c.confirmed
  \/ c.verb = "secrets put" /\ c.value = ""

\* An answer: its status, and its body, which is what the command expects, an
\* empty list, a list with an entry that is malformed, other JSON, or none.
Answers == [status : {"ok", "refused", "unauthorized"},
            body : {"good", "empty list", "part of it", "other", "text"}]

\* The bodies that are taken for an answer, whatever they are to tell.
ParseVersionList(body) == body \in {"good", "empty list"}
ParseUrlResponse(body) == body = "good"
ParseDomain(body) == body = "good"

Accepts(verb, body) ==
  CASE verb = "versions list" -> ParseVersionList(body)
    [] verb = "versions view" -> body \in {"good", "other"}
    [] verb = "rollback" -> ParseUrlResponse(body)
    [] verb \in {"domains add", "domains verify"} -> ParseDomain(body)
    [] verb = "domains list" -> body \in {"good", "empty list", "part of it"}
    [] verb \in {"secrets list", "whoami"} -> body # "text"
    [] verb \in {"tail recent", "domains delete", "secrets put", "secrets delete", "delete"} -> TRUE

\* What is printed of a list; a domain that is malformed is left out, and what
\* has no names has no secrets.
ListSays(verb, body) ==
  CASE body = "good" -> "all"
    [] body = "part of it" -> "some"
    [] body \in {"empty list", "other", "text"} -> IF verb = "versions list" THEN "blank" ELSE "nothing there"

Says(c, answer) ==
  CASE answer.status # "ok" -> IF c.verb = "whoami" THEN "account not known" ELSE "failed"
    [] answer.status = "ok" /\ ~Accepts(c.verb, answer.body) -> "failed"
    [] answer.status = "ok" /\ Accepts(c.verb, answer.body) /\ c.verb \in Changes -> "done"
    [] answer.status = "ok" /\ Accepts(c.verb, answer.body) /\ c.verb \in Lists ->
         ListSays(c.verb, answer.body)
    [] answer.status = "ok" /\ Accepts(c.verb, answer.body) /\ c.verb \notin Changes \cup Lists -> "shown"

\* whoami names its endpoint first, and with no token it is content.
RunCommand(c, s, answer) ==
  IF Stopped(c, s)
  THEN [requests |-> <<>>,
        said |-> IF c.verb = "whoami" /\ ResolveApiUrl(s) # "throws" /\ ApiToken(s) = None
                 THEN "account not known" ELSE "failed"]
  ELSE [requests |-> << [to |-> ResolveApiUrl(s), token |-> ApiToken(s), changes |-> c.verb \in Changes] >>,
        said |-> Says(c, answer)]

-----------------------------------------------------------------------------
(* Versions.                                                               *)

\* A part may be no number, for which parseInt(...) || 0 is 0.
NotANumber == 10
Parts == {0, 1, 9, NotANumber}
Versions == (UNION {[1..n -> Parts] : n \in 2..3}) \cup {<<>>, <<1, 1, 1, 1>>}

Part(version, i) ==
  IF i \in DOMAIN version /\ version[i] # NotANumber THEN version[i] ELSE 0

IsNewer(latest, current) ==
  \E i \in 1..3 : /\ Part(latest, i) > Part(current, i)
                  /\ \A j \in 1..(i - 1) : Part(latest, j) = Part(current, j)

\* The header may be missing: <<>>.
ControlVersionWarning(min, cli) == min # <<>> /\ IsNewer(min[1], cli)

\* update-check.json, if it can be read: when it was written, as against a day
\* ago, and what it has.  And what npm answers within a second: a version, or
\* nothing of use.
LatestVersion(cache, npm) ==
  IF cache # <<>> /\ cache[1].age = "fresh"
  THEN [asked |-> FALSE, latest |-> <<cache[1].latest>>, cache |-> cache]
  ELSE [asked |-> TRUE, latest |-> npm,
        cache |-> IF npm = <<>> THEN cache ELSE << [age |-> "fresh", latest |-> npm[1]] >>]

NotifyIfOutdated(silent, cache, npm, current) ==
  IF silent THEN [asked |-> FALSE, told |-> <<>>, cache |-> cache]
  ELSE LET known == LatestVersion(cache, npm)
       IN [asked |-> known.asked, cache |-> known.cache,
           told |-> IF known.latest # <<>> /\ IsNewer(known.latest[1], current) THEN known.latest ELSE <<>>]

-----------------------------------------------------------------------------
Plain(verb) == [verb |-> verb, project |-> TRUE, name |-> "GOOD", value |-> "v",
                confirmed |-> TRUE, explicit |-> FALSE]
LoggedIn == [url |-> None, token |-> None, first |-> [active |-> "e1", tokens |-> {"e1"}],
             second |-> [active |-> "e1", tokens |-> {"e1"}]]
Accepted == [status |-> "ok", body |-> "good"]

\* Versions to have cached, to be told of, and to run.
Sample == {<<0, 9, 9>>, <<1, 0, 0>>, <<1, NotANumber, 1>>, <<1, 1>>}
Maybe(S) == {<<>>} \cup {<<x>> : x \in S}

\* Every verb wherever the user is logged in; every command and every answer.
CommandQuestions ==
  [command : {Plain(verb) : verb \in Verbs}, around : Surroundings, answer : {Accepted}]
  \cup [command : Commands, around : {LoggedIn}, answer : Answers]

WarningQuestions == [min : Maybe(Versions), cli : Versions]

NoticeQuestions ==
  [silent : BOOLEAN, cache : Maybe([age : {"fresh", "old"}, latest : Sample]),
   npm : Maybe(Sample), current : Sample]

ProjectQuestions == CommandQuestions \cup WarningQuestions \cup NoticeQuestions

Notify(q) == NotifyIfOutdated(q.silent, q.cache, q.npm, q.current)

ProjectAnswer(q) ==
  CASE "command" \in DOMAIN q -> RunCommand(q.command, q.around, q.answer)
    [] "min" \in DOMAIN q -> ControlVersionWarning(q.min, q.cli)
    [] "npm" \in DOMAIN q -> Notify(q)

-----------------------------------------------------------------------------
\* The token is the user's own choice, or one that is saved for the endpoint
\* that is asked, also if logins and logouts came in between.
TokenRight(s, request) ==
  /\ request.to \in Endpoints
  /\ request.token = IF s.token # None THEN s.token ELSE request.to
  /\ s.token = None => request.to \in s.second.tokens

\* What is said to be done has been accepted; what has been accepted is said to
\* be done if only the status tells; and what is said of a list is so.  (A list
\* of secrets that is not understood is excepted.)
SaidRight(c, answer, a) ==
  /\ a.said = "done" => a.requests # <<>> /\ answer.status = "ok"
  /\ a.requests # <<>> /\ answer.status = "ok"
       /\ c.verb \in {"domains delete", "secrets put", "secrets delete", "delete"} => a.said = "done"
  /\ a.said = "all" => answer.body = "good"
  /\ a.said = "nothing there" => answer.body = "empty list" \/ c.verb = "secrets list"
  /\ answer.status = "ok" /\ answer.body = "good" /\ a.requests # <<>> => a.said # "failed"

\* Nothing is changed that was not asked for, by its name.
ChangeRight(c, request) ==
  request.changes => /\ c.project \/ (c.verb = "delete" /\ c.explicit)
                     /\ c.verb = "delete" => c.confirmed
                     /\ c.verb = "secrets put" => c.value # ""
                     /\ c.verb \in {"secrets put", "secrets delete"} => c.name = "GOOD"

\* Versions as numbers to compare.
Weight(version) == 100 * Part(version, 1) + 10 * Part(version, 2) + Part(version, 3)

\* A notice is of a newer version that npm or a file of today knows, and what npm
\* has told is not asked for again.
NoticeRight(q, a) ==
  /\ \A i \in DOMAIN a.told :
       /\ Weight(a.told[i]) > Weight(q.current)
       /\ a.told = q.npm \/ q.cache = << [age |-> "fresh", latest |-> a.told[i]] >>
  /\ a.asked /\ q.npm # <<>> =>
       ~NotifyIfOutdated(q.silent, a.cache, q.npm, q.current).asked

ProjectRight(q, a) ==
  CASE "command" \in DOMAIN q ->
         /\ Len(a.requests) <= 1
         /\ SaidRight(q.command, q.answer, a)
         /\ \A i \in DOMAIN a.requests :
              TokenRight(q.around, a.requests[i]) /\ ChangeRight(q.command, a.requests[i])
    [] "min" \in DOMAIN q -> a = (q.min # <<>> /\ Weight(q.min[1]) > Weight(q.cli))
    [] "npm" \in DOMAIN q -> NoticeRight(q, a)

=============================================================================
