------------------------------- MODULE NodeShims -------------------------------
(***************************************************************************)
(* node-shims.ts: the functions of node:path, node:querystring and         *)
(* node:url that a compiled handler gets.  They scan a path character by   *)
(* character, from the left or from the right; here they are checked       *)
(* against definitions over the segments of a path.  A string is a         *)
(* sequence of characters.                                                 *)
(***************************************************************************)
EXTENDS Integers, Sequences, SequencesExt, FiniteSets, FiniteSetsExt, TLC

CONSTANTS
  PathChars,    \* the characters of the paths: "/", "." and letters
  PathLength,   \* the longest path asked about, alone
  PairLength,   \* the longest path asked about with another
  QueryKeys, QueryValues  \* strings that a query is made of

Slash == "/"
Dot == "."
UpDir == <<Dot, Dot>>

\* String methods of JavaScript, with its places from 0.
CharAt(s, i) == IF i \in 0..(Len(s) - 1) THEN s[i + 1] ELSE "NaN"
Cut(s, from, to) == SubSeq(s, from + 1, to)
LastIndexOf(s, c) == LET at == {i \in DOMAIN s : s[i] = c}
                     IN IF at = {} THEN -1 ELSE (CHOOSE i \in at : \A j \in at : j <= i) - 1
IsAbsolute(p) == CharAt(p, 0) = Slash
EndsInSlash(p) == CharAt(p, Len(p) - 1) = Slash
Joined(a, b) == IF a = <<>> THEN b ELSE a \o <<Slash>> \o b

-----------------------------------------------------------------------------
(* normalizeStringPosix: what is kept so far, the length of its last       *)
(* segment, the last slash read, and how many dots (-1: not only dots) the *)
(* current segment has.                                                    *)

\* A segment of two dots takes the last segment away, or is kept.
Ascend(s, allowAboveRoot) ==
  LET n == Len(s.res)
      isUp == n >= 2 /\ s.seg = 2 /\ CharAt(s.res, n - 1) = Dot /\ CharAt(s.res, n - 2) = Dot
      cut == LastIndexOf(s.res, Slash)
      kept == Cut(s.res, 0, cut)
  IN CASE ~isUp /\ n > 2 /\ cut = -1 -> [s EXCEPT !.res = <<>>, !.seg = 0]
       [] ~isUp /\ n > 2 /\ cut \notin {-1, n - 1} ->
            [s EXCEPT !.res = kept, !.seg = Len(kept) - 1 - LastIndexOf(kept, Slash)]
       [] ~isUp /\ n \in 1..2 -> [s EXCEPT !.res = <<>>, !.seg = 0]
       [] OTHER -> IF allowAboveRoot THEN [s EXCEPT !.res = Joined(@, UpDir), !.seg = 2] ELSE s

\* Mutant: a letter does not end the count of the dots.
ScanLoosely(path, s, i, allowAboveRoot) ==
  IF path[i + 1] = Slash
  THEN LET t == CASE s.slash = i - 1 \/ s.dots = 1 -> s
                  [] s.slash # i - 1 /\ s.dots = 2 -> Ascend(s, allowAboveRoot)
                  [] OTHER -> [s EXCEPT !.res = Joined(@, Cut(path, s.slash + 1, i)),
                                        !.seg = i - s.slash - 1]
       IN [t EXCEPT !.slash = i, !.dots = 0]
  ELSE [s EXCEPT !.dots = IF path[i + 1] = Dot THEN @ + 1 ELSE @]

\* The character at place i; a slash ends a segment.
Scan(path, s, i, allowAboveRoot) ==
  IF path[i + 1] = Slash
  THEN LET t == CASE s.slash = i - 1 \/ s.dots = 1 -> s
                  [] s.slash # i - 1 /\ s.dots = 2 -> Ascend(s, allowAboveRoot)
                  [] OTHER -> [s EXCEPT !.res = Joined(@, Cut(path, s.slash + 1, i)),
                                        !.seg = i - s.slash - 1]
       IN [t EXCEPT !.slash = i, !.dots = 0]
  ELSE [s EXCEPT !.dots = IF path[i + 1] = Dot /\ @ # -1 THEN @ + 1 ELSE -1]

NormalizeString(path, allowAboveRoot) ==
  LET whole == IF EndsInSlash(path) THEN path ELSE Append(path, Slash)
      state[i \in 0..Len(whole)] ==
        IF i = 0 THEN [res |-> <<>>, seg |-> 0, slash |-> -1, dots |-> 0]
        ELSE Scan(whole, state[i - 1], i - 1, allowAboveRoot)
  IN state[Len(whole)].res

Normalize(path) ==
  IF path = <<>> THEN <<Dot>>
  ELSE LET body == NormalizeString(path, ~IsAbsolute(path))
           named == IF body = <<>> /\ ~IsAbsolute(path) THEN <<Dot>> ELSE body
           ended == IF named # <<>> /\ EndsInSlash(path) THEN Append(named, Slash) ELSE named
       IN IF IsAbsolute(path) THEN <<Slash>> \o ended ELSE ended

Join(a, b) ==
  LET given == SelectSeq(<<a, b>>, LAMBDA p : p # <<>>)
  IN IF given = <<>> THEN <<Dot>> ELSE Normalize(FoldLeft(Joined, <<>>, given))

\* From the right, until an absolute path; the last resort is the root.
Resolve(a, b) ==
  LET all == <<b, a, <<Slash>>>>
      state[i \in 0..3] ==
        IF i = 0 THEN [path |-> <<>>, absolute |-> FALSE]
        ELSE LET s == state[i - 1] IN
             IF s.absolute \/ all[i] = <<>> THEN s
             ELSE [path |-> all[i] \o <<Slash>> \o s.path, absolute |-> IsAbsolute(all[i])]
      resolved == NormalizeString(state[3].path, ~state[3].absolute)
  IN CASE state[3].absolute -> <<Slash>> \o resolved
       [] ~state[3].absolute /\ resolved # <<>> -> resolved
       [] OTHER -> <<Dot>>

\* How far two paths agree, and the last slash in that: [i, sep, out], where
\* out is a result found on the way (FALSE: none).
Agreeing(f, t) ==
  LET n == IF Len(f) < Len(t) THEN Len(f) ELSE Len(t)
      same == CHOOSE i \in 0..n : /\ SubSeq(f, 1, i) = SubSeq(t, 1, i)
                                  /\ i = n \/ f[i + 1] # t[i + 1]
      sep == LastIndexOf(SubSeq(f, 1, same), Slash)
  IN CASE same < n -> [sep |-> sep, out |-> FALSE, from |-> 0]
       [] same = n /\ Len(t) > n /\ CharAt(t, n) = Slash -> [sep |-> sep, out |-> TRUE, from |-> n + 1]
       [] same = n /\ Len(t) > n /\ n = 0 -> [sep |-> sep, out |-> TRUE, from |-> 0]
       [] same = n /\ Len(t) <= n /\ Len(f) > n /\ CharAt(f, n) = Slash ->
            [sep |-> n, out |-> FALSE, from |-> 0]
       [] same = n /\ Len(t) <= n /\ Len(f) > n /\ CharAt(f, n) # Slash /\ n = 0 ->
            [sep |-> 0, out |-> FALSE, from |-> 0]
       [] OTHER -> [sep |-> sep, out |-> FALSE, from |-> 0]

\* Resolved paths have one slash at the start, which both scans skip.
Relative(from, to) ==
  LET rf == Resolve(<<>>, from)  rt == Resolve(<<>>, to)
      f == Tail(rf)  t == Tail(rt)
      agree == Agreeing(f, t)
      places == {i \in (agree.sep + 1)..Len(f) : i = Len(f) \/ CharAt(f, i) = Slash}
      ups == FoldLeft(Joined, <<>>, [i \in 1..Cardinality(places) |-> UpDir])
      rest == IF CharAt(rt, 1 + agree.sep) = Slash THEN agree.sep + 2 ELSE agree.sep + 1
  IN CASE from = to \/ rf = rt -> <<>>
       [] from # to /\ rf # rt /\ agree.out -> Cut(t, agree.from, Len(t))
       [] OTHER -> IF ups # <<>> THEN ups \o Cut(rt, 1 + agree.sep, Len(rt))
                   ELSE Cut(rt, rest, Len(rt))

-----------------------------------------------------------------------------
(* From the right: the last segment reaches from start to before end, and  *)
(* no place below `lowest` is looked at.  end = -1: there is none.         *)
LastPart(path, lowest) ==
  LET named == {i \in lowest..(Len(path) - 1) : CharAt(path, i) # Slash}
      end == IF named = {} THEN -1 ELSE Max(named) + 1
      slashes == {i \in lowest..(end - 1) : CharAt(path, i) = Slash}
  IN [start |-> IF slashes = {} THEN 0 ELSE Max(slashes) + 1, end |-> end]

Dirname(path) ==
  LET cut == LastPart(path, 1).start - 1
  IN CASE cut = -1 /\ IsAbsolute(path) -> <<Slash>>
       [] cut = -1 /\ ~IsAbsolute(path) -> <<Dot>>
       [] cut = 1 /\ IsAbsolute(path) -> <<Slash, Slash>>
       [] OTHER -> Cut(path, 0, cut)

Basename(path) ==
  LET part == LastPart(path, 0)
  IN IF part.end = -1 THEN <<>> ELSE Cut(path, part.start, part.end)

\* How many characters two strings share at their ends.
SharedEnd(a, b) ==
  Max({k \in 0..Len(a) : k <= Len(b) /\ Cut(a, Len(a) - k, Len(a)) = Cut(b, Len(b) - k, Len(b))})

\* The second argument is taken off the end, but not if nothing is left.
BasenameWithout(path, ext) ==
  LET part == LastPart(path, 0)
      shared == SharedEnd(Basename(path), ext)
      end == CASE shared = Len(ext) -> part.end - Len(ext)
               [] shared < Len(ext) /\ shared < Len(Basename(path)) -> part.end
               [] OTHER -> Len(path)
  IN CASE ext = <<>> \/ Len(ext) > Len(path) -> Basename(path)
       [] ext # <<>> /\ ext = path -> <<>>
       [] OTHER -> Cut(path, part.start, IF end = part.start THEN part.end ELSE end)

\* The place of the dot that starts the extension of a segment, -1 if none
\* does.  first is where the segment was found to start, from where it does.
ExtensionDot(path, first, from, end) ==
  LET dot == Max({-1} \cup {i \in from..(end - 1) : CharAt(path, i) = Dot})
      ledByDot == dot > from /\ CharAt(path, from) = Dot
  IN IF dot <= from \/ (ledByDot /\ dot = end - 1 /\ dot = first + 1) THEN -1 ELSE dot

Extname(path) ==
  LET part == LastPart(path, 0)
      dot == ExtensionDot(path, part.start, part.start, part.end)
  IN IF dot = -1 THEN <<>> ELSE Cut(path, dot, part.end)

\* The root is not scanned, so that the segment after it starts at 0.
Parse(path) ==
  LET root == IF IsAbsolute(path) THEN <<Slash>> ELSE <<>>
      part == LastPart(path, Len(root))
      from == IF part.start = 0 THEN Len(root) ELSE part.start
      dot == ExtensionDot(path, part.start, from, part.end)
      stop == IF dot = -1 THEN part.end ELSE dot
  IN [root |-> root,
      dir |-> IF part.start > 0 THEN Cut(path, 0, part.start - 1) ELSE root,
      base |-> Cut(path, from, part.end),
      name |-> Cut(path, from, stop),
      ext |-> IF dot = -1 THEN <<>> ELSE Cut(path, dot, part.end)]

\* _format, of what parse gives: dir or root, and base.
Format(parts) ==
  LET dir == IF parts.dir # <<>> THEN parts.dir ELSE parts.root
      base == IF parts.base # <<>> THEN parts.base ELSE parts.name \o parts.ext
  IN IF dir = <<>> \/ dir = parts.root THEN dir \o base ELSE dir \o <<Slash>> \o base

-----------------------------------------------------------------------------
(* node:querystring.  A coded character is one character here.             *)

CodeOf == ("&" :> "%26") @@ ("=" :> "%3D") @@ ("+" :> "%2B") @@ (" " :> "%20")

QsEscape(str) == [i \in DOMAIN str |-> IF str[i] \in DOMAIN CodeOf THEN CodeOf[str[i]] ELSE str[i]]

QsUnescape(str) == [i \in DOMAIN str |->
  IF str[i] = "+" THEN " "
  ELSE IF \E c \in DOMAIN CodeOf : CodeOf[c] = str[i]
       THEN CHOOSE c \in DOMAIN CodeOf : CodeOf[c] = str[i]
       ELSE str[i]]

SplitAt(str, c) ==
  FoldLeft(LAMBDA parts, x : IF x = c THEN Append(parts, <<>>)
                             ELSE Front(parts) \o <<Append(Last(parts), x)>>,
           << <<>> >>, str)

\* Key and value of one part: without "=" the value is empty.
KeyValue(part) ==
  LET at == {i \in DOMAIN part : part[i] = "="}
      cut == IF at = {} THEN Len(part) + 1 ELSE Min(at)
  IN <<QsUnescape(SubSeq(part, 1, cut - 1)), QsUnescape(SubSeq(part, cut + 1, Len(part)))>>

\* An object is a function from its keys to their values; one value is the
\* value itself in the code, several are an array.
ParseQuery(qs, maxKeys) ==
  LET parts == SplitAt(qs, "&")
      limit == IF maxKeys > 0 THEN Min({Len(parts), maxKeys}) ELSE Len(parts)
      Put(obj, pair) == IF pair[1] \in DOMAIN obj
                        THEN [obj EXCEPT ![pair[1]] = Append(@, pair[2])]
                        ELSE obj @@ (pair[1] :> <<pair[2]>>)
  IN IF qs = <<>> THEN <<>>
     ELSE FoldLeft(LAMBDA obj, part : Put(obj, KeyValue(part)), <<>>, SubSeq(parts, 1, limit))

Pairs(obj) == FlattenSeq([i \in 1..Cardinality(DOMAIN obj) |->
  LET key == SetToSeq(DOMAIN obj)[i] IN [j \in DOMAIN obj[key] |-> <<key, obj[key][j]>>]])

Stringify(obj) ==
  LET texts == [i \in DOMAIN Pairs(obj) |->
                  QsEscape(Pairs(obj)[i][1]) \o <<"=">> \o QsEscape(Pairs(obj)[i][2])]
  IN IF texts = <<>> THEN <<>>
     ELSE FoldLeft(LAMBDA str, t : str \o <<"&">> \o t, Head(texts), Tail(texts))

-----------------------------------------------------------------------------
(* node:url.  A component is a sequence of characters, empty if absent.    *)

\* new URL(input), the global: its href from its components.
HostOf(u) == u.hostname \o (IF u.port = <<>> THEN <<>> ELSE <<":">> \o u.port)

Href(u) ==
  LET login == u.username \o (IF u.password = <<>> THEN <<>> ELSE <<":">> \o u.password)
  IN u.protocol \o <<"/", "/">> \o (IF login = <<>> THEN <<>> ELSE login \o <<"@">>)
       \o HostOf(u) \o u.pathname \o u.search \o u.hash

LegacyFromURL(u) ==
  [protocol |-> u.protocol, slashes |-> TRUE,
   auth |-> IF u.username = <<>> THEN <<>>
            ELSE u.username \o (IF u.password = <<>> THEN <<>> ELSE <<":">> \o u.password),
   host |-> HostOf(u), hostname |-> u.hostname, port |-> u.port, pathname |-> u.pathname,
   search |-> u.search, query |-> IF u.search = <<>> THEN <<>> ELSE Tail(u.search),
   hash |-> u.hash]

UrlFormat(o) ==
  LET host == IF o.host # <<>> THEN o.host ELSE HostOf(o)
      search == CASE o.search # <<>> -> o.search
                  [] o.search = <<>> /\ o.query # <<>> -> <<"?">> \o o.query
                  [] OTHER -> <<>>
  IN o.protocol \o (IF o.slashes /\ host # <<>> THEN <<"/", "/">> ELSE <<>>)
       \o (IF o.auth = <<>> THEN <<>> ELSE o.auth \o <<"@">>)
       \o host \o o.pathname \o search \o o.hash

-----------------------------------------------------------------------------
(* What is asked of the shims, and what they answer.                       *)

Strings(chars, length) == UNION {[1..n -> chars] : n \in 0..length}

Objects == UNION {[keys -> UNION {[1..n -> QueryValues] : n \in 1..2}] : keys \in SUBSET QueryKeys}

Urls == [protocol : {<<"s", ":">>}, username : {<<>>, <<"u">>}, password : {<<>>, <<"p">>},
         hostname : {<<"h">>}, port : {<<>>, <<"1">>}, pathname : {<<Slash>>, <<Slash, "a">>},
         search : {<<>>, <<"?", "q">>}, hash : {<<>>, <<"#", "f">>}]

ShimQuestions ==
  [of : {"path"}, path : Strings(PathChars, PathLength)]
  \cup [of : {"paths"}, path : Strings(PathChars, PairLength), other : Strings(PathChars, PairLength)]
  \cup [of : {"query"}, object : Objects, maxKeys : 0..3]
  \cup [of : {"url"}, url : Urls]

ShimAnswer(q) ==
  CASE q.of = "path" ->
         [normal |-> Normalize(q.path), dir |-> Dirname(q.path), base |-> Basename(q.path),
          ext |-> Extname(q.path), parsed |-> Parse(q.path), formatted |-> Format(Parse(q.path))]
    [] q.of = "paths" ->
         [joined |-> Join(q.path, q.other), resolved |-> Resolve(q.path, q.other),
          relative |-> Relative(q.path, q.other), base |-> BasenameWithout(q.path, q.other)]
    [] q.of = "query" -> ParseQuery(Stringify(q.object), q.maxKeys)
    [] q.of = "url" ->
         [href |-> UrlFormat(LegacyFromURL(q.url)),
          fromQuery |-> UrlFormat([LegacyFromURL(q.url) EXCEPT !.search = <<>>, !.host = <<>>])]

-----------------------------------------------------------------------------
(* The meaning of a path: its segments.                                    *)

Written(p) == SelectSeq(SplitAt(p, Slash), LAMBDA g : g # <<>>)
Meant(p) == SelectSeq(Written(p), LAMBDA g : g # <<Dot>>)

\* Without ".." after a name; those above the root or start stay or not.
Reduced(segments, above) ==
  FoldLeft(LAMBDA kept, g :
             IF g # UpDir THEN Append(kept, g)
             ELSE IF kept # <<>> /\ Last(kept) # UpDir THEN Front(kept)
             ELSE IF above THEN Append(kept, g) ELSE kept,
           <<>>, segments)

Spelled(segments) == FoldLeft(Joined, <<>>, segments)

Place(p) == Reduced(Meant(p), ~IsAbsolute(p))

\* The normal form of a path.
NormalOf(p) ==
  LET body == Spelled(Place(p))
      slash == IF EndsInSlash(p) THEN <<Slash>> ELSE <<>>
  IN CASE IsAbsolute(p) -> <<Slash>> \o (IF body = <<>> THEN <<>> ELSE body \o slash)
       [] ~IsAbsolute(p) /\ p = <<>> -> <<Dot>>
       [] OTHER -> (IF body = <<>> THEN <<Dot>> ELSE body) \o slash

SamePlace(p, q) == IsAbsolute(p) = IsAbsolute(q) /\ Place(p) = Place(q)

PathRight(p, a) ==
  LET base == IF Written(p) = <<>> THEN <<>> ELSE Last(Written(p)) IN
  /\ a.normal = NormalOf(p)
  /\ a.base = base
  /\ base # <<>> => SamePlace(Join(a.dir, a.base), p) /\ SamePlace(a.formatted, p)
  /\ a.parsed.base = base /\ a.parsed.name \o a.parsed.ext = base
  /\ a.ext # <<>> => a.ext[1] = Dot /\ Dot \notin ToSet(Tail(a.ext)) /\ IsStrictSuffix(a.ext, base)
  /\ a.ext = <<>> => base = UpDir \/ \A i \in 2..Len(base) : base[i] # Dot
  /\ Written(p) # <<UpDir>> => a.parsed.ext = a.ext

PathsRight(p, q, a) ==
  LET absolute == CASE IsAbsolute(q) -> q [] OTHER -> <<Slash>> \o p \o <<Slash>> \o q
      from == Reduced(Meant(p), FALSE)
      to == Reduced(Meant(q), FALSE)
      shared == Max({n \in 0..Min({Len(from), Len(to)}) : SubSeq(from, 1, n) = SubSeq(to, 1, n)})
      base == IF Written(p) = <<>> THEN <<>> ELSE Last(Written(p))
  IN /\ a.joined = NormalOf(IF p = <<>> \/ q = <<>> THEN p \o q ELSE Joined(p, q))
     /\ a.resolved = <<Slash>> \o Spelled(Reduced(Meant(absolute), FALSE))
     /\ a.relative = Spelled([i \in 1..(Len(from) - shared) |-> UpDir]
                             \o SubSeq(to, shared + 1, Len(to)))
     /\ Slash \notin ToSet(q) /\ ~EndsInSlash(p) =>
          a.base = CASE p = q -> <<>>
                     [] p # q /\ IsStrictSuffix(q, base) -> SubSeq(base, 1, Len(base) - Len(q))
                     [] OTHER -> base

\* What a query is parsed to are the pairs it was made of, as many as are asked.
QueryRight(obj, maxKeys, a) ==
  LET pairs == IF maxKeys = 0 THEN Pairs(obj) ELSE SubSeq(Pairs(obj), 1, Min({maxKeys, Len(Pairs(obj))}))
      Of(key) == SelectSeq(pairs, LAMBDA pair : pair[1] = key)
  IN a = [key \in {pairs[i][1] : i \in DOMAIN pairs} |-> [i \in DOMAIN Of(key) |-> Of(key)[i][2]]]

UrlRight(u, a) ==
  u.username # <<>> \/ u.password = <<>> => a.href = Href(u) /\ a.fromQuery = Href(u)

ShimRight(q, a) ==
  CASE q.of = "path" -> PathRight(q.path, a)
    [] q.of = "paths" -> PathsRight(q.path, q.other, a)
    [] q.of = "query" -> QueryRight(q.object, q.maxKeys, a)
    [] q.of = "url" -> UrlRight(q.url, a)

=============================================================================
