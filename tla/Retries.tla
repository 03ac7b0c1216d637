-------------------------------- MODULE Retries --------------------------------
(***************************************************************************)
(* Loops that ask the network until they have what they want: fetchPinned, *)
(* the download of Zig for another platform (ensureZigArchive with         *)
(* zigDownloadUrls and downloadZig) and waitForHealthy after a deploy.     *)
(* One behaviour is one call.  A source may answer anything each time it   *)
(* is asked; what is wanted is that a good one suffices.                   *)
(***************************************************************************)
EXTENDS Naturals, Sequences, SequencesExt, FiniteSets

CONSTANTS
  Mirror,     \* download sources other than the official one
  Official,
  Attempts,   \* of fetchPinned, per source
  HealthLimit, HealthWait,   \* in seconds: when to give up, the longest pause
  PollTime    \* how long a poll may take

Source == Mirror \cup {Official}
NoSource == "no source"

ASSUME RetryAssumption ==
  /\ IsFiniteSet(Mirror) /\ Official \notin Mirror /\ NoSource \notin Source
  /\ {Attempts, HealthLimit, HealthWait} \subseteq Nat \ {0}
  /\ PollTime \subseteq Nat

VARIABLES
  call,     \* "pinned", "archive" or "healthy"
  rpc,      \* where it is
  sources,  \* the list of sources
  nth,      \* the one that is asked
  asked,    \* what each has answered so far
  vendored, kept,   \* copies on disk: "absent", "right" or "wrong"
  keeps,    \* a cachePath is given
  outcome,  \* what the call returns
  steady,   \* a source that always answers with the right bytes
  clock, pause,     \* of waitForHealthy
  upAt      \* when the deployment begins to serve

retryVars == <<call, rpc, sources, nth, asked, vendored, kept, keeps, outcome, steady,
               clock, pause, upAt>>

Copy == {"absent", "right", "wrong"}
Answer == {"right", "wrong", "refused", "unavailable", "lost"}
None == "none"

RetryInit ==
  /\ call \in {"pinned", "archive", "healthy"}
  /\ rpc = CASE call = "pinned" -> "vendored" [] call = "archive" -> "kept" [] call = "healthy" -> "poll"
  /\ sources \in IF call = "pinned" THEN {<<Official>>} \cup {<<m, Official>> : m \in Mirror} ELSE {<<>>}
  /\ nth = 1
  /\ asked = [s \in Source |-> <<>>]
  /\ vendored \in IF call = "pinned" THEN Copy ELSE {"absent"}
  /\ keeps \in IF call = "pinned" THEN BOOLEAN ELSE {TRUE}
  /\ kept \in IF keeps /\ call # "healthy" THEN Copy ELSE {"absent"}
  /\ outcome = None
  /\ steady \in IF call = "healthy" THEN {NoSource} ELSE Source \cup {NoSource}
  /\ clock = 0 /\ pause = 1
  /\ upAt \in IF call = "healthy" THEN 0..(HealthLimit + 1) ELSE {0}

Here(place) == rpc = place
Return(what) == rpc' = "done" /\ outcome' = what
Proceed(place) == rpc' = place /\ UNCHANGED outcome

\* The vendored file, if it has the pinned digest.
TakeVendored ==
  /\ Here("vendored")
  /\ IF vendored = "right" THEN Return("bytes") ELSE Proceed("kept")
  /\ UNCHANGED <<call, sources, nth, asked, vendored, kept, keeps, steady, clock, pause, upAt>>

\* The cached copy, if it has; fetchPinned removes another.
TakeKept ==
  /\ Here("kept")
  /\ IF kept = "right" THEN Return("bytes")
     ELSE Proceed(IF call = "pinned" THEN "ask" ELSE "list")
  /\ kept' = IF call = "pinned" /\ kept = "wrong" THEN "absent" ELSE kept
  /\ UNCHANGED <<call, sources, nth, asked, vendored, keeps, steady, clock, pause, upAt>>

\* zigDownloadUrls: the mirrors in any order, or none if their list is not to be had.
ListSources ==
  /\ Here("list")
  /\ Proceed("ask")
  /\ \E listed \in SUBSET Mirror : \E order \in SetToSeqs(listed) : sources' = Append(order, Official)
  /\ UNCHANGED <<call, nth, asked, vendored, kept, keeps, steady, clock, pause, upAt>>

\* downloadZig gives the only source a second chance.
AttemptsPer == IF call = "pinned" THEN Attempts ELSE IF Len(sources) > 1 THEN 1 ELSE 2

\* Mutant: a source that refuses ends the whole list.
NextOrEnd(tries, answer) ==
  IF call = "pinned" /\ answer \in {"refused", "wrong"} THEN Len(sources) + 1
  ELSE IF tries < AttemptsPer THEN nth ELSE nth + 1

\* fetchPinned asks again after what may pass, downloadZig after anything.
NextSource(tries, answer) ==
  IF tries < AttemptsPer /\ ~(call = "pinned" /\ answer \in {"refused", "wrong"}) THEN nth ELSE nth + 1

Ask(answer) ==
  /\ Here("ask") /\ nth <= Len(sources)
  /\ LET source == sources[nth] IN
     /\ source = steady => answer = "right"
     /\ asked' = [asked EXCEPT ![source] = Append(@, answer)]
     /\ IF answer = "right" \/ (answer = "wrong" /\ call = "archive")
        THEN Proceed("store") /\ nth' = nth
        ELSE Proceed("ask") /\ nth' = NextSource(Len(asked[source]) + 1, answer)
  /\ UNCHANGED <<call, sources, vendored, kept, keeps, steady, clock, pause, upAt>>

\* A stage is written and renamed into place; the archive is hashed first.
Store ==
  /\ Here("store")
  /\ LET right == Last(asked[sources[nth]]) = "right" IN
     /\ Return(IF right THEN "bytes" ELSE "failed")
     /\ kept' = IF right /\ keeps THEN "right" ELSE kept
  /\ UNCHANGED <<call, sources, nth, asked, vendored, keeps, steady, clock, pause, upAt>>

\* The disk refuses.  What fails inside the loop counts as a failure of the
\* source; only the archive's rename is outside it.
StoreFails ==
  /\ Here("store") /\ keeps
  /\ asked' = [asked EXCEPT ![sources[nth]] = Append(Front(@), "lost")]
  /\ \/ Proceed("ask") /\ nth' = NextSource(Len(asked[sources[nth]]), "lost")
     \/ call = "archive" /\ Return("failed") /\ nth' = nth
  /\ steady' = NoSource
  /\ UNCHANGED <<call, sources, vendored, kept, keeps, clock, pause, upAt>>

NoneLeft ==
  /\ Here("ask") /\ nth > Len(sources)
  /\ Return("failed")
  /\ UNCHANGED <<call, sources, nth, asked, vendored, kept, keeps, steady, clock, pause, upAt>>

\* waitForHealthy: a request takes a while, and answers as the deployment was
\* when it arrived.
Poll(duration) ==
  /\ Here("poll") /\ clock < HealthLimit
  /\ IF clock >= upAt THEN Return("serving") ELSE Proceed("sleep")
  /\ clock' = clock + duration
  /\ UNCHANGED <<call, sources, nth, asked, vendored, kept, keeps, steady, pause, upAt>>

Sleep ==
  /\ Here("sleep")
  /\ Proceed("poll")
  /\ LET left == IF clock < HealthLimit THEN HealthLimit - clock ELSE 0
     IN clock' = clock + (IF pause < left THEN pause ELSE left)
  /\ pause' = IF pause < HealthWait THEN pause + 1 ELSE pause
  /\ UNCHANGED <<call, sources, nth, asked, vendored, kept, keeps, steady, upAt>>

NotServing ==
  /\ Here("poll") /\ clock >= HealthLimit
  /\ Return("not serving")
  /\ UNCHANGED <<call, sources, nth, asked, vendored, kept, keeps, steady, clock, pause, upAt>>

RetryNext ==
  \/ TakeVendored \/ TakeKept \/ ListSources \/ Store \/ StoreFails \/ NoneLeft
  \/ \E answer \in Answer : Ask(answer)
  \/ Sleep \/ NotServing
  \/ \E duration \in PollTime : Poll(duration)

RetrySpec == RetryInit /\ [][RetryNext]_retryVars

-----------------------------------------------------------------------------
\* Answers after which fetchPinned does not ask the same source again.
Final == {"right", "wrong", "refused"}

\* A pinned download fails only if no copy and no source was right, or the disk
\* failed; a Zig archive may also fail because the first bytes a source gave
\* were wrong.  No source is asked more often than it may be, nor after a final
\* answer, and the wrong bytes are neither returned nor kept.  Of a deployment
\* that serves it is said that it does not only if it began too late for the
\* longest pause and poll.
SourcesSuffice ==
  /\ outcome = "failed" =>
       /\ vendored # "right" /\ kept # "right"
       /\ steady \in ToSet(sources) => call = "archive" /\ \E s \in Source : "wrong" \in ToSet(asked[s])
  /\ outcome = "bytes" => "right" \in {vendored, kept} \cup UNION {ToSet(asked[s]) : s \in Source}
  /\ \A s \in Source : call # "healthy" =>
       /\ Len(asked[s]) <= AttemptsPer
       /\ call = "pinned" => \A i \in 1..(Len(asked[s]) - 1) : asked[s][i] \notin Final
  /\ outcome # None /\ call = "pinned" => kept # "wrong" \/ vendored = "right"
  /\ outcome = "serving" => clock >= upAt
  /\ outcome = "not serving" =>
       \E d \in PollTime : upAt + HealthWait + d > HealthLimit

=============================================================================
