------------------------------ MODULE LiveTail ------------------------------
(***************************************************************************)
(* tail.ts: runTail, the loop behind `sproutboat tail`.                    *)
(*                                                                         *)
(* Each attempt opens one event stream and ends by the server closing it,  *)
(* by a failure of the link, by the idle timer, or by the user's signal.   *)
(* Failures in a row are counted; a frame forgives them all.  A tick is a  *)
(* fraction of the idle time; what a frame says does not matter here.      *)
(***************************************************************************)
EXTENDS Integers, Sequences, FiniteSetsExt

CONSTANTS
  Retry,         \* the first delay after a failure, in milliseconds (retryMs)
  MaxFailures,   \* failed attempts in a row before giving up
  IdleLimit      \* ticks until the idle timer fires (idleMs)

DelayCap == 8000

ASSUME TailAssumption ==
  /\ Retry \in 1 .. DelayCap
  /\ MaxFailures \in Nat \ {0}
  /\ IdleLimit \in Nat \ {0}

VARIABLES
  pc,         \* where the loop is
  aborted,    \* options.signal: the user ended the command
  cut,        \* the attempt's own controller has been aborted
  sawFrame,   \* the attempt's stream has delivered a frame
  failures,   \* failed attempts in a row
  delay,      \* the next delay
  idle,       \* ticks since the idle timer was armed
  silent,     \* ticks since the server sent anything: what idle is meant to be
  past        \* how the last MaxFailures attempts ended (observed, not state of the code)

vars == <<pc, aborted, cut, sawFrame, failures, delay, idle, silent, past>>

\* Waiting for the answer, for the text of an error answer ("refused" is final,
\* "unwell" is not), or for the stream: the idle timer covers them all.
Attempting == {"fetch", "refused", "unwell", "stream"}
\* "ended": the signal; "rejected" and "lost": TailError.
Over == {"ended", "rejected", "lost"}
Ending == {"closed", "broken", "mute"}

Init ==
  /\ pc = "loop"
  /\ aborted = FALSE
  /\ cut = FALSE
  /\ sawFrame = FALSE
  /\ failures = 0
  /\ delay = Retry
  /\ idle = 0
  /\ silent = 0
  /\ past = <<>>

-----------------------------------------------------------------------------
\* while (!options.signal.aborted): a new attempt with its own controller and
\* an idle timer armed before the request.
Attempt ==
  /\ pc = "loop" /\ ~aborted
  /\ pc' = "fetch"
  /\ cut' = FALSE
  /\ sawFrame' = FALSE
  /\ idle' = 0
  /\ silent' = 0
  /\ UNCHANGED <<aborted, failures, delay, past>>

Leave ==
  /\ pc = "loop" /\ aborted
  /\ pc' = "ended"
  /\ UNCHANGED <<aborted, cut, sawFrame, failures, delay, idle, silent, past>>

\* The headers are there: 2xx with a body, 4xx other than 408 and 429, or the
\* rest.
Answered ==
  /\ pc = "fetch" /\ ~cut
  /\ pc' \in {"stream", "refused", "unwell"}
  /\ silent' = 0
  /\ UNCHANGED <<aborted, cut, sawFrame, failures, delay, idle, past>>

Remember(ending) ==
  LET all == Append(past, ending)
  IN  past' = IF Len(all) > MaxFailures THEN Tail(all) ELSE all

\* The catch block for anything but a TailError.
Caught ==
  /\ IF aborted
       THEN pc' = "ended" /\ UNCHANGED <<failures, past>>
       ELSE /\ failures' = failures + 1
            /\ pc' = IF failures' >= MaxFailures THEN "lost" ELSE "sleep"
            /\ Remember(IF sawFrame THEN "broken" ELSE "mute")
  /\ UNCHANGED <<aborted, cut, sawFrame, delay, idle, silent>>

\* The text of an error answer has been read, or reading it failed.
Refused ==
  /\ pc = "refused"
  /\ pc' = IF aborted THEN "ended" ELSE "rejected"
  /\ UNCHANGED <<aborted, cut, sawFrame, failures, delay, idle, silent, past>>

Unwell == pc = "unwell" /\ Caught

\* Connection refused, reset, or a TLS failure.
LinkFails == pc \in {"fetch", "stream"} /\ ~cut /\ Caught

\* fetch or the reader rejects, because the attempt was aborted.
Interrupted == pc \in {"fetch", "stream"} /\ cut /\ Caught

\* Mutant: a frame does not forgive earlier failures.
FrameKeepsCount ==
  /\ pc = "stream" /\ ~cut
  /\ sawFrame' = TRUE
  /\ delay' = Retry
  /\ idle' = 0
  /\ silent' = 0
  /\ UNCHANGED <<pc, aborted, cut, failures, past>>

\* Mutant: a frame does not restart the back-off.
FrameKeepsDelay ==
  /\ pc = "stream" /\ ~cut
  /\ sawFrame' = TRUE
  /\ failures' = 0
  /\ idle' = 0
  /\ silent' = 0
  /\ UNCHANGED <<pc, aborted, cut, delay, past>>

\* The loop over readFrames receives a frame of any type.
Frame ==
  /\ pc = "stream" /\ ~cut
  /\ sawFrame' = TRUE
  /\ failures' = 0
  /\ delay' = Retry
  /\ idle' = 0
  /\ silent' = 0
  /\ UNCHANGED <<pc, aborted, cut, past>>

\* readFrames skips a comment or malformed data without yielding.
Keepalive ==
  /\ pc = "stream" /\ ~cut
  /\ silent' = 0
  /\ UNCHANGED <<pc, aborted, cut, sawFrame, failures, delay, idle, past>>

\* The server ends the stream: the next attempt follows at once, unless
\* there was no frame at all.
StreamEnds ==
  /\ pc = "stream" /\ ~cut
  /\ \/ /\ ~sawFrame
        /\ Caught
     \/ /\ sawFrame
        /\ pc' = "loop"
        /\ Remember("closed")
        /\ UNCHANGED <<aborted, cut, sawFrame, failures, delay, idle, silent>>

\* Mutant: the idle timer is armed once the answer is there.
IdleFiresInStream ==
  /\ pc = "stream" /\ ~cut
  /\ idle = IdleLimit
  /\ cut' = TRUE
  /\ UNCHANGED <<pc, aborted, sawFrame, failures, delay, idle, silent, past>>

IdleFires ==
  /\ pc \in Attempting /\ ~cut
  /\ idle = IdleLimit
  /\ cut' = TRUE
  /\ UNCHANGED <<pc, aborted, sawFrame, failures, delay, idle, silent, past>>

\* Mutant: the attempt does not listen to the signal.
UserAbortsUnheard ==
  /\ pc \notin Over /\ ~aborted
  /\ aborted' = TRUE
  /\ UNCHANGED <<pc, cut, sawFrame, failures, delay, idle, silent, past>>

\* The signal reaches the attempt through its listener `stop`.
UserAborts ==
  /\ pc \notin Over /\ ~aborted
  /\ aborted' = TRUE
  /\ cut' = (cut \/ pc \in Attempting)
  /\ UNCHANGED <<pc, sawFrame, failures, delay, idle, silent, past>>

\* The sleep is over, or the signal cut it short.
Wake ==
  /\ pc = "sleep"
  /\ pc' = "loop"
  /\ delay' = Min({delay * 2, DelayCap})
  /\ UNCHANGED <<aborted, cut, sawFrame, failures, idle, silent, past>>

Tick ==
  /\ pc \in Attempting /\ ~cut
  /\ idle < IdleLimit
  /\ idle' = idle + 1
  /\ silent' = silent + 1
  /\ UNCHANGED <<pc, aborted, cut, sawFrame, failures, delay, past>>

Next ==
  \/ Attempt \/ Leave \/ Answered \/ Refused \/ Unwell \/ LinkFails
  \/ Interrupted \/ Frame \/ Keepalive \/ StreamEnds \/ IdleFires
  \/ UserAborts \/ Wake \/ Tick

Spec == Init /\ [][Next]_vars

\* The event loop runs what is ready, timers fire and an aborted request
\* rejects.  Nothing is asked of the server or of the user.
FairSpec ==
  /\ Spec
  /\ WF_vars(Attempt) /\ WF_vars(Leave) /\ WF_vars(Wake)
  /\ WF_vars(Tick) /\ WF_vars(IdleFires)
  /\ WF_vars(Interrupted)
  /\ WF_vars(cut /\ (Refused \/ Unwell))

-----------------------------------------------------------------------------
\* Types, and the delay stays within its cap.
TypeOK ==
  /\ pc \in {"loop", "sleep"} \cup Attempting \cup Over
  /\ aborted \in BOOLEAN /\ cut \in BOOLEAN /\ sawFrame \in BOOLEAN
  /\ failures \in 0 .. MaxFailures
  /\ delay \in Retry .. DelayCap
  /\ idle \in 0 .. IdleLimit
  /\ silent \in 0 .. IdleLimit
  /\ past \in Seq(Ending) /\ Len(past) <= MaxFailures

\* runTail reports a lost connection exactly when the last MaxFailures attempts
\* all failed and none but the first of them delivered a frame: a tail that
\* works now and then is never given up, one that does not is.
GivesUpInTime ==
  pc = "lost" <=>
    /\ Len(past) = MaxFailures
    /\ past[1] # "closed"
    /\ \A i \in 2 .. MaxFailures : past[i] = "mute"

\* What it waits before the next attempt depends on the failures since the last
\* frame alone: doubled for each after the first, up to the cap.
BackOffFollowsFailures ==
  pc = "sleep" => delay = Min({Retry * 2 ^ (failures - 1), DelayCap})

\* Ctrl-C ends the command, wherever the loop is and whatever the server does.
AbortEnds == aborted ~> pc \in Over

\* No attempt hangs: it is over some day, or frames keep coming.
NoSilentHang == []<>(pc \notin Attempting \/ (pc = "stream" /\ idle = 0))

\* tail.ts, of idleMs: reconnect if the server sends nothing, not even a
\* keepalive, for this long.  Of an open stream that has delivered a frame, where
\* the timer counts from the last frame: between that and the cut there is
\* nothing but keepalives that could shorten the silence.
ReconnectsOnlyOnSilence ==
  pc = "stream" /\ sawFrame /\ cut /\ ~aborted => silent = IdleLimit

=============================================================================
