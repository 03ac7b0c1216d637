----------------------------- MODULE DevServer -----------------------------
(***************************************************************************)
(* dev.ts: `sproutboat dev`, which serves a project on a stable port and   *)
(* replaces the process behind it when a file is saved.                    *)
(*                                                                         *)
(* The coordinator is single-threaded: a step runs from one await to the   *)
(* next.  Rebuild number t (0 is the first build, made before anything is  *)
(* watched) yields candidate number t: a sprout process, a broker and an   *)
(* artifact directory, all of which stop() takes down together.  The disk  *)
(* is a version number that every save increments.                         *)
(***************************************************************************)
EXTENDS Integers, FiniteSets

CONSTANTS
  MaxSaves,        \* how many saves are made
  MaxWatchErrors   \* how often resetWatchers() throws (out of inotify watches)

ASSUME DevAssumption == MaxSaves \in Nat /\ MaxWatchErrors \in Nat

Version == 0 .. MaxSaves
Candidate == 0 .. MaxSaves
Rebuild == 1 .. MaxSaves
Nobody == -1

VARIABLES
  disk,         \* the version the project's files are at
  event,        \* a file event the watchers have yet to deliver
  lost,         \* nothing was told of the latest save
  watching,     \* the watchers are open
  dirty,        \* a change was noticed and no rebuild has begun since
  timer,        \* the debounce timer is set
  rebuilding,   \* the flag that keeps rebuilds one at a time
  rebuildTask,  \* the rebuild whose promise the coordinator will await
  task,         \* where each rebuild is
  ver,          \* the version each candidate was built from
  proc,         \* each candidate's sprout process
  stopped,      \* the candidates stop() was called for (expected)
  dispatch,     \* the candidates whose broker may dispatch
  running,      \* the candidate the public port is routed to
  pending,      \* pendingCandidate
  phase,        \* where runDev is
  failed,       \* the versions whose rebuild was reported to have failed
  watchErrors,  \* how often resetWatchers() has thrown
  watch,        \* not --no-watch
  exits         \* exitOnShutdown

world == <<disk, lost, watch, exits>>
loop == <<event, watching, dirty, timer, rebuilding, rebuildTask>>
fleet == <<proc, stopped, dispatch, running, pending>>
vars == <<disk, event, lost, watching, dirty, timer, rebuilding, rebuildTask, task, ver, proc,
          stopped, dispatch, running, pending, phase, failed, watchErrors, watch, exits>>

Init ==
  /\ disk = 0 /\ event = FALSE /\ lost = FALSE
  /\ watching = FALSE /\ dirty = FALSE /\ timer = FALSE
  /\ rebuilding = FALSE /\ rebuildTask = Nobody
  /\ task = [t \in Candidate |-> IF t = 0 THEN "building" ELSE "new"]
  /\ ver = [t \in Candidate |-> 0]
  /\ proc = [t \in Candidate |-> "none"]
  /\ stopped = {} /\ dispatch = {}
  /\ running = 0 /\ pending = Nobody
  /\ phase = "starting"
  /\ failed = {} /\ watchErrors = 0
  /\ watch \in BOOLEAN /\ exits \in BOOLEAN

\* The coordinator's process is there, and code can still run in it.
Up == phase \notin {"exited", "failed"}
shuttingDown == phase \in {"shutdown", "returned"}

InFlight == {t \in Candidate : task[t] \in {"reading", "building", "booting"}}

\* stop(): once per candidate; its dispatch off, its process killed, its broker closed.
Stop(S) ==
  /\ stopped' = stopped \cup S
  /\ dispatch' = dispatch \ S
  /\ proc' = [i \in Candidate |-> IF i \in S THEN "dead" ELSE proc[i]]

(***************************************************************************)
(* The first build: nothing is watched yet, and a failure ends the command.*)
(***************************************************************************)
FirstStarts ==
  /\ phase = "starting" /\ task[0] = "building"
  /\ task' = [task EXCEPT ![0] = "booting"]
  /\ proc' = [proc EXCEPT ![0] = "booting"]
  /\ UNCHANGED <<world, loop, ver, stopped, dispatch, running, pending, phase, failed, watchErrors>>

FirstReady ==
  /\ phase = "starting" /\ proc[0] = "up"
  /\ task' = [task EXCEPT ![0] = "done"]
  /\ dispatch' = {0}
  /\ watching' = watch
  /\ phase' = "serving"
  /\ UNCHANGED <<world, event, dirty, timer, rebuilding, rebuildTask, ver, proc, stopped,
                 running, pending, failed, watchErrors>>

\* The first resetWatchers() throws: runDev rejects and the command ends, its
\* candidate dispatching and never stopped.
FirstWatchFails ==
  /\ phase = "starting" /\ proc[0] = "up" /\ watch
  /\ watchErrors < MaxWatchErrors
  /\ task' = [task EXCEPT ![0] = "done"]
  /\ dispatch' = {0}
  /\ watchErrors' = watchErrors + 1
  /\ phase' = "failed"
  /\ UNCHANGED <<world, loop, ver, proc, stopped, running, pending, failed>>

FirstFails ==
  /\ phase = "starting"
  /\ task' = [task EXCEPT ![0] = "done"]
  /\ IF task[0] = "building" THEN UNCHANGED <<stopped, dispatch, proc>> ELSE Stop({0})
  /\ phase' = "failed"
  /\ UNCHANGED <<world, loop, ver, running, pending, failed, watchErrors>>

(***************************************************************************)
(* A change, the debounce timer, one rebuild.                              *)
(***************************************************************************)
Save ==
  /\ Up /\ disk < MaxSaves
  /\ disk' = disk + 1
  /\ event' = watching
  /\ lost' = ~watching
  /\ UNCHANGED <<watching, dirty, timer, rebuilding, rebuildTask, task, ver, fleet, phase,
                 failed, watchErrors, watch, exits>>

\* onChange as the watchers call it.
OnChange ==
  /\ Up /\ event
  /\ event' = FALSE
  /\ dirty' = TRUE /\ timer' = TRUE
  /\ UNCHANGED <<world, watching, rebuilding, rebuildTask, task, ver, fleet, phase, failed, watchErrors>>

\* The timer finds a rebuild running, or the end near: its task is over at
\* once, and rebuildTask is that task (once awaited, the value no longer counts).
TimerIgnored ==
  /\ Up /\ timer
  /\ rebuilding \/ shuttingDown
  /\ timer' = FALSE
  /\ rebuildTask' = IF shuttingDown THEN rebuildTask ELSE Nobody
  /\ UNCHANGED <<world, event, watching, dirty, rebuilding, task, ver, fleet, phase, failed, watchErrors>>

\* Mutant: a rebuild begins while another is running.
TimerStartsSecond(t) ==
  /\ Up /\ timer
  /\ ~shuttingDown
  /\ task[t] = "new" /\ \A s \in Candidate : s < t => task[s] # "new"
  /\ timer' = FALSE /\ dirty' = FALSE
  /\ rebuilding' = TRUE
  /\ rebuildTask' = t
  /\ task' = [task EXCEPT ![t] = "reading"]
  /\ UNCHANGED <<world, event, watching, ver, fleet, phase, failed, watchErrors>>

TimerStarts(t) ==
  /\ Up /\ timer
  /\ ~rebuilding /\ ~shuttingDown
  /\ task[t] = "new" /\ \A s \in Candidate : s < t => task[s] # "new"
  /\ timer' = FALSE /\ dirty' = FALSE
  /\ rebuilding' = TRUE
  /\ rebuildTask' = t
  /\ task' = [task EXCEPT ![t] = "reading"]
  /\ UNCHANGED <<world, event, watching, ver, fleet, phase, failed, watchErrors>>

\* Mutant: a change noticed during a rebuild does not ask for another one.
FinallyForgets(t) ==
  /\ task' = [task EXCEPT ![t] = "done"]
  /\ rebuilding' = FALSE
  /\ timer' = timer

\* finally: the next rebuild may begin, and a change noticed meanwhile asks for it.
Finally(t) ==
  /\ task' = [task EXCEPT ![t] = "done"]
  /\ rebuilding' = FALSE
  /\ timer' = (timer \/ (dirty /\ ~shuttingDown))

\* rebuild() read and bundled the project.
ReadOk(t) ==
  /\ Up /\ task[t] = "reading"
  /\ task' = [task EXCEPT ![t] = "building"]
  /\ ver' = [ver EXCEPT ![t] = disk]
  /\ UNCHANGED <<world, loop, fleet, phase, failed, watchErrors>>

\* rebuild() threw: the types could not be written.
ReadThrows(t) ==
  /\ Up /\ task[t] = "reading"
  /\ Finally(t)
  /\ failed' = failed \cup {disk}
  /\ UNCHANGED <<world, event, watching, dirty, rebuildTask, ver, fleet, phase, watchErrors>>

\* readProject() found a configuration, an entry point or a bundle it cannot
\* use, and fail() ended the process.
ReadExits(t) ==
  /\ Up /\ task[t] = "reading"
  /\ phase' = "failed"
  /\ UNCHANGED <<world, loop, task, ver, fleet, failed, watchErrors>>

\* start() threw and removed its directory.
StartFails(t) ==
  /\ Up /\ task[t] = "building" /\ t # 0
  /\ Finally(t)
  /\ failed' = failed \cup {ver[t]}
  /\ UNCHANGED <<world, event, watching, dirty, rebuildTask, ver, fleet, phase, watchErrors>>

\* Mutant: no look at shuttingDown after start().
StartOkUnchecked(t) ==
  /\ Up /\ task[t] = "building" /\ t # 0
  /\ task' = [task EXCEPT ![t] = "booting"]
  /\ proc' = [proc EXCEPT ![t] = "booting"]
  /\ pending' = t
  /\ UNCHANGED <<world, loop, ver, stopped, dispatch, running, phase, failed, watchErrors>>

\* start() returned a candidate ...
StartOk(t) ==
  /\ Up /\ task[t] = "building" /\ t # 0 /\ ~shuttingDown
  /\ task' = [task EXCEPT ![t] = "booting"]
  /\ proc' = [proc EXCEPT ![t] = "booting"]
  /\ pending' = t
  /\ UNCHANGED <<world, loop, ver, stopped, dispatch, running, phase, failed, watchErrors>>

\* ... after a signal: it is stopped at once.
StartTooLate(t) ==
  /\ Up /\ task[t] = "building" /\ t # 0 /\ shuttingDown
  /\ Finally(t)
  /\ Stop({t})
  /\ pending' = Nobody
  /\ UNCHANGED <<world, event, watching, dirty, rebuildTask, ver, running, phase, failed, watchErrors>>

\* waitUntilReady() threw: stopped, exited, or not listening after 3 s; or it
\* returned after a signal.
NotReady(t) ==
  /\ Up /\ task[t] = "booting" /\ t # 0
  /\ Finally(t)
  /\ Stop({t})
  /\ pending' = Nobody
  /\ failed' = IF shuttingDown THEN failed ELSE failed \cup {ver[t]}
  /\ UNCHANGED <<world, event, watching, dirty, rebuildTask, ver, running, phase, watchErrors>>

CanSwitch(t) == Up /\ task[t] = "booting" /\ t # 0 /\ proc[t] = "up" /\ ~shuttingDown

\* The candidate listens: the route, the dispatch and the watchers move to it
\* and the previous one is stopped, with no await in between.  An event that
\* the closed watchers still held, or that arrives between closing the old and
\* opening the new ones, is gone.
Switch(t) ==
  /\ CanSwitch(t)
  /\ Finally(t)
  /\ running' = t /\ pending' = Nobody
  /\ stopped' = stopped \cup {running}
  /\ dispatch' = (dispatch \ {running}) \cup {t}
  /\ proc' = [proc EXCEPT ![running] = "dead"]
  /\ event' \in {event, FALSE}
  /\ lost' = (lost \/ (event /\ ~event'))
  /\ watching' = TRUE
  /\ UNCHANGED <<disk, dirty, rebuildTask, ver, phase, failed, watchErrors, watch, exits>>

\* Mutant: taking the dispatch away is left to stop().
SwitchWatchFailsDispatching(t) ==
  /\ CanSwitch(t)
  /\ watchErrors < MaxWatchErrors
  /\ Finally(t)
  /\ running' = t /\ pending' = Nobody
  /\ dispatch' = dispatch \cup {t}
  /\ event' = FALSE
  /\ lost' = (lost \/ event)
  /\ watching' \in BOOLEAN
  /\ watchErrors' = watchErrors + 1
  /\ UNCHANGED <<disk, dirty, rebuildTask, ver, proc, stopped, phase, failed, watch, exits>>

\* resetWatchers() throws half-way: the route has moved, some of the new
\* watchers may be open, and the previous candidate is not stopped.
SwitchWatchFails(t) ==
  /\ CanSwitch(t)
  /\ watchErrors < MaxWatchErrors
  /\ Finally(t)
  /\ running' = t /\ pending' = Nobody
  /\ dispatch' = (dispatch \ {running}) \cup {t}
  /\ event' = FALSE
  /\ lost' = (lost \/ event)
  /\ watching' \in BOOLEAN
  /\ watchErrors' = watchErrors + 1
  /\ UNCHANGED <<disk, dirty, rebuildTask, ver, proc, stopped, phase, failed, watch, exits>>

(***************************************************************************)
(* The end: a signal, or without a watcher the end of the one process.     *)
(***************************************************************************)
Shutdown ==
  /\ phase = "serving"
  /\ phase' = IF exits THEN "exited" ELSE "shutdown"
  /\ watching' = FALSE /\ event' = FALSE
  /\ Stop({running, pending} \ {Nobody})
  /\ UNCHANGED <<world, dirty, timer, rebuilding, rebuildTask, task, ver, running, pending,
                 failed, watchErrors>>

ReturnWatching ==
  /\ watch /\ phase = "shutdown"
  /\ rebuildTask \notin InFlight
  /\ phase' = "returned"
  /\ UNCHANGED <<world, loop, task, ver, fleet, failed, watchErrors>>

ReturnNoWatch ==
  /\ ~watch /\ phase \in {"serving", "shutdown"}
  /\ proc[running] = "dead"
  /\ Stop({running})
  /\ phase' = "returned"
  /\ UNCHANGED <<world, loop, task, ver, running, pending, failed, watchErrors>>

\* A sprout starts to listen, or exits on its own.
Boots(i) ==
  /\ proc[i] = "booting"
  /\ proc' = [proc EXCEPT ![i] = "up"]
  /\ UNCHANGED <<world, loop, task, ver, stopped, dispatch, running, pending, phase, failed, watchErrors>>

Exits(i) ==
  /\ proc[i] \in {"booting", "up"}
  /\ proc' = [proc EXCEPT ![i] = "dead"]
  /\ UNCHANGED <<world, loop, task, ver, stopped, dispatch, running, pending, phase, failed, watchErrors>>

First == FirstStarts \/ FirstReady \/ FirstWatchFails \/ FirstFails

Work(t) ==
  TimerStarts(t) \/ ReadOk(t) \/ ReadThrows(t) \/ ReadExits(t) \/ StartFails(t) \/ StartOk(t)
    \/ StartTooLate(t) \/ NotReady(t) \/ Switch(t) \/ SwitchWatchFails(t)

Coordinator == OnChange \/ TimerIgnored \/ ReturnWatching \/ ReturnNoWatch

Next ==
  \/ First \/ Save \/ Coordinator \/ Shutdown
  \/ \E t \in Rebuild : Work(t)
  \/ \E i \in Candidate : Boots(i) \/ Exits(i)

Spec == Init /\ [][Next]_vars

\* The event loop runs what is ready: callbacks, timers and every rebuild,
\* whose compile and readiness wait are bounded.  Nothing makes a user save, a
\* signal arrive or a sprout die.
Fairness ==
  /\ WF_vars(First)
  /\ WF_vars(Coordinator)
  /\ \A t \in Rebuild : WF_vars(Work(t))

FairSpec == Spec /\ Fairness

(***************************************************************************)
(* Properties.                                                             *)
(***************************************************************************)
\* While the server serves, the public port leads to a candidate nobody has
\* stopped, and that candidate's broker is the only one that dispatches cron
\* and queue work, whatever failed around the switch.
OneServing ==
  phase = "serving" => running \notin stopped /\ dispatch = {running}

\* stop() reaches every candidate: while serving, only the routed and the
\* pending one are left alone; after a signal none is, including one whose
\* start was in flight when the signal came.  (resetWatchers() throwing is the
\* exception: the previous candidate is then forgotten.)
NoLeak ==
  LET kept == {i \in Candidate : proc[i] # "none" /\ i \notin stopped}
  IN  watchErrors = 0 /\ phase # "failed" =>
        kept \subseteq IF phase \in {"starting", "serving"} THEN {running, pending} ELSE {}

\* The public port never goes back to an older version of the project:
\* rebuilds that overlap saves and each other cannot finish out of order.
NeverOlder == [][ver'[running'] >= ver[running]]_<<running, ver>>

\* Saves settle: in the end the latest version is served, or its own rebuild
\* was reported to have failed, or no watcher told of it, or the command ended.
Settled ==
  phase \notin {"starting", "serving"} \/ ver[running] = disk \/ disk \in failed \/ lost
Converges == <>[]Settled

\* "Keep the last good build serving; a typo should not take the server down
\* mid-edit": once the server serves, only a signal ends it.
BadSaveKeepsServing == [][phase = "serving" => phase' # "failed"]_phase

=============================================================================
